--------------------------- MODULE MCWriterFence ---------------------------
(***************************************************************************)
(* Model values for WriterFence: two windows and two helper processes, so  *)
(* that either the windows compete for the vault or one of them spawns a   *)
(* second helper while events of its first are still to come.              *)
(***************************************************************************)
EXTENDS WriterFence

CONSTANTS FirstWindow, FirstProc

(* Nothing tells the windows apart but their names, so it is enough to     *)
(* follow the behaviours in which FirstWindow spawns the first helper.     *)
FirstSpawns == owner[FirstProc] \in {FirstWindow, NoWindow}
=============================================================================
