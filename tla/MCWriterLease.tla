--------------------------- MODULE MCWriterLease ---------------------------
(***************************************************************************)
(* Model values for WriterLease.                                           *)
(***************************************************************************)
EXTENDS WriterLease, TLC

(* Windows play equal parts, and so do the tasks other than Main.          *)
Symmetry == Permutations(Window) \cup Permutations(Task \ {Main})
=============================================================================
