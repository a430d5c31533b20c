--------------------------- MODULE MCMemoryWrite ---------------------------
(***************************************************************************)
(* Model values for MemoryWrite: two proposals, so that one is prepared or  *)
(* cancelled while the other is being applied.                             *)
(***************************************************************************)
EXTENDS MemoryWrite
=============================================================================
