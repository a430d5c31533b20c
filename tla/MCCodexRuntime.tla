--------------------------- MODULE MCCodexRuntime ---------------------------
(* A small instance of CodexRuntime for TLC. *)
EXTENDS CodexRuntime

CONSTANTS c, e, s

=============================================================================
