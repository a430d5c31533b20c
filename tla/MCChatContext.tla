---------------------------- MODULE MCChatContext ----------------------------
(* Instances of ChatContext for TLC.                                       *)
EXTENDS ChatContext, TLC

CONSTANTS v1, v2

ViewSymmetry == Permutations({v1, v2})
=============================================================================
