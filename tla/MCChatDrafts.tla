---------------------------- MODULE MCChatDrafts ----------------------------
(* Instances of ChatDrafts for TLC.                                        *)
EXTENDS ChatDrafts, TLC

CONSTANTS c1, c2

(* Two switches, or a failure and a switch.                                *)
TwoMishaps == binds + faults <= 2

ConvSymmetry == Permutations({c1, c2})
=============================================================================
