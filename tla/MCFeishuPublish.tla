--------------------------- MODULE MCFeishuPublish ---------------------------
(***************************************************************************)
(* Model values for FeishuPublish.                                         *)
(***************************************************************************)
EXTENDS FeishuPublish, TLC

(* Notes, accounts and publications are alike.                              *)
Symmetry == Permutations(Job) \cup Permutations(Note) \cup Permutations(Account)
=============================================================================
