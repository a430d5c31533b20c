--------------------------- MODULE MCSessionOwners ---------------------------
(***************************************************************************)
(* Model values for SessionOwners.                                         *)
(***************************************************************************)
EXTENDS SessionOwners, TLC

(* Conversations are treated alike, and so are the sessions of one shard.   *)
Symmetry == Permutations(Conversation) \cup Permutations(Low) \cup Permutations(Session \ Low)
=============================================================================
