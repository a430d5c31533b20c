------------------------ MODULE MCConversationJournal ------------------------
(***************************************************************************)
(* Model values for ConversationJournal.                                   *)
(***************************************************************************)
EXTENDS ConversationJournal, TLC

(* The code treats all turns of a conversation alike.                      *)
Symmetry == Permutations(Turn)
=============================================================================
