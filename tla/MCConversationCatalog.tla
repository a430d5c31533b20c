------------------------ MODULE MCConversationCatalog ------------------------
(***************************************************************************)
(* Model values for ConversationCatalog.                                   *)
(***************************************************************************)
EXTENDS ConversationCatalog, TLC

(* The catalog treats all conversations alike.                             *)
Symmetry == Permutations(Conversation)
=============================================================================
