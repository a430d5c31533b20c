----------------------- MODULE MCChatRunCoordinator -----------------------
(***************************************************************************)
(* Model values for ChatRunCoordinator.                                    *)
(***************************************************************************)
EXTENDS ChatRunCoordinator

(* Runs play equal parts, and so do conversations.                         *)
Symmetry == Permutations(Run) \cup Permutations(Lane)
=============================================================================
