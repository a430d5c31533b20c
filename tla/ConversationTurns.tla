-------------------------- MODULE ConversationTurns --------------------------
(***************************************************************************)
(* What one conversation promises its callers                              *)
(* (storage/conversationRepositoryV2.ts): commits, each with a revision     *)
(* newer than all before it, and turns that move through their states one  *)
(* commit at a time, stay ended once they have ended, and of which at most *)
(* one is active.                                                          *)
(***************************************************************************)
EXTENDS Naturals

CONSTANTS Turn, Revision
VARIABLES rev,   \* the revision of the last commit
          turns  \* the state of every turn begun

vars == <<rev, turns>>

Ended == {"completed", "cancelled", "failed", "interrupted"}

Init == rev = 0 /\ turns = <<>>

Commit(r) == r > rev /\ rev' = r

(* Nothing else of the conversation is running.                            *)
Free(t) == \A u \in DOMAIN turns \ {t} : turns[u] \notin {"active", "cancelRequested"}

Set(t, st) ==
  turns' = [u \in DOMAIN turns \cup {t} |-> IF u = t THEN st ELSE turns[u]]

Begin(t) ==
  /\ t \notin DOMAIN turns
  /\ Set(t, "queued") \/ (Free(t) /\ Set(t, "active"))

Activate(t) == t \in DOMAIN turns /\ turns[t] \in {"queued", "paused"} /\ Free(t) /\ Set(t, "active")

Ask(t) == t \in DOMAIN turns /\ turns[t] \in {"queued", "paused", "active"} /\ Set(t, "cancelRequested")

(* A turn asked to stop ends cancelled, whatever its run produced.         *)
End(t) ==
  /\ t \in DOMAIN turns /\ turns[t] \notin Ended
  /\ \/ Set(t, "cancelled")
     \/ turns[t] # "cancelRequested" /\ (Set(t, "completed") \/ Set(t, "failed"))

(* A restart pauses what had not begun and interrupts what had, all at once. *)
Recover ==
  turns' = [t \in DOMAIN turns |->
              CASE turns[t] = "queued" -> "paused"
                [] turns[t] \in {"active", "cancelRequested"} -> "interrupted"
                [] OTHER -> turns[t]]

Step ==
  \/ \E t \in Turn : Begin(t) \/ Activate(t) \/ Ask(t) \/ End(t)
  \/ Recover
  \/ UNCHANGED turns

Next == \E r \in Revision : Commit(r) /\ Step

Spec == Init /\ [][Next]_vars
=============================================================================
