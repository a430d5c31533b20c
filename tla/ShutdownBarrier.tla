------------------------- MODULE ShutdownBarrier -------------------------
(***************************************************************************)
(* What the plugin asks of every part that works in the background: once  *)
(* its shutdown has been reported done, nothing of it is working and       *)
(* nothing will work again.  A new plugin generation may then start.       *)
(***************************************************************************)

VARIABLES state,    \* "open", "closing" or "done"
          busy      \* something outside the plugin's own code is at work

vars == <<state, busy>>

Init == state = "open" /\ busy = FALSE

Work == state # "done" /\ busy' \in BOOLEAN /\ UNCHANGED state

Close == state = "open" /\ state' = "closing" /\ UNCHANGED busy

Finish == state = "closing" /\ ~busy /\ state' = "done" /\ UNCHANGED busy

Next == Work \/ Close \/ Finish

Spec == Init /\ [][Next]_vars
=============================================================================
