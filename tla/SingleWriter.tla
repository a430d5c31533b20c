---------------------------- MODULE SingleWriter ----------------------------
(***************************************************************************)
(* What the process write lock promises to the rest of the plugin: at most *)
(* one window at a time is the writer of a vault, a fenced file is only    *)
(* ever replaced on behalf of that window, and the role is handed over     *)
(* through a moment in which nobody has it.  Nothing is said of helpers,   *)
(* pipes, timeouts or heartbeats.                                          *)
(***************************************************************************)
CONSTANTS Window,     \* plugin instances: one per Obsidian window or reload
          NoWindow    \* no window

VARIABLES holder,     \* the window on whose behalf the fence is held
          file        \* the window on whose behalf the file was last replaced

swvars == <<holder, file>>

Init == holder = NoWindow /\ file = NoWindow

Take(w) == holder = NoWindow /\ holder' = w /\ UNCHANGED file

Drop == holder # NoWindow /\ holder' = NoWindow /\ UNCHANGED file

Replace(w) == holder = w /\ file' = w /\ UNCHANGED holder

(* The last write of a holder and the loss of the fence, in one step: the  *)
(* helper was killed after it replaced the file and before it answered.    *)
ReplaceAndDrop(w) == holder = w /\ file' = w /\ holder' = NoWindow

Next == Drop \/ \E w \in Window : Take(w) \/ Replace(w) \/ ReplaceAndDrop(w)

Spec == Init /\ [][Next]_swvars
=============================================================================
