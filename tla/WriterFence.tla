----------------------------- MODULE WriterFence -----------------------------
(***************************************************************************)
(* PythonFcntlProcessWriteLock (storage/processWriteLock.ts): a plugin      *)
(* window holds flock() on a file of the vault through a helper process it  *)
(* spawns, and has the helper execute its file requests.  The helper's      *)
(* lifetime is the fence's lifetime.  Modelled: the helper processes and    *)
(* the kernel's lock, the JavaScript fields (child, held, acquirePromise,   *)
(* pendingRequests), the calls of acquire() and release() in progress, the  *)
(* stdin and stdout lines between them, the exit and close events, the      *)
(* three timeouts, the check of the lock directory after READY, death of a  *)
(* helper at any point and death of a window at any point (its pipes        *)
(* close).                                                                  *)
(***************************************************************************)
EXTENDS Windows, FiniteSets, Naturals

CONSTANTS Proc,       \* helper process identities (each is spawned once)
          NoProc

ASSUME NoneAssumption == NoWindow \notin Window /\ NoProc \notin Proc

VARIABLES
  up,        \* windows whose JavaScript is running
  child,     \* this.child
  held,      \* this.held
  acq,       \* what the acquire behind this.acquirePromise awaits
  rel,       \* per helper: what a release() of it awaits
  pend,      \* this.pendingRequests: the helpers they were written to
  os,        \* the life of a helper process
  owner,     \* the window that spawned it
  killed,    \* child.killed: a signal was sent
  eof,       \* its stdin holds a release request or was closed
  said,      \* the handshake line in its stdout, until it is read
  ended,     \* the events its window has seen: none, exit, close
  inbox,     \* a request line waits in its stdin
  reply,     \* a response line waits in its stdout
  flock,     \* the process that holds the kernel's lock
  file       \* the window on whose behalf the file was last replaced

jsvars == <<up, child, held, acq, rel, pend>>
osvars == <<os, owner, killed, eof, said, ended, inbox, reply, flock, file>>
vars == <<jsvars, osvars>>

(* "stuck": it waits for a release() that waits for it.                    *)
Acquiring == {"no", "handshake", "killing", "checking", "stuck"}

TypeOK ==
  /\ up \in SUBSET Window
  /\ child \in [Window -> Proc \cup {NoProc}]
  /\ held \in [Window -> BOOLEAN]
  /\ acq \in [Window -> Acquiring]
  /\ rel \in [Proc -> {"no", "waiting", "killing"}]
  /\ pend \in [Window -> SUBSET Proc]
  /\ os \in [Proc -> {"unused", "starting", "serving", "exited"}]
  /\ owner \in [Proc -> Window \cup {NoWindow}]
  /\ killed \in [Proc -> BOOLEAN]
  /\ eof \in [Proc -> BOOLEAN]
  /\ said \in [Proc -> {"nothing", "READY", "BUSY", "ReadyRead", "BusyRead"}]
  /\ ended \in [Proc -> {"no", "exit", "close"}]
  /\ inbox \in [Proc -> BOOLEAN]
  /\ reply \in [Proc -> BOOLEAN]
  /\ flock \in Proc \cup {NoProc}
  /\ file \in Window \cup {NoWindow}

Init ==
  /\ up = Window
  /\ child = [w \in Window |-> NoProc]
  /\ held = [w \in Window |-> FALSE]
  /\ acq = [w \in Window |-> "no"]
  /\ rel = [p \in Proc |-> "no"]
  /\ pend = [w \in Window |-> {}]
  /\ os = [p \in Proc |-> "unused"]
  /\ owner = [p \in Proc |-> NoWindow]
  /\ killed = [p \in Proc |-> FALSE]
  /\ eof = [p \in Proc |-> FALSE]
  /\ said = [p \in Proc |-> "nothing"]
  /\ ended = [p \in Proc |-> "no"]
  /\ inbox = [p \in Proc |-> FALSE]
  /\ reply = [p \in Proc |-> FALSE]
  /\ flock = NoProc
  /\ file = NoWindow

Alive(p) == os[p] \in {"starting", "serving"}

(* The kernel drops the lock of a process that is gone.                    *)
FlockWithout(p) == IF flock = p THEN NoProc ELSE flock

(***************************************************************************)
(* The window's side.                                                      *)
(***************************************************************************)
(* A process identity nobody had: which one does not matter.               *)
Fresh == CHOOSE p \in Proc : os[p] = "unused"

(* acquire(): returns at once when held or when an acquire is under way;   *)
(* otherwise startHelper() spawns.  It never looks at an earlier child,    *)
(* which a release() may still be waiting for.                             *)
StartHelper(w, p) ==
  /\ w \in up /\ acq[w] = "no" /\ ~held[w]
  /\ os[p] = "unused" /\ p = Fresh
  /\ child' = [child EXCEPT ![w] = p]
  /\ acq' = [acq EXCEPT ![w] = "handshake"]
  /\ os' = [os EXCEPT ![p] = "starting"]
  /\ owner' = [owner EXCEPT ![p] = w]
  /\ UNCHANGED <<up, held, rel, pend, killed, eof, said, ended, inbox, reply, flock, file>>

(* The acquire of the window waits for the handshake of this helper.       *)
Awaits(w, p) == acq[w] = "handshake" /\ child[w] = p

(* A READY line sets held whether or not the handshake already timed out;  *)
(* the acquire that waited for it goes on to check the lock directory.     *)
ReadReady(w, p) ==
  /\ w \in up /\ owner[p] = w /\ said[p] = "READY"
  /\ said' = [said EXCEPT ![p] = "ReadyRead"]
  /\ held' = [held EXCEPT ![w] = TRUE]
  /\ acq' = IF Awaits(w, p) THEN [acq EXCEPT ![w] = "checking"] ELSE acq
  /\ UNCHANGED <<up, child, rel, pend, os, owner, killed, eof, ended, inbox, reply, flock, file>>

(* The directory is what it was, or cannot be looked at: the acquire        *)
(* returns, with the flag set unless the helper has closed meanwhile.      *)
CheckPasses(w) ==
  /\ w \in up /\ acq[w] = "checking"
  /\ acq' = [acq EXCEPT ![w] = "no"]
  /\ UNCHANGED <<up, child, held, rel, pend, osvars>>

(* The directory became something else: startHelper() awaits release(),    *)
(* which awaits acquirePromise, which is this acquire.                     *)
CheckFails(w) ==
  /\ w \in up /\ acq[w] = "checking"
  /\ acq' = [acq EXCEPT ![w] = "stuck"]
  /\ UNCHANGED <<up, child, held, rel, pend, osvars>>

ReadBusy(w, p) ==
  /\ w \in up /\ owner[p] = w /\ said[p] = "BUSY"
  /\ said' = [said EXCEPT ![p] = "BusyRead"]
  /\ IF Awaits(w, p)
     THEN /\ acq' = [acq EXCEPT ![w] = "no"]
          /\ held' = [held EXCEPT ![w] = FALSE]
     ELSE UNCHANGED <<acq, held>>
  /\ UNCHANGED <<up, child, rel, pend, os, owner, killed, eof, ended, inbox, reply, flock, file>>

(* No READY in time, or no process: the helper is signalled unless its exit *)
(* was seen, and the acquire waits for it to close.                        *)
HandshakeTimeout(w) ==
  /\ w \in up /\ acq[w] = "handshake"
  /\ held' = [held EXCEPT ![w] = FALSE]
  /\ acq' = [acq EXCEPT ![w] = "killing"]
  /\ killed' = [killed EXCEPT ![child[w]] = (ended[child[w]] = "no")]
  /\ UNCHANGED <<up, child, rel, pend, os, owner, eof, said, ended, inbox, reply, flock, file>>

(* terminateHelper() is over for that acquire: the helper had exited when  *)
(* it was called, or closed, or did not even close after SIGKILL.  In each *)
(* case the window forgets the child.                                      *)
KillDone(w) ==
  /\ w \in up /\ acq[w] = "killing"
  /\ acq' = [acq EXCEPT ![w] = "no"]
  /\ child' = [child EXCEPT ![w] = NoProc]
  /\ UNCHANGED <<up, held, rel, pend, osvars>>

(* assertHeld(), which every request and every ownership check starts with *)
PassesAssertHeld(w) ==
  /\ held[w] /\ child[w] # NoProc
  /\ ended[child[w]] = "no" /\ ~killed[child[w]]

AssertHeldFails(w) ==
  /\ w \in up /\ held[w] /\ ~PassesAssertHeld(w)
  /\ held' = [held EXCEPT ![w] = FALSE]
  /\ UNCHANGED <<up, child, acq, rel, pend, osvars>>

(* sendRequest(): one request in flight per helper is enough here.  A line *)
(* written to a dead process, or behind the end of its input, goes nowhere. *)
SendRequest(w) ==
  LET p == child[w] IN
  /\ w \in up /\ PassesAssertHeld(w) /\ p \notin pend[w]
  /\ pend' = [pend EXCEPT ![w] = @ \cup {p}]
  /\ inbox' = [inbox EXCEPT ![p] = Alive(p) /\ ~eof[p]]
  /\ UNCHANGED <<up, child, held, acq, rel, os, owner, killed, eof, said, ended, reply, flock, file>>

Answered(w, p) ==
  /\ w \in up /\ owner[p] = w /\ reply[p]
  /\ reply' = [reply EXCEPT ![p] = FALSE]
  /\ pend' = [pend EXCEPT ![w] = @ \ {p}]
  /\ UNCHANGED <<up, child, held, acq, rel, os, owner, killed, eof, said, ended, inbox, flock, file>>

(* The error of a write to a stdin that was closed, or whose reader is      *)
(* gone, rejects the request and drops the flag, whichever helper is the   *)
(* child by then.                                                          *)
WriteFails(w, p) ==
  /\ w \in up /\ p \in pend[w] /\ ~inbox[p] /\ ~reply[p]
  /\ os[p] = "exited" \/ eof[p]
  /\ pend' = [pend EXCEPT ![w] = @ \ {p}]
  /\ held' = [held EXCEPT ![w] = FALSE]
  /\ UNCHANGED <<up, child, acq, rel, osvars>>

(* release(): the flag is dropped first, then the helper is asked to leave *)
(* behind the requests already in its stdin.  While an acquire is under    *)
(* way it waits for that one first.                                        *)
Release(w) ==
  LET p == child[w] IN
  /\ w \in up /\ acq[w] = "no" /\ p # NoProc
  /\ held' = [held EXCEPT ![w] = FALSE]
  /\ IF ended[p] = "no"
     THEN /\ rel' = [rel EXCEPT ![p] = IF @ = "no" THEN "waiting" ELSE @]
          /\ eof' = [eof EXCEPT ![p] = TRUE]
     ELSE UNCHANGED <<rel, eof>>
  /\ UNCHANGED <<up, child, acq, pend, os, owner, killed, said, ended, inbox, reply, flock, file>>

ReleaseTimeout(w, p) ==
  /\ w \in up /\ owner[p] = w /\ rel[p] = "waiting"
  /\ rel' = [rel EXCEPT ![p] = "killing"]
  /\ killed' = [killed EXCEPT ![p] = (ended[p] = "no")]
  /\ UNCHANGED <<up, child, held, acq, pend, os, owner, eof, said, ended, inbox, reply, flock, file>>

(* A release() ends after its timeout: the helper had exited, and is        *)
(* forgotten unless it has a successor, or did not close after SIGKILL,    *)
(* and the error leaves it where it is.                                    *)
ReleaseEnds(w, p) ==
  /\ w \in up /\ owner[p] = w /\ rel[p] = "killing"
  /\ rel' = [rel EXCEPT ![p] = "no"]
  /\ \/ ~killed[p] /\ child' = [child EXCEPT ![w] = IF @ = p THEN NoProc ELSE @]
     \/ killed[p] /\ UNCHANGED child
  /\ UNCHANGED <<up, held, acq, pend, osvars>>

ExitEvent(p) ==
  /\ owner[p] \in up /\ os[p] = "exited" /\ ended[p] = "no"
  /\ ended' = [ended EXCEPT ![p] = "exit"]
  /\ UNCHANGED <<jsvars, os, owner, killed, eof, said, inbox, reply, flock, file>>

(* The close of its helper ends an acquire that awaits it.                 *)
AfterClose(a) == IF a \in {"handshake", "killing"} THEN "no" ELSE a

(* A broken variant: only the current child's requests are rejected.       *)
CloseKeepsRequests(w, p) ==
  /\ w \in up /\ owner[p] = w /\ ended[p] = "exit"
  /\ said[p] \notin {"READY", "BUSY"} /\ ~reply[p]
  /\ ended' = [ended EXCEPT ![p] = "close"]
  /\ IF child[w] = p
     THEN /\ child' = [child EXCEPT ![w] = NoProc]
          /\ held' = [held EXCEPT ![w] = FALSE]
          /\ acq' = [acq EXCEPT ![w] = AfterClose(@)]
          /\ pend' = [pend EXCEPT ![w] = {}]
     ELSE UNCHANGED <<child, held, acq, pend>>
  /\ rel' = [rel EXCEPT ![p] = "no"]
  /\ UNCHANGED <<up, os, owner, killed, eof, said, inbox, reply, flock, file>>

(* 'close' comes once stdout is drained.  It rejects every pending request *)
(* of the lock object, and settles whatever waits for this helper.         *)
CloseEvent(w, p) ==
  /\ w \in up /\ owner[p] = w /\ ended[p] = "exit"
  /\ said[p] \notin {"READY", "BUSY"} /\ ~reply[p]
  /\ ended' = [ended EXCEPT ![p] = "close"]
  /\ pend' = [pend EXCEPT ![w] = {}]
  /\ IF child[w] = p
     THEN /\ child' = [child EXCEPT ![w] = NoProc]
          /\ held' = [held EXCEPT ![w] = FALSE]
          /\ acq' = [acq EXCEPT ![w] = AfterClose(@)]
     ELSE UNCHANGED <<child, held, acq>>
  /\ rel' = [rel EXCEPT ![p] = "no"]
  /\ UNCHANGED <<up, os, owner, killed, eof, said, inbox, reply, flock, file>>

(* A broken variant: the helper does not notice.                           *)
WindowGoneUnnoticed(w) ==
  /\ w \in up
  /\ up' = up \ {w}
  /\ child' = [child EXCEPT ![w] = NoProc]
  /\ held' = [held EXCEPT ![w] = FALSE]
  /\ acq' = [acq EXCEPT ![w] = "no"]
  /\ rel' = [p \in Proc |-> IF owner[p] = w THEN "no" ELSE rel[p]]
  /\ pend' = [pend EXCEPT ![w] = {}]
  /\ UNCHANGED osvars

(* The window is gone (closed, crashed, reloaded): its pipes close.        *)
WindowGone(w) ==
  /\ w \in up
  /\ up' = up \ {w}
  /\ child' = [child EXCEPT ![w] = NoProc]
  /\ held' = [held EXCEPT ![w] = FALSE]
  /\ acq' = [acq EXCEPT ![w] = "no"]
  /\ rel' = [p \in Proc |-> IF owner[p] = w THEN "no" ELSE rel[p]]
  /\ pend' = [pend EXCEPT ![w] = {}]
  /\ eof' = [p \in Proc |-> eof[p] \/ owner[p] = w]
  /\ UNCHANGED <<os, owner, killed, said, ended, inbox, reply, flock, file>>

(***************************************************************************)
(* The helper's side (the Python source).                                  *)
(***************************************************************************)
(* Broken variants: the lock is taken from whoever has it; a helper that    *)
(* did not get it serves all the same.                                     *)
HelperSteals(p) ==
  /\ os[p] = "starting"
  /\ flock' = p
  /\ os' = [os EXCEPT ![p] = "serving"]
  /\ said' = [said EXCEPT ![p] = "READY"]
  /\ UNCHANGED <<jsvars, owner, killed, eof, ended, inbox, reply, file>>

HelperIgnoresBusy(p) ==
  /\ os[p] = "starting" /\ flock # NoProc
  /\ os' = [os EXCEPT ![p] = "serving"]
  /\ said' = [said EXCEPT ![p] = "READY"]
  /\ UNCHANGED <<jsvars, owner, killed, eof, ended, inbox, reply, flock, file>>

(* flock(LOCK_EX | LOCK_NB) either takes the lock and says READY, or says  *)
(* BUSY and exits with code 73.                                            *)
HelperLocks(p) ==
  /\ os[p] = "starting" /\ flock = NoProc
  /\ flock' = p
  /\ os' = [os EXCEPT ![p] = "serving"]
  /\ said' = [said EXCEPT ![p] = "READY"]
  /\ UNCHANGED <<jsvars, owner, killed, eof, ended, inbox, reply, file>>

HelperIsBusy(p) ==
  /\ os[p] = "starting" /\ flock # NoProc
  /\ os' = [os EXCEPT ![p] = "exited"]
  /\ said' = [said EXCEPT ![p] = "BUSY"]
  /\ inbox' = [inbox EXCEPT ![p] = FALSE]
  /\ UNCHANGED <<jsvars, owner, killed, eof, ended, reply, flock, file>>

(* One turn of the serve loop on a compare-and-swap that matches.          *)
HelperServes(p) ==
  /\ os[p] = "serving" /\ inbox[p]
  /\ inbox' = [inbox EXCEPT ![p] = FALSE]
  /\ reply' = [reply EXCEPT ![p] = TRUE]
  /\ file' = owner[p]
  /\ UNCHANGED <<jsvars, os, owner, killed, eof, said, ended, flock>>

(* A release request or end of file ends the loop, after what came before. *)
HelperLeaves(p) ==
  /\ os[p] = "serving" /\ eof[p] /\ ~inbox[p]
  /\ os' = [os EXCEPT ![p] = "exited"]
  /\ flock' = FlockWithout(p)
  /\ UNCHANGED <<jsvars, owner, killed, eof, said, ended, inbox, reply, file>>

(* The process dies: a signal, a crash, an error before READY.  It may die *)
(* between replacing the file and answering.                               *)
HelperDies(p) ==
  /\ Alive(p)
  /\ os' = [os EXCEPT ![p] = "exited"]
  /\ flock' = FlockWithout(p)
  /\ inbox' = [inbox EXCEPT ![p] = FALSE]
  /\ \/ file' = file
     \/ os[p] = "serving" /\ inbox[p] /\ file' = owner[p]
  /\ UNCHANGED <<jsvars, owner, killed, eof, said, ended, reply>>

WindowStep(w) ==
  \/ \E p \in Proc : \/ StartHelper(w, p) \/ ReadReady(w, p) \/ ReadBusy(w, p)
                     \/ ReleaseTimeout(w, p) \/ ReleaseEnds(w, p)
                     \/ Answered(w, p) \/ WriteFails(w, p) \/ CloseEvent(w, p)
  \/ CheckPasses(w) \/ CheckFails(w) \/ HandshakeTimeout(w) \/ KillDone(w)
  \/ AssertHeldFails(w) \/ SendRequest(w)
  \/ Release(w) \/ WindowGone(w)

HelperStep(p) ==
  \/ HelperLocks(p) \/ HelperIsBusy(p) \/ HelperServes(p)
  \/ HelperLeaves(p) \/ HelperDies(p) \/ ExitEvent(p)

Next == (\E w \in Window : WindowStep(w)) \/ (\E p \in Proc : HelperStep(p))

Spec == Init /\ [][Next]_vars

(***************************************************************************)
(* Fairness: the event loop of a running window delivers what arrived and  *)
(* its timers fire, and a look at a directory returns; a helper that can   *)
(* go on does; a signalled helper dies.  Nothing obliges a window to       *)
(* acquire, request, release or go away, and nothing obliges a helper to   *)
(* die on its own.                                                         *)
(***************************************************************************)
OutputRead(w, p) ==
  ReadReady(w, p) \/ ReadBusy(w, p) \/ Answered(w, p) \/ CloseEvent(w, p)

AcquireGoesOn(w) ==
  \/ HandshakeTimeout(w) \/ KillDone(w) \/ CheckPasses(w) \/ CheckFails(w)

HelperGoesOn(p) ==
  HelperLocks(p) \/ HelperIsBusy(p) \/ HelperServes(p) \/ HelperLeaves(p) \/ ExitEvent(p)

Fairness ==
  /\ \A w \in Window, p \in Proc : /\ WF_vars(OutputRead(w, p))
                                  /\ WF_vars(ReleaseTimeout(w, p) \/ ReleaseEnds(w, p))
  /\ \A w \in Window : WF_vars(AcquireGoesOn(w))
  /\ \A p \in Proc : WF_vars(HelperGoesOn(p)) /\ WF_vars(killed[p] /\ HelperDies(p))

FairSpec == Spec /\ Fairness

(***************************************************************************)
(* Properties.                                                             *)
(***************************************************************************)
(* The lock object with its helpers is a single-writer fence: whatever the *)
(* order of READY and BUSY lines, timeouts, signals, late events, crashes  *)
(* and half-dead windows, a file is only replaced for the window whose     *)
(* helper has the kernel's lock (the serve loop of the Python helper).     *)
Writer == INSTANCE SingleWriter
            WITH holder <- IF flock = NoProc THEN NoWindow ELSE owner[flock],
                 file <- file
ImplementsSingleWriter == Writer!Spec

(* assertHeld() tells the truth, whatever READY, timeout and close events  *)
(* of earlier helpers come late: when it passes and the helper is alive,   *)
(* that helper has the lock.  The one exception is the handshake of a      *)
(* successor whose predecessor's READY was read after it was spawned: the  *)
(* flag is set then, the acquire has not returned, and a request sent in   *)
(* this state is only served if the successor gets the lock.               *)
HeldMeansFenced ==
  \A w \in Window :
    PassesAssertHeld(w) /\ Alive(child[w]) /\ flock # child[w]
      => /\ Awaits(w, child[w]) /\ os[child[w]] = "starting"
         /\ \E p \in Proc \ {child[w]} : owner[p] = w /\ said[p] = "ReadyRead"

(* A window that is gone does not keep the vault: its helper finishes the  *)
(* requests it was sent, meets the end of its stdin and lets the lock go   *)
(* ("a plugin/process crash closes its descriptor").                       *)
OrphansLeave ==
  \A w \in Window : w \notin up ~> (\A p \in Proc : owner[p] = w => flock # p)

(* Every acquire() and release() of a running window comes to an end, and   *)
(* every request it sends is answered or rejected: no caller of            *)
(* readTextFile or compareAndSwapTextFile waits for ever on a helper that  *)
(* died, was signalled or was told to leave.  One acquire does not: that   *)
(* which found the lock directory unsafe behind READY (:636), and with it  *)
(* every release() behind it.                                              *)
CallsReturn ==
  /\ \A w \in Window :
       acq[w] # "no" ~> acq[w] \in {"no", "stuck"}
  /\ \A p \in Proc :
       /\ rel[p] # "no" ~> rel[p] = "no"
       /\ (\E w \in Window : p \in pend[w]) ~> ~(\E w \in Window : p \in pend[w])
=============================================================================
