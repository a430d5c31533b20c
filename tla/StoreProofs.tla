----------------------------- MODULE StoreProofs -----------------------------
(***************************************************************************)
(* Proofs about the store of conversations: who may write it (WriterFence, *)
(* WriterLease, for any number of windows) and what one conversation on    *)
(* disk is (ConversationJournal, for any turns and any number of           *)
(* revisions).                                                             *)
(* The fence, for any number of helpers: type correctness, an inductive    *)
(* invariant that ties what JavaScript believes to what the kernel knows,  *)
(* and from it the truth of assertHeld() and the refinement of             *)
(* SingleWriter.  The lease, for any number of calls: an inductive         *)
(* invariant that ties the calls, the lines in the pipes and the record on *)
(* disk, and from it that the lease in memory is that record and that      *)
(* protected files change under their writer's record only.  The journal:  *)
(* an inductive invariant that says what the files add up to after each    *)
(* write, and from it when every reader can load the conversation, which   *)
(* of what was reported as stored is in it, and the refinement of          *)
(* ConversationTurns.                                                      *)
(***************************************************************************)
EXTENDS WriterFence, WriterLease, ConversationJournal, WellFoundedInduction, TLAPS

(* Every variable keeps its type under every step of windows and helpers.  *)
THEOREM TypeCorrect == Spec => []TypeOK
<1> USE NoneAssumption
<1>1. Init => TypeOK
  BY DEF Init, TypeOK, Acquiring
<1>2. TypeOK /\ [Next]_vars => TypeOK'
  <2> SUFFICES ASSUME TypeOK, [Next]_vars PROVE TypeOK'
    OBVIOUS
  <2> USE DEF TypeOK, Acquiring, jsvars, osvars
  <2>1. ASSUME NEW w \in Window, NEW p \in Proc, StartHelper(w, p) PROVE TypeOK'
    BY <2>1 DEF StartHelper
  <2>2. ASSUME NEW w \in Window, NEW p \in Proc, ReadReady(w, p) PROVE TypeOK'
    BY <2>2 DEF ReadReady, Awaits
  <2>3. ASSUME NEW w \in Window, NEW p \in Proc, ReadBusy(w, p) PROVE TypeOK'
    BY <2>3 DEF ReadBusy, Awaits
  <2>4. ASSUME NEW w \in Window, NEW p \in Proc, Answered(w, p) PROVE TypeOK'
    BY <2>4 DEF Answered
  <2>5. ASSUME NEW w \in Window, NEW p \in Proc, CloseEvent(w, p) PROVE TypeOK'
    <3>1. AfterClose(acq[w]) \in Acquiring
      BY DEF AfterClose
    <3>2. acq' \in [Window -> Acquiring] /\ child' \in [Window -> Proc \cup {NoProc}]
      BY <2>5, <3>1 DEF CloseEvent
    <3> QED
      BY <2>5, <3>2 DEF CloseEvent
  <2>6. ASSUME NEW w \in Window, HandshakeTimeout(w) PROVE TypeOK'
    BY <2>6 DEF HandshakeTimeout
  <2>7. ASSUME NEW w \in Window, AssertHeldFails(w) PROVE TypeOK'
    BY <2>7 DEF AssertHeldFails
  <2>8. ASSUME NEW w \in Window, SendRequest(w) PROVE TypeOK'
    BY <2>8 DEF SendRequest, PassesAssertHeld, Alive
  <2>9. ASSUME NEW w \in Window, Release(w) PROVE TypeOK'
    <3>1. rel' \in [Proc -> {"no", "waiting", "killing"}] /\ eof' \in [Proc -> BOOLEAN]
      <4>1. child[w] \in Proc
        BY <2>9 DEF Release
      <4>2. CASE ended[child[w]] = "no"
        BY <2>9, <4>1, <4>2 DEF Release
      <4>3. CASE ended[child[w]] # "no"
        BY <2>9, <4>1, <4>3 DEF Release
      <4> QED
        BY <4>2, <4>3
    <3> QED
      BY <2>9, <3>1 DEF Release
  <2>10. ASSUME NEW w \in Window, NEW p \in Proc, ReleaseTimeout(w, p) PROVE TypeOK'
    BY <2>10 DEF ReleaseTimeout
  <2>11. ASSUME NEW w \in Window, KillDone(w) PROVE TypeOK'
    BY <2>11 DEF KillDone
  <2>12. ASSUME NEW w \in Window, WindowGone(w) PROVE TypeOK'
    BY <2>12 DEF WindowGone
  <2>13. ASSUME NEW p \in Proc, HelperLocks(p) PROVE TypeOK'
    BY <2>13 DEF HelperLocks
  <2>14. ASSUME NEW p \in Proc, HelperIsBusy(p) PROVE TypeOK'
    BY <2>14 DEF HelperIsBusy
  <2>15. ASSUME NEW p \in Proc, HelperServes(p) PROVE TypeOK'
    BY <2>15 DEF HelperServes
  <2>16. ASSUME NEW p \in Proc, HelperLeaves(p) PROVE TypeOK'
    BY <2>16 DEF HelperLeaves, FlockWithout
  <2>17. ASSUME NEW p \in Proc, HelperDies(p) PROVE TypeOK'
    BY <2>17 DEF HelperDies, FlockWithout
  <2>18. ASSUME NEW p \in Proc, ExitEvent(p) PROVE TypeOK'
    BY <2>18 DEF ExitEvent
  <2>19. ASSUME NEW w \in Window, NEW p \in Proc, WriteFails(w, p) PROVE TypeOK'
    BY <2>19 DEF WriteFails
  <2>20. ASSUME NEW w \in Window, CheckPasses(w) PROVE TypeOK'
    BY <2>20 DEF CheckPasses
  <2>21. ASSUME NEW w \in Window, CheckFails(w) PROVE TypeOK'
    BY <2>21 DEF CheckFails
  <2>22. ASSUME NEW w \in Window, NEW p \in Proc, ReleaseEnds(w, p) PROVE TypeOK'
    BY <2>22 DEF ReleaseEnds
  <2>23. CASE UNCHANGED vars
    BY <2>23 DEF vars
  <2> QED
    BY <2>1, <2>2, <2>3, <2>4, <2>5, <2>6, <2>7, <2>8, <2>9, <2>10, <2>11,
       <2>12, <2>13, <2>14, <2>15, <2>16, <2>17, <2>18, <2>19, <2>20, <2>21,
       <2>22, <2>23
    DEF Next, WindowStep, HelperStep
<1> QED
  BY <1>1, <1>2, PTL DEF Spec

(* What JavaScript believes and what the kernel knows: exactly the serving *)
(* helper has the lock; a process is owned by who spawned it; it says      *)
(* nothing before it has tried the lock, and is not seen to end before it  *)
(* has; a window's child is its own; a child that has not tried the lock   *)
(* is still awaited or was signalled; and a window only ever believes it   *)
(* holds the fence after a READY line.                                     *)
FenceInv ==
  /\ \A p \in Proc : os[p] = "serving" <=> flock = p
  /\ \A p \in Proc : os[p] = "unused" => owner[p] = NoWindow
  /\ \A p \in Proc : os[p] # "unused" => owner[p] \in Window
  /\ \A p \in Proc : os[p] \in {"unused", "starting"} => said[p] = "nothing" /\ ended[p] = "no"
  /\ \A w \in Window : child[w] # NoProc => owner[child[w]] = w
  /\ \A w \in Window : child[w] # NoProc /\ os[child[w]] = "starting" /\ ~killed[child[w]]
                        => acq[w] = "handshake"
  /\ \A w \in Window : held[w] => \E p \in Proc : owner[p] = w /\ said[p] = "ReadyRead"

(* FenceInv is inductive relative to the types.                            *)
THEOREM FenceInvariant == Spec => []FenceInv
<1> USE NoneAssumption
<1>1. Init => FenceInv
  BY DEF Init, FenceInv
<1>2. TypeOK /\ FenceInv /\ [Next]_vars => FenceInv'
  <2> SUFFICES ASSUME TypeOK, FenceInv, [Next]_vars PROVE FenceInv'
    OBVIOUS
  <2> USE DEF TypeOK, Acquiring, FenceInv, jsvars, osvars
  <2>1. ASSUME NEW w \in Window, NEW p \in Proc, StartHelper(w, p) PROVE FenceInv'
    BY <2>1 DEF StartHelper
  <2>2. ASSUME NEW w \in Window, NEW p \in Proc, ReadReady(w, p) PROVE FenceInv'
    BY <2>2 DEF ReadReady, Awaits
  <2>3. ASSUME NEW w \in Window, NEW p \in Proc, ReadBusy(w, p) PROVE FenceInv'
    BY <2>3 DEF ReadBusy, Awaits
  <2>4. ASSUME NEW w \in Window, NEW p \in Proc, Answered(w, p) PROVE FenceInv'
    BY <2>4 DEF Answered
  <2>5. ASSUME NEW w \in Window, NEW p \in Proc, CloseEvent(w, p) PROVE FenceInv'
    <3>1. ASSUME NEW v \in Window, child'[v] # NoProc
          PROVE  /\ owner'[child'[v]] = v
                 /\ os'[child'[v]] = "starting" /\ ~killed'[child'[v]] => acq'[v] = "handshake"
      <4>1. UNCHANGED <<os, owner, killed>> /\ child'[v] = child[v]
        BY <2>5, <3>1 DEF CloseEvent
      <4>2. child[w] # p => acq' = acq
        BY <2>5 DEF CloseEvent
      <4>3. CASE v = w
        <5>1. child[w] # p
          BY <2>5, <3>1, <4>3 DEF CloseEvent
        <5> QED
          BY <3>1, <4>1, <4>2, <4>3, <5>1
      <4>4. CASE v # w
        <5>1. acq'[v] = acq[v]
          BY <2>5, <4>4 DEF CloseEvent
        <5> QED
          BY <3>1, <4>1, <5>1
      <4> QED
        BY <4>3, <4>4
    <3>2. \A v \in Window : held'[v] => held[v]
      BY <2>5 DEF CloseEvent
    <3>3. /\ UNCHANGED <<os, owner, flock, said>>
          /\ \A q \in Proc : ended'[q] = ended[q] \/ (q = p /\ ended[q] = "exit")
      BY <2>5 DEF CloseEvent
    <3> QED
      BY <3>1, <3>2, <3>3
  <2>6. ASSUME NEW w \in Window, HandshakeTimeout(w) PROVE FenceInv'
    <3>1. ASSUME NEW v \in Window, child'[v] # NoProc, os'[child'[v]] = "starting", ~killed'[child'[v]]
          PROVE  acq'[v] = "handshake"
      <4>1. child[v] \in Proc /\ owner[child[v]] = v /\ ended[child[v]] = "no"
        BY <2>6, <3>1 DEF HandshakeTimeout
      <4>2. CASE v = w
        BY <2>6, <3>1, <4>1, <4>2 DEF HandshakeTimeout
      <4>3. CASE v # w
        BY <2>6, <3>1, <4>1, <4>3 DEF HandshakeTimeout
      <4> QED
        BY <4>2, <4>3
    <3> QED
      BY <2>6, <3>1 DEF HandshakeTimeout
  <2>7. ASSUME NEW w \in Window, AssertHeldFails(w) PROVE FenceInv'
    BY <2>7 DEF AssertHeldFails
  <2>8. ASSUME NEW w \in Window, SendRequest(w) PROVE FenceInv'
    BY <2>8 DEF SendRequest, PassesAssertHeld, Alive
  <2>9. ASSUME NEW w \in Window, Release(w) PROVE FenceInv'
    BY <2>9 DEF Release
  <2>10. ASSUME NEW w \in Window, NEW p \in Proc, ReleaseTimeout(w, p) PROVE FenceInv'
    BY <2>10 DEF ReleaseTimeout
  <2>11. ASSUME NEW w \in Window, KillDone(w) PROVE FenceInv'
    BY <2>11 DEF KillDone
  <2>12. ASSUME NEW w \in Window, WindowGone(w) PROVE FenceInv'
    BY <2>12 DEF WindowGone
  <2>13. ASSUME NEW p \in Proc, HelperLocks(p) PROVE FenceInv'
    BY <2>13 DEF HelperLocks
  <2>14. ASSUME NEW p \in Proc, HelperIsBusy(p) PROVE FenceInv'
    BY <2>14 DEF HelperIsBusy
  <2>15. ASSUME NEW p \in Proc, HelperServes(p) PROVE FenceInv'
    BY <2>15 DEF HelperServes
  <2>16. ASSUME NEW p \in Proc, HelperLeaves(p) PROVE FenceInv'
    BY <2>16 DEF HelperLeaves, FlockWithout
  <2>17. ASSUME NEW p \in Proc, HelperDies(p) PROVE FenceInv'
    BY <2>17 DEF HelperDies, FlockWithout, Alive
  <2>18. ASSUME NEW p \in Proc, ExitEvent(p) PROVE FenceInv'
    BY <2>18 DEF ExitEvent
  <2>19. ASSUME NEW w \in Window, NEW p \in Proc, WriteFails(w, p) PROVE FenceInv'
    BY <2>19 DEF WriteFails
  <2>20. ASSUME NEW w \in Window, CheckPasses(w) PROVE FenceInv'
    BY <2>20 DEF CheckPasses
  <2>21. ASSUME NEW w \in Window, CheckFails(w) PROVE FenceInv'
    BY <2>21 DEF CheckFails
  <2>22. ASSUME NEW w \in Window, NEW p \in Proc, ReleaseEnds(w, p) PROVE FenceInv'
    BY <2>22 DEF ReleaseEnds
  <2>23. CASE UNCHANGED vars
    BY <2>23 DEF vars
  <2> QED
    BY <2>1, <2>2, <2>3, <2>4, <2>5, <2>6, <2>7, <2>8, <2>9, <2>10, <2>11,
       <2>12, <2>13, <2>14, <2>15, <2>16, <2>17, <2>18, <2>19, <2>20, <2>21,
       <2>22, <2>23
    DEF Next, WindowStep, HelperStep
<1> QED
  BY <1>1, <1>2, TypeCorrect, PTL DEF Spec

(* assertHeld() is true to its word, with any number of helpers: when it   *)
(* passes and the child lives, the kernel's lock is the child's, except in *)
(* the handshake of a successor, where the flag may be that of a helper    *)
(* before it and the child, having said nothing, serves nobody yet.        *)
THEOREM AssertHeldIsTrue == Spec => []HeldMeansFenced
<1>1. TypeOK /\ FenceInv => HeldMeansFenced
  <2> SUFFICES ASSUME TypeOK, FenceInv, NEW w \in Window,
                      PassesAssertHeld(w), Alive(child[w]), flock # child[w]
               PROVE  /\ Awaits(w, child[w]) /\ os[child[w]] = "starting"
                      /\ \E p \in Proc \ {child[w]} : owner[p] = w /\ said[p] = "ReadyRead"
    BY DEF HeldMeansFenced
  <2>1. child[w] \in Proc /\ ~killed[child[w]] /\ held[w]
    BY DEF TypeOK, PassesAssertHeld
  <2>2. os[child[w]] = "starting"
    BY <2>1 DEF FenceInv, Alive
  <2>3. acq[w] = "handshake"
    BY <2>1, <2>2, NoneAssumption DEF FenceInv
  <2>4. said[child[w]] = "nothing"
    BY <2>1, <2>2 DEF FenceInv
  <2>5. PICK p \in Proc : owner[p] = w /\ said[p] = "ReadyRead"
    BY <2>1 DEF FenceInv
  <2> QED
    BY <2>2, <2>3, <2>4, <2>5 DEF Awaits
<1> QED
  BY <1>1, TypeCorrect, FenceInvariant, PTL

(* The lock object and its helpers implement the single-writer fence: each *)
(* step takes the fence, drops it, replaces the file for its holder, does  *)
(* the last two at once, or leaves the abstract state alone.               *)
THEOREM FenceIsSingleWriter == Spec => ImplementsSingleWriter
<1> USE NoneAssumption
<1> DEFINE H == IF flock = NoProc THEN NoWindow ELSE owner[flock]
<1>1. Init => Writer!Init
  BY DEF Init, Writer!Init
<1>2. TypeOK /\ FenceInv /\ [Next]_vars => [Writer!Next]_<<H, file>>
  <2> SUFFICES ASSUME TypeOK, FenceInv, [Next]_vars
               PROVE  [Writer!Next]_<<H, file>>
    OBVIOUS
  <2> USE DEF TypeOK, FenceInv, jsvars, osvars
  <2>1. ASSUME NEW w \in Window, NEW p \in Proc, StartHelper(w, p) PROVE UNCHANGED <<H, file>>
    BY <2>1 DEF StartHelper
  <2>2. ASSUME NEW w \in Window, NEW p \in Proc, ReadReady(w, p) PROVE UNCHANGED <<H, file>>
    BY <2>2 DEF ReadReady, Awaits
  <2>3. ASSUME NEW w \in Window, NEW p \in Proc, ReadBusy(w, p) PROVE UNCHANGED <<H, file>>
    BY <2>3 DEF ReadBusy, Awaits
  <2>4. ASSUME NEW w \in Window, NEW p \in Proc, Answered(w, p) PROVE UNCHANGED <<H, file>>
    BY <2>4 DEF Answered
  <2>5. ASSUME NEW w \in Window, NEW p \in Proc, CloseEvent(w, p) PROVE UNCHANGED <<H, file>>
    BY <2>5 DEF CloseEvent, AfterClose
  <2>6. ASSUME NEW w \in Window, HandshakeTimeout(w) PROVE UNCHANGED <<H, file>>
    BY <2>6 DEF HandshakeTimeout
  <2>7. ASSUME NEW w \in Window, AssertHeldFails(w) PROVE UNCHANGED <<H, file>>
    BY <2>7 DEF AssertHeldFails
  <2>8. ASSUME NEW w \in Window, SendRequest(w) PROVE UNCHANGED <<H, file>>
    BY <2>8 DEF SendRequest, PassesAssertHeld
  <2>9. ASSUME NEW w \in Window, Release(w) PROVE UNCHANGED <<H, file>>
    BY <2>9 DEF Release
  <2>10. ASSUME NEW w \in Window, NEW p \in Proc, ReleaseTimeout(w, p) PROVE UNCHANGED <<H, file>>
    BY <2>10 DEF ReleaseTimeout
  <2>11. ASSUME NEW w \in Window, KillDone(w) PROVE UNCHANGED <<H, file>>
    BY <2>11 DEF KillDone
  <2>12. ASSUME NEW w \in Window, WindowGone(w) PROVE UNCHANGED <<H, file>>
    BY <2>12 DEF WindowGone
  <2>13. ASSUME NEW p \in Proc, HelperLocks(p) PROVE Writer!Next
    <3>1. owner[p] \in Window /\ Writer!Take(owner[p])
      BY <2>13 DEF HelperLocks, Writer!Take
    <3> QED
      BY <3>1 DEF Writer!Next
  <2>14. ASSUME NEW p \in Proc, HelperIsBusy(p) PROVE UNCHANGED <<H, file>>
    BY <2>14 DEF HelperIsBusy
  <2>15. ASSUME NEW p \in Proc, HelperServes(p) PROVE Writer!Next
    <3>1. owner[p] \in Window /\ Writer!Replace(owner[p])
      BY <2>15 DEF HelperServes, Writer!Replace
    <3> QED
      BY <3>1 DEF Writer!Next
  <2>16. ASSUME NEW p \in Proc, HelperLeaves(p) PROVE Writer!Next
    BY <2>16 DEF HelperLeaves, FlockWithout, Writer!Drop, Writer!Next
  <2>17. ASSUME NEW p \in Proc, HelperDies(p) PROVE [Writer!Next]_<<H, file>>
    BY <2>17 DEF HelperDies, FlockWithout, Alive, Writer!Next, Writer!Drop, Writer!ReplaceAndDrop
  <2>18. ASSUME NEW p \in Proc, ExitEvent(p) PROVE UNCHANGED <<H, file>>
    BY <2>18 DEF ExitEvent
  <2>19. ASSUME NEW w \in Window, NEW p \in Proc, WriteFails(w, p) PROVE UNCHANGED <<H, file>>
    BY <2>19 DEF WriteFails
  <2>20. ASSUME NEW w \in Window, CheckPasses(w) PROVE UNCHANGED <<H, file>>
    BY <2>20 DEF CheckPasses
  <2>21. ASSUME NEW w \in Window, CheckFails(w) PROVE UNCHANGED <<H, file>>
    BY <2>21 DEF CheckFails
  <2>22. ASSUME NEW w \in Window, NEW p \in Proc, ReleaseEnds(w, p) PROVE UNCHANGED <<H, file>>
    BY <2>22 DEF ReleaseEnds
  <2>23. CASE UNCHANGED vars
    BY <2>23 DEF vars
  <2> QED
    BY <2>1, <2>2, <2>3, <2>4, <2>5, <2>6, <2>7, <2>8, <2>9, <2>10, <2>11,
       <2>12, <2>13, <2>14, <2>15, <2>16, <2>17, <2>18, <2>19, <2>20, <2>21,
       <2>22, <2>23
    DEF Next, WindowStep, HelperStep
<1> QED
  BY <1>1, <1>2, TypeCorrect, FenceInvariant, PTL
  DEF Spec, ImplementsSingleWriter, Writer!Spec, Writer!swvars

(***************************************************************************)
(* The lease: the parts of the invariant, for one window.                  *)
(***************************************************************************)
(* The record says that the window holds the lease.                        *)
By(r, w) == r.st = "held" /\ r.by = w

(* The kernel's lock is that of the only helper that serves.               *)
LockAt(w) == helper[w] = "serving" <=> fence = w

(* A window that has not had the fence has left no trace.                  *)
NewAt(w) ==
  life[w] \in {"new", "readOnly"} =>
    /\ pipe[w] = <<>> /\ out[w] = <<>> /\ leaseId[w] = 0
    /\ \A t \in Task : task[w][t] = Idle

(* The lives in which a window may have a protected write under way.       *)
Started == {"writer", "unloading", "unloaded"}

(* What the calls of a window are doing in each phase of its life.         *)
LifeAt(w) ==
  /\ life[w] # "writer" => leaseId[w] = 0
  /\ life[w] = "unloaded" => ~lockHeld[w]
  /\ \A t \in Task :
         LET c == task[w][t] IN
         /\ c.at = "acquire" => t = Main /\ life[w] = "starting"
         /\ c.at = "release" => t = Main /\ life[w] = "unloading"
         /\ c.at \in {"own", "swap"} \/ c.then # "done" => life[w] \in Started
         /\ c.at \in {"own", "renew"} => c.lease # 0
         /\ c.at = "own" => c.then # "done"
         /\ c.then = "renew" => c.at = "own"
         /\ life[w] = "starting" => c.at = "acquire" \/ c = Idle
         /\ c.wait # "no" => c.at # "idle"
         /\ c.wait = "harden" => c.at \in {"acquire", "renew", "release"}

(* The requests in the pipe of a serving helper and the answers on their   *)
(* way back belong to calls that wait, one for each.                       *)
Fits(req, c) ==
  /\ c.wait = "answer"
  /\ req.kind = "read" => c.at \in {"acquire", "renew", "release", "own"}
  /\ req.kind = "cas" => c.at \in {"acquire", "renew", "release"} /\ req.new = c.rep
  /\ req.kind = "data" => c.at = "swap"

(* So for an answer: a swap answers whoever asked for one.                 *)
FitsBack(a, c) ==
  /\ c.wait = "answer"
  /\ a.kind = "read" => c.at \in {"acquire", "renew", "release", "own"}
  /\ a.kind = "cas" => c.at \in {"acquire", "renew", "release", "swap"}

(* The requests before a serving helper: of waiting calls, one for each,   *)
(* and none of a call whose answer is on its way.                          *)
PipeAt(w) ==
  life[w] # "gone" /\ helper[w] = "serving" =>
    /\ \A i \in DOMAIN pipe[w] : pipe[w][i] # Bye => Fits(pipe[w][i], task[w][pipe[w][i].t])
    /\ \A i, j \in DOMAIN pipe[w] :
         pipe[w][i] # Bye /\ pipe[w][j] # Bye /\ pipe[w][i].t = pipe[w][j].t => i = j
    /\ \A i \in DOMAIN pipe[w] : \A j \in DOMAIN out[w] :
         pipe[w][i] # Bye => pipe[w][i].t # out[w][j].t

(* The answers on their way to a window that lives: of waiting calls, one  *)
(* for each.                                                               *)
OutAt(w) ==
  life[w] # "gone" =>
    /\ \A i \in DOMAIN out[w] : FitsBack(out[w][i], task[w][out[w][i].t])
    /\ \A i, j \in DOMAIN out[w] : out[w][i].t = out[w][j].t => i = j

(* The window that takes the lease: the record it swaps in is its own, and *)
(* what its helper has told it of the record is still so.                  *)
StartAt(w) ==
  \A t \in Task : task[w][t].at = "acquire" =>
    LET c == task[w][t] IN
    /\ c.wait = "harden" => By(c.rep, w) /\ (fence = w => record = c.rep)
    /\ \A i \in DOMAIN out[w] : out[w][i].kind = "read" /\ fence = w => record = out[w][i].rec
    /\ \A i \in DOMAIN out[w] : out[w][i].kind = "cas" =>
         By(c.rep, w) /\ (fence = w /\ out[w][i].swapped => record = c.rep)
    /\ \A i \in DOMAIN pipe[w] : helper[w] = "serving" /\ pipe[w][i] # Bye /\ pipe[w][i].kind = "cas" =>
         By(c.rep, w)

(* A swap of the record that leaves it to the window and its lease.        *)
Keeps(req, w) == By(req.exp, w) /\ By(req.new, w) /\ req.new.lease = req.exp.lease

(* A protected write is in the pipe.                                       *)
DataWaits(w) == \E i \in DOMAIN pipe[w] : pipe[w][i].kind = "data"

(* The call reads the record a last time before its protected write.       *)
Asserts(c) == c.at = "own" /\ c.then = "swap"

(* The record has to stay that of the window.                              *)
Needed(w) ==
  \/ life[w] = "writer"
  \/ life[w] = "unloading" /\ \E t \in Task : Asserts(task[w][t])

(* The answer to the call, or else its request, comes before what an       *)
(* unloading window's release reads.                                       *)
Ahead(w, t) ==
  \/ \E j \in DOMAIN out[w] :
       /\ out[w][j].t = t
       /\ life[w] = "unloading" => \A i \in 1..j : out[w][i].t # Main
  \/ /\ life[w] = "unloading" => \A i \in DOMAIN out[w] : out[w][i].t # Main
     /\ \E j \in DOMAIN pipe[w] :
          /\ pipe[w][j] # Bye /\ pipe[w][j].t = t
          /\ life[w] = "unloading" => \A i \in 1..j : pipe[w][i] # Bye => pipe[w][i].t # Main

(* Release reads behind every call that is about to write.                 *)
OrderAt(w) ==
  fence = w /\ life[w] \in {"writer", "unloading"} =>
    \A t \in Task : Asserts(task[w][t]) => Ahead(w, t)

(* While a writer has the fence, while an unloading one may still write,   *)
(* and as long as its helper has a protected write before it, the record   *)
(* names the window; no request changes that ahead of such a write.        *)
RecordAt(w) ==
  fence = w /\ (Needed(w) \/ DataWaits(w)) =>
    /\ By(record, w) /\ (leaseId[w] # 0 => record.lease = leaseId[w])
    /\ \A i \in DOMAIN pipe[w] : pipe[w][i].kind = "cas" =>
         \/ Keeps(pipe[w][i], w)
         \/ ~Needed(w) /\ \A j \in DOMAIN pipe[w] : pipe[w][j].kind = "data" => j < i

(* The parts for all windows, and the inductive invariant.                 *)
LockInv == \A w \in Window : LockAt(w)
NewInv == \A w \in Window : NewAt(w)
LifeInv == \A w \in Window : LifeAt(w)
PipeInv == \A w \in Window : PipeAt(w)
OutInv == \A w \in Window : OutAt(w)
StartInv == \A w \in Window : StartAt(w)
OrderInv == \A w \in Window : OrderAt(w)
RecordInv == \A w \in Window : RecordAt(w)

LeaseInv ==
  /\ LeaseTypeOK /\ LockInv /\ NewInv /\ LifeInv /\ PipeInv /\ OutInv /\ StartInv
  /\ OrderInv /\ RecordInv

(***************************************************************************)
(* Lemmas about the operators of the model.                                *)
(***************************************************************************)
(* Changing one field of a call leaves a call.                             *)
LEMMA SwapFields ==
  ASSUME NEW c \in Call, NEW x
  PROVE  /\ [c EXCEPT !.wait = "answer"] \in Call
         /\ [c EXCEPT !.wait = "harden"] \in Call
         /\ x \in LeaseRecord => [c EXCEPT !.rep = x] \in Call
         /\ [c EXCEPT !.tries = @ + 1] \in Call
BY DEF Call

(* The idle call and the renewals are calls.                               *)
LEMMA Calls ==
  /\ Idle \in Call /\ Released \in LeaseRecord
  /\ \A w \in Window : leaseId[w] \in Nat /\ now \in Nat =>
       Renewing(w, "done") \in Call /\ Renewing(w, "swap") \in Call
BY DEF Idle, Call, LeaseRecord, Released, Renewing

(* What the update callbacks answer: acquiring puts the window into the    *)
(* record, and renewing changes a record only if it is that of the window, *)
(* whose lease it stays.                                                   *)
LEMMA UpdateIs ==
  ASSUME NEW w \in Window, NEW c \in Call, NEW rec \in LeaseRecord,
         c.at \in {"acquire", "renew", "release"}
  PROVE  /\ Update(w, c, rec) \in LeaseRecord
         /\ c.at = "acquire" => By(Update(w, c, rec), w)
         /\ c.at = "renew" /\ Update(w, c, rec) # rec =>
              /\ By(rec, w) /\ By(Update(w, c, rec), w)
              /\ Update(w, c, rec).lease = rec.lease
<1>1. CASE c.at = "acquire"
  BY <1>1 DEF Update, Held, LeaseRecord, By, Call
<1>2. CASE c.at = "release"
  BY <1>2 DEF Update, LeaseRecord, Released
<1>3. CASE c.at = "renew"
  <2>1. CASE ~IsMine(rec, w, c.lease)
    BY <1>3, <2>1 DEF Update
  <2>2. CASE IsMine(rec, w, c.lease)
    <3>1. rec \in [st : {"held"}, by : Window, lease : Nat, acq : Nat, beat : Nat]
      BY <2>2 DEF IsMine, LeaseRecord, Released
    <3>2. c.stamp \in Nat
      BY DEF Call
    <3>3. Update(w, c, rec) = [rec EXCEPT !.beat = c.stamp]
      BY <1>3, <2>2 DEF Update
    <3> QED BY <1>3, <2>2, <3>1, <3>2, <3>3 DEF LeaseRecord, By, IsMine
  <2> QED BY <2>1, <2>2
<1> QED BY <1>1, <1>2, <1>3

(* The elements of a sequence with one more.                               *)
LEMMA AppendIs ==
  ASSUME NEW S, NEW s \in Seq(S), NEW x \in S
  PROVE  /\ Append(s, x) \in Seq(S)
         /\ Len(s) + 1 \in DOMAIN Append(s, x) /\ Append(s, x)[Len(s) + 1] = x
         /\ \A i \in DOMAIN s : i # Len(s) + 1 /\ i \in DOMAIN Append(s, x) /\ Append(s, x)[i] = s[i]
         /\ \A i \in DOMAIN Append(s, x) : i \in DOMAIN s \/ i = Len(s) + 1
OBVIOUS

(* The elements of a sequence without its head.                            *)
LEMMA TailIs ==
  ASSUME NEW S, NEW s \in Seq(S), s # <<>>
  PROVE  /\ Tail(s) \in Seq(S) /\ Head(s) \in S /\ 1 \in DOMAIN s /\ Head(s) = s[1]
         /\ \A i \in DOMAIN Tail(s) : i + 1 # 1 /\ i + 1 \in DOMAIN s /\ Tail(s)[i] = s[i + 1]
         /\ \A i, j \in DOMAIN Tail(s) : i + 1 = j + 1 => i = j
OBVIOUS

(***************************************************************************)
(* A step of a call: it takes its answer, if it waits for one, and then    *)
(* ends, sends a request, hardens, or has taken the lease.                 *)
(***************************************************************************)
(* The phases of the life of a window.                                     *)
Lives == {"new", "readOnly", "starting", "writer", "unloading", "unloaded", "failed", "gone"}

(* What no step of a call changes.                                         *)
Others == UNCHANGED <<helper, fence, deaths, record, data, now, minted>>

(* A step of a call: what becomes of the call, of the window's life and    *)
(* lease, and of its pipe.                                                 *)
Moves(w, t, c, p, l, q) ==
  /\ task' = [task EXCEPT ![w][t] = c]
  /\ life' = [life EXCEPT ![w] = p]
  /\ leaseId' = [leaseId EXCEPT ![w] = l]
  /\ pipe' = [pipe EXCEPT ![w] = q]
  /\ lockHeld' \in {lockHeld, [lockHeld EXCEPT ![w] = FALSE]}
  /\ Others

(* The call ends, successfully or not; what takes or gives back the lease  *)
(* ends the phase of the window as well.                                   *)
Ends(w, t) ==
  \E p \in Lives, l \in {leaseId[w], 0}, q \in {pipe[w], Append(pipe[w], Bye)} :
    /\ Moves(w, t, Idle, p, l, q)
    /\ p = CASE task[w][t].at = "acquire" -> "failed"
             [] task[w][t].at = "release" -> "unloaded"
             [] OTHER -> life[w]
    /\ task[w][t].at = "release" => ~lockHeld'[w]

(* The call sends a request and waits.                                     *)
Sends(w, t) ==
  \E c \in Call, req \in Request :
    /\ Moves(w, t, c, life[w], leaseId[w], Append(pipe[w], req))
    /\ req # Bye /\ req.t = t /\ Fits(req, c)
    /\ c.at = "swap" \/ c.then # "done" => life[w] \in Started
    /\ c.at = "own" => c.then # "done" /\ life[w] = "writer"
    /\ c.at \in {"own", "renew"} => c.lease # 0
    /\ c.then = "renew" => c.at = "own"
    /\ c.at \in {"acquire", "release"} => task[w][t].at = c.at
    /\ life[w] = "starting" => c.at = "acquire"
    /\ life[w] \notin {"new", "readOnly", "gone"}
    /\ req.kind = "cas" /\ c.at = "acquire" => By(req.new, w)
    /\ req.kind = "cas" /\ c.at = "renew" => Keeps(req, w)
    /\ req.kind = "cas" => task[w][t].wait = "answer"
    /\ req.kind = "data" => Asserts(task[w][t]) /\ lockHeld[w]

(* The call has won its swap and hardens file modes.                       *)
Hardens(w, t) ==
  LET c == task[w][t] IN
  /\ Moves(w, t, [c EXCEPT !.wait = "harden"], life[w], leaseId[w], pipe[w])
  /\ c.at \in {"acquire", "renew", "release"}
  /\ c.at = "acquire" => By(c.rep, w) /\ (fence = w => record = c.rep)

(* The call has taken the lease: the record is the window's.               *)
Acquires(w, t) ==
  \E rec \in LeaseRecord :
    /\ Moves(w, t, Idle, "writer", rec.lease, pipe[w])
    /\ task[w][t].at = "acquire"
    /\ By(rec, w) /\ (fence = w => record = rec)

(* What a step of a call may come to.                                      *)
Continues(w, t) == Ends(w, t) \/ Sends(w, t) \/ Hardens(w, t) \/ Acquires(w, t)

(* Either the next answer is that of the call, or the call waits for none. *)
Replied(w, t) ==
  \/ out' = out /\ task[w][t].wait # "answer"
  \/ out[w] # <<>> /\ Head(out[w]).t = t /\ out' = [out EXCEPT ![w] = Tail(@)]

(* A function updated with its own value.                                  *)
LEMMA Same ==
  ASSUME NEW A, NEW R, NEW f \in [A -> R], NEW a \in A
  PROVE  f = [f EXCEPT ![a] = f[a]]
OBVIOUS

(* So for a call.                                                          *)
LEMMA SameCall ==
  ASSUME LeaseTypeOK, NEW w \in Window, NEW t \in Task, NEW c, task[w][t] = c
  PROVE  task = [task EXCEPT ![w][t] = c]
<1>1. task \in [Window -> [Task -> Call]]
  BY DEF LeaseTypeOK
<1>2. task[w] = [task[w] EXCEPT ![t] = c]
  BY <1>1
<1> QED BY <1>1, <1>2

(* LetGo as one change of the pipe.                                        *)
LEMMA LetGoIs ==
  ASSUME LeaseTypeOK, NEW w \in Window, LetGo(w) \/ UNCHANGED <<lockHeld, pipe>>
  PROVE  /\ lockHeld' \in {lockHeld, [lockHeld EXCEPT ![w] = FALSE]}
         /\ LetGo(w) => ~lockHeld'[w]
         /\ \E q \in {pipe[w], Append(pipe[w], Bye)} : pipe' = [pipe EXCEPT ![w] = q]
<1>1. pipe = [pipe EXCEPT ![w] = pipe[w]] /\ lockHeld \in [Window -> BOOLEAN]
  BY Same DEF LeaseTypeOK
<1> QED BY <1>1 DEF LetGo

(* Forget as one change of the lease.                                      *)
LEMMA ForgetIs ==
  ASSUME LeaseTypeOK, NEW w \in Window, Forget(w) \/ UNCHANGED leaseId
  PROVE  \E l \in {leaseId[w], 0} : leaseId' = [leaseId EXCEPT ![w] = l]
<1>1. leaseId = [leaseId EXCEPT ![w] = leaseId[w]]
  BY Same DEF LeaseTypeOK
<1> QED BY <1>1 DEF Forget

(* A call that ends and gives back what its kind gives back.               *)
LEMMA EndsWith ==
  ASSUME LeaseTypeOK, NEW w \in Window, NEW t \in Task, Ended(w, t), GivesBack(w, task[w][t].at),
         Forget(w) \/ UNCHANGED leaseId, Others
  PROVE  Ends(w, t)
<1> DEFINE at == task[w][t].at
           p == CASE at = "acquire" -> "failed" [] at = "release" -> "unloaded" [] OTHER -> life[w]
<1>1. (LetGo(w) \/ UNCHANGED <<lockHeld, pipe>>) /\ life' = [life EXCEPT ![w] = p]
  <2>1. life = [life EXCEPT ![w] = life[w]]
    BY Same DEF LeaseTypeOK
  <2> QED BY <2>1 DEF GivesBack
<1>2. PICK l \in {leaseId[w], 0} : leaseId' = [leaseId EXCEPT ![w] = l]
  BY ForgetIs
<1>3. PICK q \in {pipe[w], Append(pipe[w], Bye)} : pipe' = [pipe EXCEPT ![w] = q]
  BY <1>1, LetGoIs
<1>4. lockHeld' \in {lockHeld, [lockHeld EXCEPT ![w] = FALSE]} /\ (at = "release" => ~lockHeld'[w])
  BY <1>1, LetGoIs DEF GivesBack
<1>5. p \in Lives
  BY DEF LeaseTypeOK, Lives
<1>6. Moves(w, t, Idle, p, l, q)
  BY <1>1, <1>2, <1>3, <1>4 DEF Moves, Ended
<1> QED BY <1>4, <1>5, <1>6 DEF Ends

(* A call that ends within the phase of its window.                        *)
LEMMA EndsPlainly ==
  ASSUME LeaseTypeOK, NEW w \in Window, NEW t \in Task, Ended(w, t), UNCHANGED life,
         task[w][t].at \notin {"acquire", "release"},
         LetGo(w) \/ UNCHANGED <<lockHeld, pipe>>, Forget(w) \/ UNCHANGED leaseId, Others
  PROVE  Ends(w, t)
<1>1. life' = [life EXCEPT ![w] = life[w]] /\ life[w] \in Lives
  BY Same DEF LeaseTypeOK, Lives
<1>2. PICK l \in {leaseId[w], 0} : leaseId' = [leaseId EXCEPT ![w] = l]
  BY ForgetIs
<1>3. PICK q \in {pipe[w], Append(pipe[w], Bye)} : pipe' = [pipe EXCEPT ![w] = q]
  BY LetGoIs
<1>4. lockHeld' \in {lockHeld, [lockHeld EXCEPT ![w] = FALSE]}
  BY LetGoIs
<1>6. Moves(w, t, Idle, life[w], l, q)
  BY <1>1, <1>2, <1>3, <1>4 DEF Moves, Ended
<1> QED BY <1>1, <1>6 DEF Ends

(* Sent as one change of the call and of the pipe.                         *)
LEMMA SendsOne ==
  ASSUME LeaseTypeOK, NEW w \in Window, NEW t \in Task, NEW c \in Call, NEW req \in Request,
         Sent(w, t, c, req), UNCHANGED winvars, Others
  PROVE  /\ [c EXCEPT !.wait = "answer"] \in Call
         /\ Moves(w, t, [c EXCEPT !.wait = "answer"], life[w], leaseId[w], Append(pipe[w], req))
<1>1. life' = [life EXCEPT ![w] = life[w]] /\ leaseId' = [leaseId EXCEPT ![w] = leaseId[w]]
  BY Same DEF LeaseTypeOK, winvars
<1>2. lockHeld' = lockHeld
  BY DEF winvars
<1>3. pipe' = [pipe EXCEPT ![w] = Append(pipe[w], req)]
  BY DEF Sent
<1> QED BY <1>1, <1>2, <1>3, SwapFields DEF Moves, Sent

(* What a step of a call changes, point by point, and the types.           *)
LEMMA Moved ==
  ASSUME LeaseTypeOK, NEW w \in Window, NEW t \in Task, NEW c \in Call, NEW p \in Lives, NEW l \in Nat,
         NEW q \in Seq(Request), Moves(w, t, c, p, l, q), Replied(w, t)
  PROVE  /\ LeaseTypeOK'
         /\ task'[w][t] = c /\ life'[w] = p /\ leaseId'[w] = l /\ pipe'[w] = q
         /\ \A s \in Task \ {t} : task'[w][s] = task[w][s]
         /\ \A v \in Window \ {w} :
              /\ task'[v] = task[v] /\ life'[v] = life[v] /\ leaseId'[v] = leaseId[v]
              /\ pipe'[v] = pipe[v] /\ out'[v] = out[v] /\ lockHeld'[v] = lockHeld[v]
         /\ lockHeld'[w] => lockHeld[w]
<1>1. /\ task \in [Window -> [Task -> Call]] /\ life \in [Window -> Lives]
      /\ leaseId \in [Window -> Nat] /\ pipe \in [Window -> Seq(Request)]
      /\ out \in [Window -> Seq(Answer)] /\ lockHeld \in [Window -> BOOLEAN]
  BY DEF LeaseTypeOK, Lives
<1>2. /\ task' \in [Window -> [Task -> Call]] /\ life' \in [Window -> Lives]
      /\ leaseId' \in [Window -> Nat] /\ pipe' \in [Window -> Seq(Request)]
  BY <1>1 DEF Moves
<1>3. out' \in [Window -> Seq(Answer)] /\ \A v \in Window \ {w} : out'[v] = out[v]
  <2>1. CASE out' = out
    BY <1>1, <2>1
  <2>2. CASE out[w] # <<>> /\ out' = [out EXCEPT ![w] = Tail(@)]
    <3>1. Tail(out[w]) \in Seq(Answer)
      BY <1>1, <2>2, TailIs
    <3> QED BY <1>1, <2>2, <3>1
  <2> QED BY <2>1, <2>2 DEF Replied
<1>4. /\ lockHeld' \in [Window -> BOOLEAN] /\ (lockHeld'[w] => lockHeld[w])
      /\ \A v \in Window \ {w} : lockHeld'[v] = lockHeld[v]
  BY <1>1 DEF Moves
<1>5. LeaseTypeOK'
  BY <1>2, <1>3, <1>4 DEF LeaseTypeOK, Moves, Others, Lives
<1> QED BY <1>1, <1>3, <1>4, <1>5 DEF Moves

(* The answer taken, the window's other answers and requests concern other *)
(* calls.                                                                  *)
Rest(w, t) ==
  /\ \A i \in DOMAIN out'[w] : out'[w][i].t # t /\ \E k \in DOMAIN out[w] : out'[w][i] = out[w][k]
  /\ \A i, j \in DOMAIN out'[w] : out'[w][i].t = out'[w][j].t => i = j
  /\ helper[w] = "serving" => \A i \in DOMAIN pipe[w] : pipe[w][i] # Bye => pipe[w][i].t # t

LEMMA Taken ==
  ASSUME LeaseTypeOK, PipeInv, OutInv, NEW w \in Window, NEW t \in Task, life[w] # "gone", Replied(w, t)
  PROVE  Rest(w, t)
<1>1. /\ \A i \in DOMAIN out[w] : FitsBack(out[w][i], task[w][out[w][i].t])
      /\ \A i, j \in DOMAIN out[w] : out[w][i].t = out[w][j].t => i = j
  BY DEF OutInv, OutAt
<1>2. helper[w] = "serving" =>
        /\ \A i \in DOMAIN pipe[w] : pipe[w][i] # Bye => Fits(pipe[w][i], task[w][pipe[w][i].t])
        /\ \A i \in DOMAIN pipe[w] : \A j \in DOMAIN out[w] :
             pipe[w][i] # Bye => pipe[w][i].t # out[w][j].t
  BY DEF PipeInv, PipeAt
<1>3. CASE out' = out /\ task[w][t].wait # "answer"
  BY <1>1, <1>2, <1>3 DEF Rest, Fits, FitsBack
<1>4. CASE out[w] # <<>> /\ Head(out[w]).t = t /\ out' = [out EXCEPT ![w] = Tail(@)]
  <2>1. out \in [Window -> Seq(Answer)] /\ out[w] \in Seq(Answer)
    BY DEF LeaseTypeOK
  <2>2. out'[w] = Tail(out[w])
    BY <2>1, <1>4
  <2>3. /\ 1 \in DOMAIN out[w] /\ out[w][1].t = t
        /\ \A i \in DOMAIN Tail(out[w]) :
             i + 1 # 1 /\ i + 1 \in DOMAIN out[w] /\ Tail(out[w])[i] = out[w][i + 1]
        /\ \A i, j \in DOMAIN Tail(out[w]) : i + 1 = j + 1 => i = j
    BY <1>4, <2>1, TailIs
  <2>4. \A i \in DOMAIN out'[w] : out'[w][i].t # t /\ \E k \in DOMAIN out[w] : out'[w][i] = out[w][k]
    BY <2>2, <2>3, <1>1
  <2>5. \A i, j \in DOMAIN out'[w] : out'[w][i].t = out'[w][j].t => i = j
    BY <2>2, <2>3, <1>1
  <2>6. helper[w] = "serving" => \A i \in DOMAIN pipe[w] : pipe[w][i] # Bye => pipe[w][i].t # t
    BY <2>3, <1>2
  <2> QED BY <2>4, <2>5, <2>6 DEF Rest
<1> QED BY <1>3, <1>4 DEF Replied

(* What a call that waits or hardens tells of its window.                  *)
LEMMA Working ==
  ASSUME LeaseTypeOK, NewInv, LifeInv, NEW w \in Window, NEW t \in Task, life[w] # "gone",
         task[w][t].at # "idle"
  PROVE  /\ task[w][t] \in Call
         /\ life[w] \notin {"new", "readOnly", "gone"}
         /\ task[w][t].at \in {"own", "swap"} \/ task[w][t].then # "done" => life[w] \in Started
         /\ life[w] = "starting" => task[w][t].at = "acquire"
         /\ task[w][t].then = "renew" => task[w][t].at = "own"
         /\ task[w][t].at \in {"own", "renew"} => task[w][t].lease # 0
         /\ leaseId[w] # 0 => life[w] = "writer"
         /\ lockHeld[w] => life[w] # "unloaded"
<1>1. task[w][t] \in Call
  BY DEF LeaseTypeOK
<1>2. Idle.at = "idle"
  BY DEF Idle
<1>3. life[w] \notin {"new", "readOnly"}
  BY <1>2 DEF NewInv, NewAt
<1> QED BY <1>1, <1>2, <1>3 DEF LifeInv, LifeAt

(* A read may be sent by any call but that of the protected write.         *)
LEMMA ReadFits ==
  ASSUME NEW t \in Task, NEW c, c.wait = "answer", c.at \in {"acquire", "renew", "release", "own"}
  PROVE  /\ ReadReq(t) \in Request /\ ReadReq(t) # Bye /\ ReadReq(t).t = t /\ ReadReq(t).kind = "read"
         /\ Fits(ReadReq(t), c)
BY DEF ReadReq, Bye, Fits, Request

(* A call that sends a read.                                               *)
LEMMA AsksRead ==
  ASSUME LeaseTypeOK, NEW w \in Window, NEW t \in Task, NEW c \in Call,
         Sent(w, t, c, ReadReq(t)), UNCHANGED winvars, Others,
         c.at \in {"acquire", "renew", "release", "own"},
         c.then # "done" => life[w] \in Started,
         c.at = "own" => c.then # "done" /\ life[w] = "writer",
         c.at \in {"own", "renew"} => c.lease # 0,
         c.then = "renew" => c.at = "own",
         c.at \in {"acquire", "release"} => task[w][t].at = c.at,
         life[w] = "starting" => c.at = "acquire",
         life[w] \notin {"new", "readOnly", "gone"}
  PROVE  Sends(w, t)
<1> DEFINE d == [c EXCEPT !.wait = "answer"]
<1>1. d.wait = "answer" /\ d.at = c.at /\ d.then = c.then /\ d.lease = c.lease
  BY DEF Call
<1>2. /\ ReadReq(t) \in Request /\ ReadReq(t) # Bye /\ ReadReq(t).t = t /\ ReadReq(t).kind = "read"
      /\ Fits(ReadReq(t), d)
  BY <1>1, ReadFits
<1>3. d \in Call /\ Moves(w, t, d, life[w], leaseId[w], Append(pipe[w], ReadReq(t)))
  BY <1>2, SendsOne
<1> HIDE DEF d
<1> QED BY <1>1, <1>2, <1>3 DEF Sends

(* The end of renew() (RenewDone).                                         *)
LEMMA RenewDoneContinues ==
  ASSUME LeaseTypeOK, NewInv, LifeInv, NEW w \in Window, NEW t \in Task, life[w] # "gone",
         task[w][t].at = "renew", NEW rec \in LeaseRecord, Others,
         RenewDone(w, t, task[w][t], rec)
  PROVE  Continues(w, t)
<1> DEFINE c == task[w][t]
           next == [c EXCEPT !.at = "own", !.wait = "no"]
<1>1. UNCHANGED life /\ c \in Call
  BY Working DEF RenewDone
<1>2. CASE LetGo(w) /\ Ended(w, t) /\ (Forget(w) \/ UNCHANGED leaseId)
  BY <1>1, <1>2, EndsPlainly DEF Continues
<1>3. CASE Ended(w, t) /\ (Forget(w) \/ UNCHANGED leaseId) /\ UNCHANGED <<lockHeld, pipe>>
  BY <1>1, <1>3, EndsPlainly DEF Continues
<1>4. CASE /\ leaseId[w] = c.lease /\ c.then = "swap"
           /\ Sent(w, t, next, ReadReq(t)) /\ UNCHANGED <<leaseId, lockHeld>>
  <2>1. next \in Call /\ next.at = "own" /\ next.then = "swap" /\ next.lease = c.lease
    BY <1>1, <1>4 DEF Call
  <2>2. life[w] = "writer" /\ c.lease # 0 /\ "writer" \in Started
    BY <1>1, <1>4, Working DEF Started
  <2>3. UNCHANGED winvars
    BY <1>1, <1>4 DEF winvars
  <2> HIDE DEF next
  <2>4. Sends(w, t)
    BY <2>1, <2>2, <2>3, <1>4, AsksRead
  <2> QED BY <2>4 DEF Continues
<1> QED BY <1>2, <1>3, <1>4 DEF RenewDone

(* The end of mutatePersistedLease (Mutated).                              *)
LEMMA MutatedContinues ==
  ASSUME LeaseTypeOK, NewInv, LifeInv, NEW w \in Window, NEW t \in Task, life[w] # "gone",
         task[w][t].at \in {"acquire", "renew", "release"}, NEW rec \in LeaseRecord, Others,
         task[w][t].at = "acquire" => By(rec, w) /\ (fence = w => record = rec),
         Mutated(w, t, task[w][t], rec)
  PROVE  Continues(w, t)
<1> DEFINE c == task[w][t]
<1>1. CASE ~Parses(rec)
  <2>1. Throws(w, t, c)
    BY <1>1 DEF Mutated
  <2>2. Ends(w, t)
    BY <2>1, EndsWith DEF Throws
  <2> QED BY <2>2 DEF Continues
<1>2. CASE Parses(rec) /\ c.at = "acquire"
  <2>1. AcquireDone(w, t, rec)
    BY <1>2 DEF Mutated
  <2>2. pipe' = [pipe EXCEPT ![w] = pipe[w]] /\ lockHeld' = lockHeld
    BY <2>1, Same DEF LeaseTypeOK, AcquireDone
  <2>3. Moves(w, t, Idle, "writer", rec.lease, pipe[w])
    BY <2>1, <2>2 DEF Moves, AcquireDone, Ended
  <2> QED BY <1>2, <2>3 DEF Continues, Acquires
<1>3. CASE Parses(rec) /\ c.at = "renew"
  <2>1. RenewDone(w, t, c, rec)
    BY <1>3 DEF Mutated
  <2> QED BY <1>3, <2>1, RenewDoneContinues
<1>4. CASE Parses(rec) /\ c.at = "release"
  <2>1. Ended(w, t) /\ GivesBack(w, c.at) /\ UNCHANGED leaseId
    BY <1>4 DEF Mutated
  <2>2. Ends(w, t)
    BY <2>1, EndsWith
  <2> QED BY <2>2 DEF Continues
<1> QED BY <1>1, <1>2, <1>3, <1>4

(* An answer to a read in mutatePersistedLease (MutateRead).               *)
LEMMA MutateReadContinues ==
  ASSUME LeaseTypeOK, NewInv, LifeInv, NEW w \in Window, NEW t \in Task, life[w] # "gone",
         task[w][t].at \in {"acquire", "renew", "release"}, NEW rec \in LeaseRecord, Others,
         fence = w /\ task[w][t].at = "acquire" => record = rec,
         task[w][t].wait = "answer",
         MutateRead(w, t, task[w][t], rec)
  PROVE  Continues(w, t)
<1> DEFINE c == task[w][t]
           rep == Update(w, c, rec)
<1>0. c \in Call
  BY Working
<1>1. /\ rep \in LeaseRecord
      /\ c.at = "acquire" => By(rep, w)
      /\ c.at = "renew" /\ rep # rec => By(rec, w) /\ By(rep, w) /\ rep.lease = rec.lease
  BY <1>0, UpdateIs
<1>2. CASE Throws(w, t, c)
  <2>2. Ends(w, t)
    BY <1>2, EndsWith DEF Throws
  <2> QED BY <2>2 DEF Continues
<1>3. CASE rep = rec /\ Mutated(w, t, c, rec)
  BY <1>1, <1>3, MutatedContinues
<1>4. CASE rep # rec /\ Sent(w, t, [c EXCEPT !.rep = rep], SwapReq(t, rec, rep)) /\ UNCHANGED winvars
  <2> HIDE DEF rep
  <2> DEFINE d == [c EXCEPT !.rep = rep]
             e == [d EXCEPT !.wait = "answer"]
             req == SwapReq(t, rec, rep)
  <2>1. d \in Call /\ d.at = c.at /\ d.then = c.then /\ d.rep = rep /\ d.lease = c.lease
    BY <1>0, <1>1, SwapFields DEF Call
  <2>2. e.at = c.at /\ e.then = c.then /\ e.rep = rep /\ e.wait = "answer" /\ e.lease = c.lease
    BY <2>1 DEF Call
  <2>3. /\ req \in Request /\ req # Bye /\ req.t = t /\ req.kind = "cas" /\ req.new = rep /\ req.exp = rec
    BY <1>1 DEF SwapReq, Request, Bye
  <2> HIDE DEF d
  <2>4. e \in Call /\ Moves(w, t, e, life[w], leaseId[w], Append(pipe[w], req))
    BY <2>1, <2>3, <1>4, SendsOne DEF d
  <2> HIDE DEF e, req
  <2>5. Fits(req, e)
    BY <2>2, <2>3 DEF Fits
  <2>6. /\ life[w] \notin {"new", "readOnly", "gone"}
        /\ c.then # "done" => life[w] \in Started
        /\ life[w] = "starting" => c.at = "acquire"
        /\ c.then = "renew" => c.at = "own"
        /\ c.at = "renew" => c.lease # 0
    BY Working
  <2>7. Sends(w, t)
    BY <1>1, <1>4, <2>2, <2>3, <2>4, <2>5, <2>6 DEF Sends, Keeps
  <2> QED BY <2>7 DEF Continues
<1> QED BY <1>2, <1>3, <1>4 DEF MutateRead

(* An answer to a swap in mutatePersistedLease (MutateSwapped).            *)
LEMMA MutateSwappedContinues ==
  ASSUME LeaseTypeOK, NewInv, LifeInv, NEW w \in Window, NEW t \in Task, life[w] # "gone",
         task[w][t].at \in {"acquire", "renew", "release"}, NEW swapped \in BOOLEAN, Others,
         task[w][t].at = "acquire" =>
           By(task[w][t].rep, w) /\ (fence = w /\ swapped => record = task[w][t].rep),
         MutateSwapped(w, t, task[w][t], swapped)
  PROVE  Continues(w, t)
<1> DEFINE c == task[w][t]
           again == [c EXCEPT !.tries = @ + 1]
<1>0. c \in Call
  BY Working
<1>1. CASE swapped
  <2>1. task' = [task EXCEPT ![w][t] = [c EXCEPT !.wait = "harden"]] /\ UNCHANGED <<winvars, pipe>>
    BY <1>1 DEF MutateSwapped, LeaseTypeOK
  <2>2. /\ pipe' = [pipe EXCEPT ![w] = pipe[w]] /\ lockHeld' = lockHeld
        /\ life' = [life EXCEPT ![w] = life[w]] /\ leaseId' = [leaseId EXCEPT ![w] = leaseId[w]]
    BY <2>1, Same DEF LeaseTypeOK, winvars
  <2>3. Hardens(w, t)
    BY <1>1, <2>1, <2>2 DEF Hardens, Moves
  <2> QED BY <2>3 DEF Continues
<1>2. CASE Ended(w, t) /\ GivesBack(w, c.at) /\ Forget(w)
  <2>1. Ends(w, t)
    BY <1>2, EndsWith
  <2> QED BY <2>1 DEF Continues
<1>3. CASE Throws(w, t, c)
  <2>2. Ends(w, t)
    BY <1>3, EndsWith DEF Throws
  <2> QED BY <2>2 DEF Continues
<1>4. CASE Sent(w, t, again, ReadReq(t)) /\ UNCHANGED winvars
  <2>1. again \in Call /\ again.at = c.at /\ again.then = c.then /\ again.lease = c.lease
    BY <1>0, SwapFields DEF Call
  <2>6. /\ life[w] \notin {"new", "readOnly", "gone"}
        /\ c.then # "done" => life[w] \in Started
        /\ life[w] = "starting" => c.at = "acquire"
        /\ c.then = "renew" => c.at = "own"
        /\ c.at = "renew" => c.lease # 0
    BY Working
  <2> HIDE DEF again
  <2>2. Sends(w, t)
    BY <2>1, <2>6, <1>4, AsksRead
  <2> QED BY <2>2 DEF Continues
<1> QED BY <1>1, <1>2, <1>3, <1>4 DEF MutateSwapped

(* An answer to a read in assertOwned (OwnRead).                           *)
LEMMA OwnReadContinues ==
  ASSUME LeaseTypeOK, NewInv, LifeInv, NEW w \in Window, NEW t \in Task, life[w] # "gone",
         task[w][t].at = "own", NEW rec \in LeaseRecord, Others,
         OwnRead(w, t, task[w][t], rec)
  PROVE  Continues(w, t)
<1> DEFINE c == task[w][t]
           renewing == [Renewing(w, "swap") EXCEPT !.want = c.want]
<1>1. /\ UNCHANGED life /\ c \in Call /\ life[w] \in Started
      /\ leaseId[w] # 0 => life[w] = "writer"
      /\ life[w] \notin {"new", "readOnly", "gone", "starting"}
  BY Working DEF OwnRead, Started
<1>2. CASE Ended(w, t) /\ (LetGo(w) \/ UNCHANGED <<lockHeld, pipe>>) /\ (Forget(w) \/ UNCHANGED leaseId)
  <2>1. Ends(w, t)
    BY <1>1, <1>2, EndsPlainly
  <2> QED BY <2>1 DEF Continues
<1>3. CASE leaseId[w] # 0 /\ Sent(w, t, renewing, ReadReq(t)) /\ UNCHANGED <<leaseId, lockHeld>>
  <2>1. renewing \in Call /\ renewing.at = "renew" /\ renewing.then = "swap" /\ renewing.lease # 0
    BY <1>1, <1>3 DEF Call, Renewing, Idle, LeaseRecord, LeaseTypeOK
  <2>2. UNCHANGED winvars
    BY <1>1, <1>3 DEF winvars
  <2> HIDE DEF renewing
  <2>3. Sends(w, t)
    BY <1>1, <2>1, <2>2, <1>3, AsksRead
  <2> QED BY <2>3 DEF Continues
<1>4. CASE /\ c.then = "swap" /\ lockHeld[w] /\ Sent(w, t, [c EXCEPT !.at = "swap"], DataReq(t, c.want))
           /\ UNCHANGED <<leaseId, lockHeld>>
  <2> DEFINE d == [c EXCEPT !.at = "swap"]
             e == [d EXCEPT !.wait = "answer"]
             req == DataReq(t, c.want)
  <2>1. d \in Call /\ d.at = "swap" /\ d.then = "swap"
    BY <1>1, <1>4 DEF Call
  <2>2. e.at = "swap" /\ e.wait = "answer" /\ e.then = "swap"
    BY <2>1 DEF Call
  <2>3. req \in Request /\ req # Bye /\ req.t = t /\ req.kind = "data"
    BY <1>1 DEF DataReq, Request, Bye, Call
  <2>4. UNCHANGED winvars
    BY <1>1, <1>4 DEF winvars
  <2> HIDE DEF d
  <2>5. e \in Call /\ Moves(w, t, e, life[w], leaseId[w], Append(pipe[w], req))
    BY <2>1, <2>3, <2>4, <1>4, SendsOne DEF d
  <2> HIDE DEF e, req
  <2>6. Fits(req, e)
    BY <2>2, <2>3 DEF Fits
  <2>7. Sends(w, t)
    BY <1>1, <1>4, <2>2, <2>3, <2>5, <2>6 DEF Sends, Asserts
  <2> QED BY <2>7 DEF Continues
<1>5. c.then \in {"renew", "swap"}
  BY <1>1 DEF LifeInv, LifeAt, Call
<1> QED BY <1>2, <1>3, <1>4, <1>5 DEF OwnRead

(* Receive is a step of the call whose answer is next.                     *)
LEMMA ReceiveContinues ==
  ASSUME LeaseInv, NEW w \in Window, Receive(w)
  PROVE  \E t \in Task : life[w] \notin {"new", "readOnly", "gone"} /\ Continues(w, t) /\ Replied(w, t)
<1> USE DEF LeaseInv
<1> DEFINE a == Head(out[w])
           t == a.t
           c == task[w][t]
<1>1. /\ life[w] # "gone" /\ out[w] # <<>>
      /\ out' = [out EXCEPT ![w] = Tail(@)] /\ Others
  BY DEF Receive, filevars, Others
<1>2. out[w] \in Seq(Answer)
  BY DEF LeaseTypeOK
<1>3. a \in Answer /\ 1 \in DOMAIN out[w] /\ a = out[w][1]
  BY <1>1, <1>2, TailIs
<1>4. t \in Task
  BY <1>3 DEF Answer
<1>5. /\ a.kind \in {"read", "cas"}
      /\ a.kind = "read" => a.rec \in LeaseRecord
      /\ a.kind = "cas" => a.swapped \in BOOLEAN
  BY <1>3 DEF Answer
<1>6. FitsBack(a, c)
  BY <1>1, <1>3 DEF OutInv, OutAt
<1>7. Replied(w, t)
  BY <1>1 DEF Replied
<1>8. Continues(w, t)
  <2>1. CASE c.at = "own"
    <3>1. a.kind = "read" /\ OwnRead(w, t, c, a.rec)
      BY <2>1, <1>5, <1>6 DEF FitsBack, Receive
    <3> QED BY <1>1, <1>4, <1>5, <2>1, <3>1, OwnReadContinues
  <2>2. CASE c.at = "swap"
    <3>1. Ended(w, t) /\ UNCHANGED <<winvars, pipe>>
      BY <2>2 DEF Receive
    <3>2. Ends(w, t)
      BY <1>1, <1>4, <2>2, <3>1, EndsPlainly DEF winvars
    <3> QED BY <3>2 DEF Continues
  <2>3. CASE c.at \in {"acquire", "renew", "release"} /\ a.kind = "read"
    <3>1. MutateRead(w, t, c, a.rec)
      BY <2>3 DEF Receive
    <3>2. fence = w /\ c.at = "acquire" => record = a.rec
      BY <1>3, <1>4, <2>3 DEF StartInv, StartAt
    <3>3. c.wait = "answer"
      BY <1>6 DEF FitsBack
    <3> QED BY <1>1, <1>4, <1>5, <2>3, <3>1, <3>2, <3>3, MutateReadContinues
  <2>4. CASE c.at \in {"acquire", "renew", "release"} /\ a.kind = "cas"
    <3>1. MutateSwapped(w, t, c, a.swapped)
      BY <2>4 DEF Receive
    <3>2. c.at = "acquire" => By(c.rep, w) /\ (fence = w /\ a.swapped => record = c.rep)
      BY <1>3, <1>4, <2>4 DEF StartInv, StartAt
    <3> QED BY <1>1, <1>4, <1>5, <2>4, <3>1, <3>2, MutateSwappedContinues
  <2> QED BY <1>5, <1>6, <2>1, <2>2, <2>3, <2>4 DEF FitsBack
<1>9. life[w] \notin {"new", "readOnly", "gone"}
  <2>1. c.at # "idle"
    BY <1>4, <1>6 DEF FitsBack, LifeInv, LifeAt
  <2> QED BY <1>1, <1>4, <2>1, Working
<1> QED BY <1>4, <1>7, <1>8, <1>9

(* Hardened is a step of its call.                                         *)
LEMMA HardenedContinues ==
  ASSUME LeaseInv, NEW w \in Window, NEW t \in Task, Hardened(w, t)
  PROVE  life[w] \notin {"new", "readOnly", "gone"} /\ Continues(w, t) /\ Replied(w, t)
<1> USE DEF LeaseInv
<1> DEFINE c == task[w][t]
<1>1. /\ life[w] # "gone" /\ c.wait = "harden" /\ (Mutated(w, t, c, c.rep) \/ Throws(w, t, c))
      /\ out' = out /\ Others
  BY DEF Hardened, filevars, Others
<1>2. c.at \in {"acquire", "renew", "release"}
  BY <1>1 DEF LifeInv, LifeAt
<1>3. c \in Call /\ c.rep \in LeaseRecord
  BY DEF LeaseTypeOK, Call
<1>4. c.at = "acquire" => By(c.rep, w) /\ (fence = w => record = c.rep)
  BY <1>1 DEF StartInv, StartAt
<1>5. Continues(w, t)
  <2>1. CASE Mutated(w, t, c, c.rep)
    BY <1>1, <1>2, <1>3, <1>4, <2>1, MutatedContinues
  <2>2. CASE Throws(w, t, c)
    <3>1. Ends(w, t)
      BY <1>1, <2>2, EndsWith DEF Throws
    <3> QED BY <3>1 DEF Continues
  <2> QED BY <1>1, <2>1, <2>2
<1>6. life[w] \notin {"new", "readOnly", "gone"}
  BY <1>1, <1>2, Working
<1> QED BY <1>1, <1>5, <1>6 DEF Replied

(* The guard of protected calls is a step of the call.                     *)
LEMMA GuardedContinues ==
  ASSUME LeaseTypeOK, NEW w \in Window, NEW t \in Task, NEW c \in Call, c.at \in {"renew", "own"},
         c.at = "own" => c.then # "done", c.then = "renew" => c.at = "own",
         leaseId[w] # 0 => c.lease # 0, Guarded(w, t, c)
  PROVE  life[w] \notin {"new", "readOnly", "gone"} /\ Continues(w, t) /\ Replied(w, t)
<1>1. /\ life[w] = "writer" /\ task[w][t] = Idle /\ UNCHANGED <<life, lockHeld>> /\ out' = out /\ Others
      /\ c.lease # 0 /\ life[w] \in Started
  BY DEF Guarded, filevars, Others, Started
<1>2. task[w][t].wait = "no" /\ task[w][t].at = "idle"
  BY <1>1 DEF Idle
<1>3. CASE Sent(w, t, c, ReadReq(t)) /\ UNCHANGED leaseId
  <2>1. UNCHANGED winvars
    BY <1>1, <1>3 DEF winvars
  <2>2. Sends(w, t)
    BY <1>1, <1>3, <2>1, AsksRead
  <2> QED BY <1>1, <1>2, <2>2 DEF Continues, Replied
<1>4. CASE Forget(w) /\ UNCHANGED <<task, pipe>>
  <2>1. Ended(w, t)
    BY <1>1, <1>4, SameCall DEF Ended
  <2>2. Ends(w, t)
    BY <1>1, <1>2, <1>4, <2>1, EndsPlainly
  <2> QED BY <1>1, <1>2, <2>2 DEF Continues, Replied
<1> QED BY <1>3, <1>4 DEF Guarded

(* A renewal or a write that begins is a step of its call.                 *)
LEMMA BeginContinues ==
  ASSUME LeaseTypeOK, NEW w \in Window, NEW t \in Task, BeginRenew(w, t) \/ BeginWrite(w, t)
  PROVE  life[w] \notin {"new", "readOnly", "gone"} /\ Continues(w, t) /\ Replied(w, t)
<1>1. leaseId[w] \in Nat /\ now \in Nat /\ data.n \in Nat
  BY DEF LeaseTypeOK
<1>2. CASE BeginRenew(w, t)
  <2>1. Renewing(w, "done") \in Call /\ Renewing(w, "done").at = "renew" /\ Renewing(w, "done").then = "done"
        /\ Renewing(w, "done").lease = leaseId[w]
    BY <1>1, Calls DEF Renewing, Idle
  <2> QED BY <1>2, <2>1, GuardedContinues DEF BeginRenew
<1>3. CASE BeginWrite(w, t)
  <2> DEFINE c == [Idle EXCEPT !.at = "own", !.then = "renew", !.lease = leaseId[w], !.want = data.n]
  <2>1. c \in Call /\ c.at = "own" /\ c.then = "renew" /\ c.lease = leaseId[w]
    BY <1>1 DEF Idle, Call, LeaseRecord
  <2>2. Guarded(w, t, c)
    BY <1>3 DEF BeginWrite
  <2> HIDE DEF c
  <2> QED BY <2>1, <2>2, GuardedContinues
<1> QED BY <1>2, <1>3

(* The rest of the system does not move in a step of a call.               *)
Kept(w, t) ==
  /\ UNCHANGED <<helper, fence, record, data>>
  /\ \A s \in Task \ {t} : task'[w][s] = task[w][s]
  /\ \A v \in Window \ {w} :
       /\ task'[v] = task[v] /\ life'[v] = life[v] /\ leaseId'[v] = leaseId[v]
       /\ pipe'[v] = pipe[v] /\ out'[v] = out[v] /\ lockHeld'[v] = lockHeld[v]
  /\ lockHeld'[w] => lockHeld[w]

(* The pipe keeps what it has and may get one request.                     *)
Grows(w, req) ==
  /\ \A i \in DOMAIN pipe[w] : i \in DOMAIN pipe'[w] /\ pipe'[w][i] = pipe[w][i]
  /\ \A i \in DOMAIN pipe'[w] : (i \in DOMAIN pipe[w] /\ pipe'[w][i] = pipe[w][i]) \/ pipe'[w][i] = req
  /\ \A i, j \in DOMAIN pipe'[w] : i \notin DOMAIN pipe[w] /\ j \notin DOMAIN pipe[w] => i = j

(* A pipe that is as it was, or has one request more.                      *)
LEMMA GrowsBy ==
  ASSUME LeaseTypeOK, NEW w \in Window, NEW req \in Request,
         pipe'[w] = pipe[w] \/ pipe'[w] = Append(pipe[w], req)
  PROVE  Grows(w, req)
<1>1. pipe[w] \in Seq(Request)
  BY DEF LeaseTypeOK
<1>2. CASE pipe'[w] = pipe[w]
  BY <1>2 DEF Grows
<1>3. CASE pipe'[w] = Append(pipe[w], req)
  BY <1>1, <1>3, AppendIs DEF Grows
<1> QED BY <1>2, <1>3

(* A step of a call that sends at most one request, its own, leaves the    *)
(* pipes in order.                                                         *)
LEMMA PipeKept ==
  ASSUME PipeInv, NEW w \in Window, NEW t \in Task, life[w] # "gone", Rest(w, t), Kept(w, t),
         LeaseTypeOK, NEW req, Grows(w, req),
         req = Bye \/ (req.t = t /\ Fits(req, task'[w][t]))
  PROVE  PipeInv'
<1>1. SUFFICES ASSUME NEW v \in Window, life'[v] # "gone" /\ helper'[v] = "serving"
               PROVE  /\ \A i \in DOMAIN pipe'[v] : pipe'[v][i] # Bye => Fits(pipe'[v][i], task'[v][pipe'[v][i].t])
                      /\ \A i, j \in DOMAIN pipe'[v] :
                           pipe'[v][i] # Bye /\ pipe'[v][j] # Bye /\ pipe'[v][i].t = pipe'[v][j].t => i = j
                      /\ \A i \in DOMAIN pipe'[v] : \A j \in DOMAIN out'[v] :
                           pipe'[v][i] # Bye => pipe'[v][i].t # out'[v][j].t
  BY DEF PipeInv, PipeAt, Fits
<1>2. CASE v # w
  <2>1. life[v] # "gone" /\ helper[v] = "serving"
    BY <1>1, <1>2 DEF Kept
  <2>2. task'[v] = task[v] /\ pipe'[v] = pipe[v] /\ out'[v] = out[v]
    BY <1>2 DEF Kept
  <2> QED BY <2>1, <2>2 DEF PipeInv, PipeAt
<1>3. CASE v = w
  <2>1. /\ \A i \in DOMAIN pipe[w] : pipe[w][i] # Bye => Fits(pipe[w][i], task[w][pipe[w][i].t])
        /\ \A i, j \in DOMAIN pipe[w] :
             pipe[w][i] # Bye /\ pipe[w][j] # Bye /\ pipe[w][i].t = pipe[w][j].t => i = j
        /\ \A i \in DOMAIN pipe[w] : \A j \in DOMAIN out[w] :
             pipe[w][i] # Bye => pipe[w][i].t # out[w][j].t
        /\ \A i \in DOMAIN pipe[w] : pipe[w][i] # Bye => pipe[w][i].t # t
    BY <1>1, <1>3 DEF PipeInv, PipeAt, Rest, Kept
  <2>2. \A i \in DOMAIN pipe[w] : pipe[w][i] # Bye => pipe[w][i].t \in Task
    BY DEF LeaseTypeOK, Request
  <2>3. \A i \in DOMAIN pipe'[w] : pipe'[w][i] # Bye => Fits(pipe'[w][i], task'[w][pipe'[w][i].t])
    BY <2>1, <2>2 DEF Kept, Grows
  <2>4. \A i, j \in DOMAIN pipe'[w] :
          pipe'[w][i] # Bye /\ pipe'[w][j] # Bye /\ pipe'[w][i].t = pipe'[w][j].t => i = j
    BY <2>1 DEF Grows
  <2>5. \A i \in DOMAIN pipe'[w] : \A j \in DOMAIN out'[w] :
          pipe'[w][i] # Bye => pipe'[w][i].t # out'[w][j].t
    BY <2>1 DEF Grows, Rest
  <2> QED BY <1>3, <2>3, <2>4, <2>5
<1> QED BY <1>2, <1>3

(* So for the answers.                                                     *)
LEMMA OutKept ==
  ASSUME OutInv, NEW w \in Window, NEW t \in Task, life[w] # "gone", Rest(w, t), Kept(w, t), LeaseTypeOK
  PROVE  OutInv'
<1>1. SUFFICES ASSUME NEW v \in Window, life'[v] # "gone"
               PROVE  /\ \A i \in DOMAIN out'[v] : FitsBack(out'[v][i], task'[v][out'[v][i].t])
                      /\ \A i, j \in DOMAIN out'[v] : out'[v][i].t = out'[v][j].t => i = j
  BY DEF OutInv, OutAt, FitsBack
<1>2. CASE v # w
  BY <1>1, <1>2 DEF OutInv, OutAt, Kept
<1>3. CASE v = w
  <2>1. \A i \in DOMAIN out[w] : out[w][i].t \in Task /\ FitsBack(out[w][i], task[w][out[w][i].t])
    BY DEF OutInv, OutAt, LeaseTypeOK, Answer
  <2> QED BY <1>3, <2>1 DEF Rest, Kept
<1> QED BY <1>2, <1>3

(* The lock and the helpers do not move.                                   *)
LEMMA LockKept ==
  ASSUME LockInv, UNCHANGED <<helper, fence>>
  PROVE  LockInv'
BY DEF LockInv, LockAt

(* No step of a call makes a window new.                                   *)
LEMMA NewKept ==
  ASSUME NewInv, NEW w \in Window, NEW t \in Task, Kept(w, t), life'[w] \notin {"new", "readOnly"}
  PROVE  NewInv'
BY DEF NewInv, NewAt, Kept

(* The new state of the call and of its window suits the calls of the      *)
(* window.                                                                 *)
LEMMA LifeKept ==
  ASSUME LifeInv, NEW w \in Window, NEW t \in Task, Kept(w, t),
         life'[w] # "writer" => leaseId'[w] = 0,
         life'[w] = "unloaded" => ~lockHeld'[w],
         \/ life'[w] = life[w]
         \/ task[w][t].at = "acquire" /\ life'[w] \in {"failed", "writer"}
         \/ task[w][t].at = "release" /\ life'[w] = "unloaded",
         LET c == task'[w][t] IN
           /\ c.at = "acquire" => t = Main /\ life'[w] = "starting"
           /\ c.at = "release" => t = Main /\ life'[w] = "unloading"
           /\ c.at \in {"own", "swap"} \/ c.then # "done" => life'[w] \in Started
           /\ c.at \in {"own", "renew"} => c.lease # 0
           /\ c.at = "own" => c.then # "done"
           /\ c.then = "renew" => c.at = "own"
           /\ life'[w] = "starting" => c.at = "acquire" \/ c = Idle
           /\ c.wait # "no" => c.at # "idle"
           /\ c.wait = "harden" => c.at \in {"acquire", "renew", "release"}
  PROVE  LifeInv'
<1>0. Idle.at = "idle" /\ Idle.wait = "no" /\ Idle.then = "done"
  BY DEF Idle
<1>1. SUFFICES ASSUME NEW v \in Window
               PROVE  /\ life'[v] # "writer" => leaseId'[v] = 0
                      /\ life'[v] = "unloaded" => ~lockHeld'[v]
                      /\ \A s \in Task :
                           LET c == task'[v][s] IN
                           /\ c.at = "acquire" => s = Main /\ life'[v] = "starting"
                           /\ c.at = "release" => s = Main /\ life'[v] = "unloading"
                           /\ c.at \in {"own", "swap"} \/ c.then # "done" => life'[v] \in Started
                           /\ c.at \in {"own", "renew"} => c.lease # 0
                           /\ c.at = "own" => c.then # "done"
                           /\ c.then = "renew" => c.at = "own"
                           /\ life'[v] = "starting" => c.at = "acquire" \/ c = Idle
                           /\ c.wait # "no" => c.at # "idle"
                           /\ c.wait = "harden" => c.at \in {"acquire", "renew", "release"}
  BY DEF LifeInv, LifeAt, Idle, Started
<1>2. CASE v # w
  BY <1>2 DEF LifeInv, LifeAt, Kept, Started
<1>3. CASE v = w
  <2>1. ASSUME NEW s \in Task \ {t}
        PROVE  LET c == task'[w][s] IN
               /\ c.at = "acquire" => s = Main /\ life'[w] = "starting"
               /\ c.at = "release" => s = Main /\ life'[w] = "unloading"
               /\ c.at \in {"own", "swap"} \/ c.then # "done" => life'[w] \in Started
               /\ c.at \in {"own", "renew"} => c.lease # 0
               /\ c.at = "own" => c.then # "done"
               /\ c.then = "renew" => c.at = "own"
               /\ life'[w] = "starting" => c.at = "acquire" \/ c = Idle
               /\ c.wait # "no" => c.at # "idle"
               /\ c.wait = "harden" => c.at \in {"acquire", "renew", "release"}
    <3>1. task'[w][s] = task[w][s]
      BY <2>1 DEF Kept
    <3>2. CASE life'[w] = life[w]
      BY <2>1, <3>1, <3>2 DEF LifeInv, LifeAt
    <3>3. CASE task[w][t].at = "acquire"
      <4>1. task[w][s] = Idle
        BY <2>1, <3>3 DEF LifeInv, LifeAt
      <4> QED BY <3>1, <4>1, <1>0
    <3>4. CASE task[w][t].at = "release" /\ life'[w] = "unloaded"
      <4>1. life[w] = "unloading" /\ t = Main
        BY <3>4 DEF LifeInv, LifeAt
      <4> QED BY <2>1, <3>1, <3>4, <4>1 DEF LifeInv, LifeAt, Started
    <3> QED BY <3>2, <3>3, <3>4
  <2> QED BY <1>3, <2>1
<1> QED BY <1>2, <1>3

(* A request that the call t sends names the window when t takes the       *)
(* lease.                                                                  *)
LEMMA StartKept ==
  ASSUME StartInv, LeaseTypeOK, LockInv, PipeInv, OutInv, LifeInv, LifeInv',
         NEW w \in Window, NEW t \in Task, life[w] # "gone",
         Rest(w, t), Kept(w, t), NEW req, Grows(w, req),
         req = Bye \/ (req.t = t /\ Fits(req, task'[w][t])),
         req # Bye /\ req.kind = "cas" /\ task'[w][t].at = "acquire" => By(req.new, w),
         task'[w][t].at = "acquire" => life[w] = "starting",
         life[w] = "starting" /\ req # Bye => task'[w][t].at = "acquire",
         life'[w] = "starting" => life[w] = "starting",
         LET c == task'[w][t] IN
           c.at = "acquire" /\ c.wait = "harden" => By(c.rep, w) /\ (fence = w => record = c.rep)
  PROVE  StartInv'
<1>0. Idle.at = "idle" /\ Idle.wait = "no"
  BY DEF Idle
<1>1. SUFFICES ASSUME NEW v \in Window, NEW s \in Task, task'[v][s].at = "acquire"
               PROVE  LET c == task'[v][s] IN
                      /\ c.wait = "harden" => By(c.rep, v) /\ (fence' = v => record' = c.rep)
                      /\ \A i \in DOMAIN out'[v] : out'[v][i].kind = "read" /\ fence' = v => record' = out'[v][i].rec
                      /\ \A i \in DOMAIN out'[v] : out'[v][i].kind = "cas" =>
                           By(c.rep, v) /\ (fence' = v /\ out'[v][i].swapped => record' = c.rep)
                      /\ \A i \in DOMAIN pipe'[v] :
                           helper'[v] = "serving" /\ pipe'[v][i] # Bye /\ pipe'[v][i].kind = "cas" => By(c.rep, v)
  BY DEF StartInv, StartAt, By
<1>2. CASE v # w
  <2>1. /\ task'[v] = task[v] /\ pipe'[v] = pipe[v] /\ out'[v] = out[v]
        /\ UNCHANGED <<helper, fence, record>>
    BY <1>2 DEF Kept
  <2>2. task[v][s].at = "acquire"
    BY <1>1, <2>1
  <2> QED BY <2>1, <2>2 DEF StartInv, StartAt
<1>3. CASE v = w /\ s = t
  <2>1. life[w] = "starting" /\ t = Main
    BY <1>1, <1>3 DEF LifeInv, LifeAt
  <2>2. \A r \in Task \ {t} : task[w][r] = Idle
    BY <2>1 DEF LifeInv, LifeAt
  <2>3. out'[w] = <<>> \/ DOMAIN out'[w] = {}
    <3>1. ASSUME NEW i \in DOMAIN out'[w] PROVE FALSE
      <4>1. PICK k \in DOMAIN out[w] : out'[w][i] = out[w][k]
        BY DEF Rest
      <4>2. out[w][k].t \in Task /\ out[w][k].t # t
        <5>1. out'[w][i].t # t
          BY DEF Rest
        <5>2. out[w] \in Seq(Answer)
          BY DEF LeaseTypeOK
        <5>3. out[w][k] \in Answer
          BY <5>2
        <5> QED
          BY <4>1, <5>1, <5>3 DEF Answer
      <4>3. FitsBack(out[w][k], Idle)
        BY <2>2, <4>2 DEF OutInv, OutAt
      <4> QED BY <4>3, <1>0 DEF FitsBack
    <3> QED BY <3>1
  <2>4. ASSUME NEW i \in DOMAIN pipe'[w], helper'[w] = "serving", pipe'[w][i] # Bye
        PROVE  pipe'[w][i] = req
    <3>1. CASE i \in DOMAIN pipe[w] /\ pipe'[w][i] = pipe[w][i]
      <4>1. pipe[w][i].t \in Task /\ pipe[w][i].t # t
        BY <2>4, <3>1 DEF Rest, LeaseTypeOK, Request, Kept
      <4>2. Fits(pipe[w][i], Idle)
        BY <2>2, <2>4, <3>1, <4>1 DEF PipeInv, PipeAt, Kept
      <4> QED BY <4>2, <1>0 DEF Fits
    <3> QED BY <3>1 DEF Grows
  <2>5. UNCHANGED <<fence, record>>
    BY DEF Kept
  <2>6. \A i \in DOMAIN pipe'[w] :
          helper'[w] = "serving" /\ pipe'[w][i] # Bye /\ pipe'[w][i].kind = "cas" => By(task'[w][t].rep, w)
    BY <2>4, <1>1, <1>3 DEF Fits
  <2> QED BY <1>1, <1>3, <2>3, <2>5, <2>6
<1>4. CASE v = w /\ s # t
  <2>1. task'[w][s] = task[w][s] /\ UNCHANGED <<helper, fence, record>>
    BY <1>4 DEF Kept
  <2>2. life'[w] = "starting" /\ s = Main /\ life[w] = "starting" /\ task[w][s].at = "acquire"
    BY <1>1, <1>4, <2>1 DEF LifeInv, LifeAt
  <2>3. req = Bye
    BY <2>2, <1>4 DEF LifeInv, LifeAt
  <2>4. \A i \in DOMAIN pipe'[w] : pipe'[w][i] # Bye => i \in DOMAIN pipe[w] /\ pipe'[w][i] = pipe[w][i]
    BY <2>3 DEF Grows
  <2>5. \A i \in DOMAIN out'[w] : \E k \in DOMAIN out[w] : out'[w][i] = out[w][k]
    BY DEF Rest
  <2> DEFINE c == task[w][s]
  <2>6. /\ c.wait = "harden" => By(c.rep, w) /\ (fence = w => record = c.rep)
        /\ \A i \in DOMAIN out[w] : out[w][i].kind = "read" /\ fence = w => record = out[w][i].rec
        /\ \A i \in DOMAIN out[w] : out[w][i].kind = "cas" =>
             By(c.rep, w) /\ (fence = w /\ out[w][i].swapped => record = c.rep)
        /\ \A i \in DOMAIN pipe[w] : helper[w] = "serving" /\ pipe[w][i] # Bye /\ pipe[w][i].kind = "cas" =>
             By(c.rep, w)
    BY <2>2 DEF StartInv, StartAt
  <2>7. /\ c.wait = "harden" => By(c.rep, w) /\ (fence' = w => record' = c.rep)
        /\ \A i \in DOMAIN out'[w] : out'[w][i].kind = "read" /\ fence' = w => record' = out'[w][i].rec
    BY <2>1, <2>5, <2>6
  <2>8. \A i \in DOMAIN out'[w] : out'[w][i].kind = "cas" =>
             By(c.rep, w) /\ (fence' = w /\ out'[w][i].swapped => record' = c.rep)
    BY <2>1, <2>5, <2>6
  <2>9. \A i \in DOMAIN pipe'[w] : helper'[w] = "serving" /\ pipe'[w][i] # Bye /\ pipe'[w][i].kind = "cas" =>
             By(c.rep, w)
    BY <2>1, <2>4, <2>6
  <2> QED BY <1>4, <2>1, <2>7, <2>8, <2>9
<1> QED BY <1>2, <1>3, <1>4

(* A step of a call leaves the others in the order in which they asked.    *)
LEMMA OrderKept ==
  ASSUME OrderInv, LeaseTypeOK, LifeInv, NEW w \in Window, NEW t \in Task, Replied(w, t), Kept(w, t),
         NEW req, Grows(w, req),
         life'[w] = life[w] \/ life'[w] \notin {"writer", "unloading"} \/ life[w] = "starting",
         Asserts(task'[w][t]) =>
           /\ life'[w] = "writer"
           /\ \E j \in DOMAIN pipe'[w] : pipe'[w][j] # Bye /\ pipe'[w][j].t = t
  PROVE  OrderInv'
<1>1. SUFFICES ASSUME NEW v \in Window, fence' = v, life'[v] \in {"writer", "unloading"},
                      NEW s \in Task, Asserts(task'[v][s])
               PROVE  Ahead(v, s)'
  BY DEF OrderInv, OrderAt, Asserts
<1>2. CASE v # w
  <2>1. Ahead(v, s)
    BY <1>1, <1>2 DEF OrderInv, OrderAt, Kept
  <2> QED BY <1>2, <2>1 DEF Ahead, Kept, Bye
<1>3. CASE v = w /\ s = t
  BY <1>1, <1>3 DEF Ahead, Bye
<1>4. CASE v = w /\ s # t
  <2>1. /\ Asserts(task[w][s]) /\ life[w] \in Started /\ life'[w] = life[w] /\ fence = w
    <3>1. task'[w][s] = task[w][s] /\ fence' = fence
      BY <1>4 DEF Kept
    <3>2. Asserts(task[w][s]) /\ life[w] \in Started
      BY <1>1, <1>4, <3>1 DEF LifeInv, LifeAt, Asserts
    <3> QED BY <1>1, <1>4, <3>1, <3>2 DEF Started
  <2>2. Ahead(w, s)
    BY <1>1, <1>4, <2>1 DEF OrderInv, OrderAt
  <2>3. out[w] \in Seq(Answer) /\ pipe[w] \in Seq(Request) /\ out \in [Window -> Seq(Answer)]
    BY DEF LeaseTypeOK
  <2>4. \A i \in DOMAIN out'[w] : \E k \in DOMAIN out[w] : out'[w][i] = out[w][k]
    <3>1. CASE out' = out
      BY <3>1
    <3>2. CASE out[w] # <<>> /\ out' = [out EXCEPT ![w] = Tail(@)]
      BY <2>3, <3>2
    <3> QED BY <3>1, <3>2 DEF Replied
  <2>5. ASSUME NEW j \in DOMAIN out[w], out[w][j].t = s,
               life[w] = "unloading" => \A i \in 1..j : out[w][i].t # Main
        PROVE  \E k \in DOMAIN out'[w] :
                 /\ out'[w][k].t = s
                 /\ life[w] = "unloading" => \A i \in 1..k : out'[w][i].t # Main
    <3>1. CASE out' = out
      BY <2>5, <3>1
    <3>2. CASE out[w] # <<>> /\ Head(out[w]).t = t /\ out' = [out EXCEPT ![w] = Tail(@)]
      <4>1. out'[w] = Tail(out[w]) /\ Head(out[w]) = out[w][1]
        BY <2>3, <3>2
      <4>2. j # 1 /\ j \in 1..Len(out[w])
        BY <1>4, <2>3, <2>5, <3>2, <4>1
      <4>3. j - 1 \in DOMAIN out'[w] /\ out'[w][j - 1] = out[w][j]
        BY <2>3, <4>1, <4>2
      <4>4. \A i \in 1..(j - 1) : i + 1 \in 1..j /\ out'[w][i] = out[w][i + 1]
        BY <2>3, <4>1, <4>2
      <4> QED BY <2>5, <4>3, <4>4
    <3> QED BY <3>1, <3>2 DEF Replied
  <2>6. ASSUME life[w] = "unloading" => \A i \in DOMAIN out[w] : out[w][i].t # Main,
               NEW j \in DOMAIN pipe[w], pipe[w][j] # Bye, pipe[w][j].t = s,
               life[w] = "unloading" => \A i \in 1..j : pipe[w][i] # Bye => pipe[w][i].t # Main
        PROVE  /\ life[w] = "unloading" => \A i \in DOMAIN out'[w] : out'[w][i].t # Main
               /\ \E k \in DOMAIN pipe'[w] :
                    /\ pipe'[w][k] # Bye /\ pipe'[w][k].t = s
                    /\ life[w] = "unloading" => \A i \in 1..k : pipe'[w][i] # Bye => pipe'[w][i].t # Main
    <3>1. j \in DOMAIN pipe'[w] /\ pipe'[w][j] = pipe[w][j]
      BY <2>6 DEF Grows
    <3>2. \A i \in 1..j : i \in DOMAIN pipe[w]
      BY <2>3, <2>6
    <3>3. \A i \in 1..j : pipe'[w][i] = pipe[w][i]
      BY <3>2 DEF Grows
    <3> QED BY <2>4, <2>6, <3>1, <3>3
  <2> QED BY <1>4, <2>1, <2>2, <2>5, <2>6 DEF Ahead, Bye
<1> QED BY <1>2, <1>3, <1>4

(* What a step of a call must tell for the record to stay the window's.    *)
LEMMA RecordKept ==
  ASSUME RecordInv, LeaseTypeOK, LeaseTypeOK', NEW w \in Window, NEW t \in Task, Kept(w, t), NEW req, Grows(w, req),
         fence = w =>
           \/ /\ Needed(w) /\ leaseId'[w] \in {leaseId[w], 0}
              /\ req.kind = "cas" => Keeps(req, w)
           \/ /\ ~Needed(w)' /\ req.kind # "data" /\ leaseId'[w] \in {leaseId[w], 0}
           \/ /\ By(record, w) /\ record.lease = leaseId'[w]
              /\ \A i \in DOMAIN pipe'[w] : pipe'[w][i].kind # "cas"
  PROVE  RecordInv'
<1>1. SUFFICES ASSUME NEW v \in Window, fence' = v, Needed(v)' \/ DataWaits(v)'
               PROVE  /\ By(record', v) /\ (leaseId'[v] # 0 => record'.lease = leaseId'[v])
                      /\ \A i \in DOMAIN pipe'[v] : pipe'[v][i].kind = "cas" =>
                           \/ Keeps(pipe'[v][i], v)
                           \/ ~Needed(v)' /\ \A j \in DOMAIN pipe'[v] : pipe'[v][j].kind = "data" => j < i
  BY DEF RecordInv, RecordAt, By, Keeps
<1>2. CASE v # w
  <2>1. /\ life'[v] = life[v] /\ leaseId'[v] = leaseId[v] /\ pipe'[v] = pipe[v] /\ task'[v] = task[v]
        /\ UNCHANGED <<fence, record>>
    BY <1>2 DEF Kept
  <2>2. (Needed(v)' <=> Needed(v)) /\ (DataWaits(v)' <=> DataWaits(v))
    BY <2>1 DEF Needed, DataWaits, Asserts
  <2> QED BY <1>1, <2>1, <2>2 DEF RecordInv, RecordAt
<1>3. CASE v = w
  <2>1. fence = w /\ record' = record /\ fence' = fence
    BY <1>1, <1>3 DEF Kept
  <2>2. CASE /\ Needed(w) /\ leaseId'[w] \in {leaseId[w], 0}
             /\ req.kind = "cas" => Keeps(req, w)
    <3>1. /\ By(record, w) /\ (leaseId[w] # 0 => record.lease = leaseId[w])
          /\ \A i \in DOMAIN pipe[w] : pipe[w][i].kind = "cas" => Keeps(pipe[w][i], w)
      BY <2>1, <2>2 DEF RecordInv, RecordAt
    <3> QED BY <1>3, <2>1, <2>2, <3>1 DEF Grows
  <2>3. CASE ~Needed(w)' /\ req.kind # "data" /\ leaseId'[w] \in {leaseId[w], 0}
    <3>1. \A i \in DOMAIN pipe'[w] : pipe'[w][i].kind = "data" =>
            i \in DOMAIN pipe[w] /\ pipe'[w][i] = pipe[w][i]
      BY <2>3 DEF Grows
    <3>2. DataWaits(w)
      BY <1>1, <1>3, <2>3, <3>1 DEF DataWaits
    <3>3. /\ By(record, w) /\ (leaseId[w] # 0 => record.lease = leaseId[w])
          /\ \A i \in DOMAIN pipe[w] : pipe[w][i].kind = "cas" =>
               Keeps(pipe[w][i], w) \/ \A j \in DOMAIN pipe[w] : pipe[w][j].kind = "data" => j < i
      BY <2>1, <3>2 DEF RecordInv, RecordAt
    <3>4. ASSUME NEW i \in DOMAIN pipe'[w], pipe'[w][i].kind = "cas"
          PROVE  Keeps(pipe'[w][i], w) \/ \A j \in DOMAIN pipe'[w] : pipe'[w][j].kind = "data" => j < i
      <4>1. CASE i \in DOMAIN pipe[w]
        <5>1. pipe'[w][i] = pipe[w][i]
          BY <4>1 DEF Grows
        <5> QED BY <3>1, <3>3, <3>4, <4>1, <5>1
      <4>2. CASE i \notin DOMAIN pipe[w]
        <5>1. pipe[w] \in Seq(Request) /\ pipe'[w] \in Seq(Request)
          BY DEF LeaseTypeOK
        <5>2. \A j \in DOMAIN pipe[w] : j < i
          BY <4>2, <5>1
        <5> QED BY <3>1, <5>2
      <4> QED BY <4>1, <4>2
    <3> QED BY <1>3, <2>1, <2>3, <3>3, <3>4
  <2>4. CASE /\ By(record, w) /\ record.lease = leaseId'[w]
             /\ \A i \in DOMAIN pipe'[w] : pipe'[w][i].kind # "cas"
    BY <1>3, <2>1, <2>4
  <2> QED BY <2>1, <2>2, <2>3, <2>4
<1> QED BY <1>2, <1>3

(* Moved, with what stays as one formula.                                  *)
LEMMA MovedKept ==
  ASSUME LeaseTypeOK, NEW w \in Window, NEW t \in Task, NEW c \in Call, NEW p \in Lives, NEW l \in Nat,
         NEW q \in Seq(Request), Moves(w, t, c, p, l, q), Replied(w, t)
  PROVE  /\ LeaseTypeOK' /\ Kept(w, t) /\ UNCHANGED <<helper, fence>>
         /\ task'[w][t] = c /\ life'[w] = p /\ leaseId'[w] = l /\ pipe'[w] = q
<1>1. UNCHANGED <<helper, fence, record, data>>
  BY DEF Moves, Others
<1>2. /\ LeaseTypeOK'
      /\ task'[w][t] = c /\ life'[w] = p /\ leaseId'[w] = l /\ pipe'[w] = q
      /\ \A s \in Task \ {t} : task'[w][s] = task[w][s]
      /\ \A v \in Window \ {w} :
           /\ task'[v] = task[v] /\ life'[v] = life[v] /\ leaseId'[v] = leaseId[v]
           /\ pipe'[v] = pipe[v] /\ out'[v] = out[v] /\ lockHeld'[v] = lockHeld[v]
      /\ lockHeld'[w] => lockHeld[w]
  BY Moved
<1> QED BY <1>1, <1>2 DEF Kept

(* Types of what the steps of calls are made of.                           *)
LEMMA Known ==
  ASSUME LeaseTypeOK, NEW w \in Window
  PROVE  /\ life[w] \in Lives /\ leaseId[w] \in Nat /\ 0 \in Nat /\ pipe[w] \in Seq(Request)
         /\ Idle \in Call /\ Bye \in Request
         /\ \A req \in Request : Append(pipe[w], req) \in Seq(Request)
         /\ \A t \in Task : task[w][t] \in Call
<1>1. pipe[w] \in Seq(Request) /\ Bye \in Request
  BY DEF LeaseTypeOK, Request
<1> QED BY <1>1, Calls, AppendIs DEF LeaseTypeOK, Lives

(* The invariant under a call that ends.                                   *)
LEMMA EndsKeeps ==
  ASSUME LeaseInv, NEW w \in Window, NEW t \in Task, life[w] \notin {"new", "readOnly", "gone"},
         Replied(w, t), Ends(w, t)
  PROVE  LeaseInv'
<1> USE DEF LeaseInv
<1>1. PICK p \in Lives, l \in {leaseId[w], 0}, q \in {pipe[w], Append(pipe[w], Bye)} :
        /\ Moves(w, t, Idle, p, l, q)
        /\ p = CASE task[w][t].at = "acquire" -> "failed"
                 [] task[w][t].at = "release" -> "unloaded"
                 [] OTHER -> life[w]
        /\ task[w][t].at = "release" => ~lockHeld'[w]
  BY DEF Ends
<1>2. l \in Nat /\ q \in Seq(Request) /\ Idle \in Call /\ Bye \in Request
  BY Known
<1>3. /\ LeaseTypeOK' /\ Kept(w, t) /\ UNCHANGED <<helper, fence>>
      /\ task'[w][t] = Idle /\ life'[w] = p /\ leaseId'[w] = l /\ pipe'[w] = q
  BY <1>1, <1>2, MovedKept
<1>4. Rest(w, t)
  BY Taken
<1>5. Grows(w, Bye)
  BY <1>2, <1>3, GrowsBy
<1>6. Idle.at = "idle" /\ Idle.then = "done" /\ Idle.wait = "no" /\ Bye.kind = "bye"
  BY DEF Idle, Bye
<1>7. /\ task[w][t].at = "acquire" => life[w] = "starting"
      /\ task[w][t].at = "release" => life[w] = "unloading"
      /\ life[w] # "writer" => leaseId[w] = 0
      /\ life[w] = "unloaded" => ~lockHeld[w]
  BY DEF LifeInv, LifeAt
<1>8. \/ p = life[w]
      \/ task[w][t].at = "acquire" /\ p = "failed"
      \/ task[w][t].at = "release" /\ p = "unloaded"
  BY <1>1
<1>9. LifeInv'
  <2>1. p = "unloaded" => ~lockHeld'[w]
    BY <1>1, <1>3, <1>7, <1>8 DEF Kept
  <2> QED BY <1>3, <1>6, <1>7, <1>8, <2>1, LifeKept
<1>10. NewInv'
  BY <1>3, <1>8, NewKept
<1>11. PipeInv' /\ OutInv' /\ LockInv'
  BY <1>3, <1>4, <1>5, PipeKept, OutKept, LockKept
<1>12. StartInv'
  BY <1>3, <1>4, <1>5, <1>6, <1>7, <1>8, <1>9, StartKept
<1>13. OrderInv'
  <2>1. ~Asserts(task'[w][t])
    BY <1>3, <1>6 DEF Asserts
  <2> QED BY <1>3, <1>5, <1>7, <1>8, <2>1, OrderKept
<1>14. RecordInv'
  <2>1. ~Needed(w) => ~Needed(w)'
    <3>1. \A s \in Task : Asserts(task'[w][s]) => Asserts(task[w][s])
      BY <1>3, <1>6 DEF Kept, Asserts
    <3> QED BY <1>3, <1>7, <1>8, <3>1 DEF Needed, Asserts
  <2> QED BY <1>3, <1>5, <1>6, <2>1, RecordKept
<1> QED BY <1>3, <1>9, <1>10, <1>11, <1>12, <1>13, <1>14

(* The invariant under a call that sends.                                  *)
LEMMA SendsKeeps ==
  ASSUME LeaseInv, NEW w \in Window, NEW t \in Task, life[w] \notin {"new", "readOnly", "gone"},
         Replied(w, t), Sends(w, t)
  PROVE  LeaseInv'
<1> USE DEF LeaseInv
<1>1. PICK c \in Call, req \in Request :
        /\ Moves(w, t, c, life[w], leaseId[w], Append(pipe[w], req))
        /\ req # Bye /\ req.t = t /\ Fits(req, c)
        /\ c.at = "swap" \/ c.then # "done" => life[w] \in Started
        /\ c.at = "own" => c.then # "done" /\ life[w] = "writer"
        /\ c.at \in {"own", "renew"} => c.lease # 0
        /\ c.then = "renew" => c.at = "own"
        /\ c.at \in {"acquire", "release"} => task[w][t].at = c.at
        /\ life[w] = "starting" => c.at = "acquire"
        /\ life[w] \notin {"new", "readOnly", "gone"}
        /\ req.kind = "cas" /\ c.at = "acquire" => By(req.new, w)
        /\ req.kind = "cas" /\ c.at = "renew" => Keeps(req, w)
        /\ req.kind = "cas" => task[w][t].wait = "answer"
        /\ req.kind = "data" => Asserts(task[w][t]) /\ lockHeld[w]
  BY DEF Sends
<1>2. life[w] \in Lives /\ leaseId[w] \in Nat /\ Append(pipe[w], req) \in Seq(Request)
  BY Known
<1>3. /\ LeaseTypeOK' /\ Kept(w, t) /\ UNCHANGED <<helper, fence>>
      /\ task'[w][t] = c /\ life'[w] = life[w] /\ leaseId'[w] = leaseId[w]
      /\ pipe'[w] = Append(pipe[w], req)
  <2> DEFINE q == Append(pipe[w], req)
  <2>1. q \in Seq(Request) /\ Moves(w, t, c, life[w], leaseId[w], q)
    BY <1>1, <1>2
  <2> HIDE DEF q
  <2>2. /\ LeaseTypeOK' /\ Kept(w, t) /\ UNCHANGED <<helper, fence>>
        /\ task'[w][t] = c /\ life'[w] = life[w] /\ leaseId'[w] = leaseId[w]
        /\ pipe'[w] = q
    BY <2>1, <1>2, MovedKept
  <2> QED BY <2>2 DEF q
<1>4. Rest(w, t)
  BY Taken
<1>5. Grows(w, req)
  BY <1>3, GrowsBy
<1>6. /\ c.wait = "answer" /\ req.kind \in {"read", "cas", "data"}
      /\ req.kind \in {"read", "cas"} => c.at \in {"acquire", "renew", "release", "own"}
      /\ req.kind = "cas" => c.at # "own"
      /\ req.kind = "data" => c.at = "swap"
  BY <1>1 DEF Fits, Request
<1>7. /\ task[w][t].at = "acquire" => t = Main /\ life[w] = "starting"
      /\ task[w][t].at = "release" => t = Main /\ life[w] = "unloading"
      /\ life[w] # "writer" => leaseId[w] = 0
      /\ life[w] = "unloaded" => ~lockHeld[w]
      /\ Asserts(task[w][t]) => life[w] \in Started
  BY DEF LifeInv, LifeAt, Asserts
<1>8. life[w] = "writer" => life[w] \in Started
  BY DEF Started
<1>9. LifeInv'
  <2>1. life'[w] = "unloaded" => ~lockHeld'[w]
    BY <1>3, <1>7 DEF Kept
  <2> QED BY <1>1, <1>3, <1>6, <1>7, <1>8, <2>1, LifeKept
<1>10. NewInv'
  BY <1>3, NewKept
<1>11. PipeInv' /\ OutInv' /\ LockInv'
  BY <1>1, <1>3, <1>4, <1>5, PipeKept, OutKept, LockKept
<1>12. StartInv'
  BY <1>1, <1>3, <1>4, <1>5, <1>6, <1>7, <1>9, StartKept
<1>13. OrderInv'
  <2>1. Asserts(c) => life[w] = "writer"
    BY <1>1 DEF Asserts
  <2>2. \E j \in DOMAIN pipe'[w] : pipe'[w][j] # Bye /\ pipe'[w][j].t = t
    <3>1. pipe[w] \in Seq(Request)
      BY DEF LeaseTypeOK
    <3>2. Len(pipe[w]) + 1 \in DOMAIN pipe'[w] /\ pipe'[w][Len(pipe[w]) + 1] = req
      BY <1>3, <3>1
    <3> QED BY <1>1, <3>2
  <2> QED BY <1>3, <1>5, <2>1, <2>2, OrderKept
<1>14. RecordInv'
  <2>1. ~Needed(w) => ~Needed(w)'
    <3>1. ASSUME life[w] = "unloading", NEW s \in Task, Asserts(task'[w][s])
          PROVE  Asserts(task[w][s])
      BY <3>1, <1>1, <1>3 DEF Kept, Asserts
    <3> QED BY <1>3, <3>1 DEF Needed, Asserts
  <2>2. req.kind = "data" => Needed(w)
    BY <1>1, <1>7 DEF Needed, Started
  <2>3. ASSUME fence = w, req.kind = "cas", c.at = "release" PROVE ~Needed(w)'
    <3>1. /\ life[w] = "unloading" /\ t = Main /\ task[w][t].wait = "answer"
          /\ \A s \in Task : Asserts(task[w][s]) => Ahead(w, s)
      BY <2>3, <1>1, <1>7 DEF OrderInv, OrderAt
    <3>2. out[w] \in Seq(Answer) /\ out[w] # <<>> /\ Head(out[w]).t = Main
      BY <3>1 DEF Replied, LeaseTypeOK
    <3>3. 1 \in DOMAIN out[w] /\ out[w][1].t = Main /\ \A j \in DOMAIN out[w] : 1 \in 1..j
      BY <3>2
    <3>4. \A s \in Task : ~Ahead(w, s)
      BY <3>1, <3>3 DEF Ahead
    <3>5. \A s \in Task : ~Asserts(task'[w][s])
      BY <2>3, <1>3, <3>1, <3>4 DEF Kept, Asserts
    <3> QED BY <1>3, <3>1, <3>5 DEF Needed, Asserts
  <2>4. req.kind = "cas" /\ c.at = "acquire" => ~Needed(w)'
    <3>1. c.at = "acquire" => life'[w] = "starting"
      BY <1>1, <1>3, <1>7
    <3> QED BY <3>1 DEF Needed
  <2>5. req.kind = "cas" => c.at \in {"acquire", "renew", "release"}
    BY <1>6
  <2>6. CASE req.kind = "cas" /\ c.at \in {"acquire", "release"}
    BY <1>3, <1>5, <2>3, <2>4, <2>6, RecordKept
  <2>7. CASE req.kind = "cas" => c.at = "renew"
    BY <1>1, <1>3, <1>5, <2>1, <2>2, <2>7, RecordKept
  <2> QED BY <2>5, <2>6, <2>7
<1> QED BY <1>3, <1>9, <1>10, <1>11, <1>12, <1>13, <1>14

(* The invariant under a call that has won its swap.                       *)
LEMMA HardensKeeps ==
  ASSUME LeaseInv, NEW w \in Window, NEW t \in Task, life[w] \notin {"new", "readOnly", "gone"},
         Replied(w, t), Hardens(w, t)
  PROVE  LeaseInv'
<1> USE DEF LeaseInv
<1> DEFINE b == task[w][t]
           c == [b EXCEPT !.wait = "harden"]
<1>1. /\ Moves(w, t, c, life[w], leaseId[w], pipe[w])
      /\ b.at \in {"acquire", "renew", "release"}
      /\ b.at = "acquire" => By(b.rep, w) /\ (fence = w => record = b.rep)
  BY DEF Hardens
<1>2. life[w] \in Lives /\ leaseId[w] \in Nat /\ pipe[w] \in Seq(Request) /\ b \in Call /\ Bye \in Request
  BY Known
<1>3. c \in Call /\ c.at = b.at /\ c.then = b.then /\ c.rep = b.rep /\ c.wait = "harden"
      /\ c.lease = b.lease
  BY <1>2, SwapFields DEF Call
<1> HIDE DEF c
<1>4. /\ LeaseTypeOK' /\ Kept(w, t) /\ UNCHANGED <<helper, fence>>
      /\ task'[w][t] = c /\ life'[w] = life[w] /\ leaseId'[w] = leaseId[w]
      /\ pipe'[w] = pipe[w]
  BY <1>1, <1>2, <1>3, MovedKept
<1>5. Rest(w, t)
  BY Taken
<1>6. Grows(w, Bye) /\ Bye.kind = "bye"
  BY <1>2, <1>4, GrowsBy DEF Bye
<1>7. /\ b.at = "acquire" => t = Main /\ life[w] = "starting"
      /\ b.at = "release" => t = Main /\ life[w] = "unloading"
      /\ b.then # "done" => life[w] \in Started
      /\ b.at = "renew" => b.lease # 0
      /\ b.then = "renew" => b.at = "own"
      /\ life[w] = "starting" => b.at = "acquire" \/ b = Idle
      /\ life[w] # "writer" => leaseId[w] = 0
      /\ life[w] = "unloaded" => ~lockHeld[w]
  BY DEF LifeInv, LifeAt
<1>8. b # Idle
  BY <1>1 DEF Idle
<1>9. LifeInv'
  <2>1. life'[w] = "unloaded" => ~lockHeld'[w]
    BY <1>4, <1>7 DEF Kept
  <2> QED BY <1>1, <1>3, <1>4, <1>7, <1>8, <2>1, LifeKept
<1>10. NewInv'
  BY <1>4, NewKept
<1>11. PipeInv' /\ OutInv' /\ LockInv'
  BY <1>4, <1>5, <1>6, PipeKept, OutKept, LockKept
<1>12. StartInv'
  BY <1>1, <1>3, <1>4, <1>5, <1>6, <1>7, <1>9, StartKept
<1>13. OrderInv'
  <2>1. ~Asserts(task'[w][t])
    BY <1>1, <1>3, <1>4 DEF Asserts
  <2> QED BY <1>4, <1>6, <2>1, OrderKept
<1>14. RecordInv'
  <2>1. ~Needed(w) => ~Needed(w)'
    <3>1. \A s \in Task : Asserts(task'[w][s]) => Asserts(task[w][s])
      BY <1>1, <1>3, <1>4 DEF Kept, Asserts
    <3> QED BY <1>4, <3>1 DEF Needed, Asserts
  <2> QED BY <1>4, <1>6, <2>1, RecordKept
<1> QED BY <1>4, <1>9, <1>10, <1>11, <1>12, <1>13, <1>14

(* The invariant under a call that has the lease.                          *)
LEMMA AcquiresKeeps ==
  ASSUME LeaseInv, NEW w \in Window, NEW t \in Task, life[w] \notin {"new", "readOnly", "gone"},
         Replied(w, t), Acquires(w, t)
  PROVE  LeaseInv'
<1> USE DEF LeaseInv
<1>1. PICK rec \in LeaseRecord :
        /\ Moves(w, t, Idle, "writer", rec.lease, pipe[w])
        /\ task[w][t].at = "acquire"
        /\ By(rec, w) /\ (fence = w => record = rec)
  BY DEF Acquires
<1>2. "writer" \in Lives /\ rec.lease \in Nat /\ pipe[w] \in Seq(Request) /\ Idle \in Call /\ Bye \in Request
  BY <1>1, Known DEF LeaseRecord, By, Released, Lives
<1>3. /\ LeaseTypeOK' /\ Kept(w, t) /\ UNCHANGED <<helper, fence>>
      /\ task'[w][t] = Idle /\ life'[w] = "writer" /\ leaseId'[w] = rec.lease /\ pipe'[w] = pipe[w]
  BY <1>1, <1>2, MovedKept
<1>4. Rest(w, t)
  BY Taken
<1>5. Grows(w, Bye) /\ Bye.kind = "bye"
  BY <1>2, <1>3, GrowsBy DEF Bye
<1>6. Idle.at = "idle" /\ Idle.then = "done" /\ Idle.wait = "no"
  BY DEF Idle
<1>7. t = Main /\ life[w] = "starting" /\ \A s \in Task \ {t} : task[w][s] = Idle
  BY <1>1 DEF LifeInv, LifeAt
<1>9. LifeInv'
  BY <1>1, <1>3, <1>6, LifeKept
<1>10. NewInv'
  BY <1>3, NewKept
<1>11. PipeInv' /\ OutInv' /\ LockInv'
  BY <1>3, <1>4, <1>5, PipeKept, OutKept, LockKept
<1>12. StartInv'
  BY <1>3, <1>4, <1>5, <1>6, <1>7, <1>9, StartKept
<1>13. OrderInv'
  <2>1. ~Asserts(task'[w][t])
    BY <1>3, <1>6 DEF Asserts
  <2> QED BY <1>3, <1>5, <1>7, <2>1, OrderKept
<1>14. ASSUME fence = w, NEW i \in DOMAIN pipe'[w], pipe'[w][i].kind = "cas"
       PROVE  FALSE
  <2>1. helper[w] = "serving" /\ pipe'[w][i] = pipe[w][i] /\ i \in DOMAIN pipe[w] /\ pipe[w][i] # Bye
    BY <1>14, <1>3, <1>5 DEF LockInv, LockAt
  <2>2. pipe[w][i].t \in Task
    BY <2>1 DEF LeaseTypeOK, Request
  <2>3. pipe[w][i].t # t /\ Fits(pipe[w][i], task[w][pipe[w][i].t])
    BY <2>1, <1>4 DEF Rest, PipeInv, PipeAt
  <2> QED BY <2>2, <2>3, <1>6, <1>7 DEF Fits
<1>15. RecordInv'
  BY <1>1, <1>3, <1>5, <1>14, RecordKept
<1> QED BY <1>3, <1>9, <1>10, <1>11, <1>12, <1>13, <1>15

(* The invariant under every step of a call.                               *)
LEMMA ContinuesKeeps ==
  ASSUME LeaseInv, NEW w \in Window, NEW t \in Task, life[w] \notin {"new", "readOnly", "gone"},
         Replied(w, t), Continues(w, t)
  PROVE  LeaseInv'
BY EndsKeeps, SendsKeeps, HardensKeeps, AcquiresKeeps DEF Continues

(***************************************************************************)
(* The other steps, and the theorems.                                      *)
(***************************************************************************)
(* The invariant of one window.                                            *)
At(w) ==
  /\ LockAt(w) /\ NewAt(w) /\ LifeAt(w) /\ PipeAt(w) /\ OutAt(w) /\ StartAt(w)
  /\ OrderAt(w) /\ RecordAt(w)

(* The invariant window by window.                                         *)
LEMMA Parts == LeaseInv <=> LeaseTypeOK /\ \A w \in Window : At(w)
BY DEF LeaseInv, At, LockInv, NewInv, LifeInv, PipeInv, OutInv, StartInv, OrderInv, RecordInv

(* Nothing of the window v moves, and the files only under a helper of     *)
(* another window.                                                         *)
Aside(v) ==
  /\ life'[v] = life[v] /\ leaseId'[v] = leaseId[v] /\ helper'[v] = helper[v]
  /\ pipe'[v] = pipe[v] /\ out'[v] = out[v] /\ task'[v] = task[v]
  /\ lockHeld'[v] = lockHeld[v]
  /\ (fence' = v) <=> (fence = v)
  /\ fence = v => record' = record

(* A window that is aside keeps its part.                                  *)
LEMMA Elsewhere ==
  ASSUME NEW v \in Window, At(v), Aside(v)
  PROVE  At(v)'
<1>1. LockAt(v)' /\ NewAt(v)' /\ LifeAt(v)'
  BY DEF At, Aside, LockAt, NewAt, LifeAt, Idle, Started
<1>2. PipeAt(v)' /\ OutAt(v)'
  BY DEF At, Aside, PipeAt, OutAt, Fits, FitsBack
<1>3. StartAt(v)'
  BY DEF At, Aside, StartAt, By
<1>4. OrderAt(v)'
  BY DEF At, Aside, OrderAt, Asserts, Ahead, Bye
<1>5. RecordAt(v)'
  BY DEF At, Aside, RecordAt, DataWaits, Needed, Asserts, By, Keeps
<1> QED BY <1>1, <1>2, <1>3, <1>4, <1>5 DEF At

(* So a step of one window is about that window only.                      *)
LEMMA OneWindow ==
  ASSUME LeaseInv, LeaseTypeOK', NEW w \in Window, At(w)', \A v \in Window \ {w} : Aside(v)
  PROVE  LeaseInv'
<1>1. \A v \in Window : At(v)
  BY Parts
<1>2. \A v \in Window \ {w} : At(v)'
  BY <1>1, Elsewhere
<1>3. \A v \in Window : At(v)'
  BY <1>2
<1> QED BY <1>3 DEF LeaseInv, At, LockInv, NewInv, LifeInv, PipeInv, OutInv, StartInv, OrderInv, RecordInv

(* It holds initially.                                                     *)
LEMMA InitInv == LeaseInit => LeaseInv
<1> SUFFICES ASSUME LeaseInit PROVE LeaseInv
  OBVIOUS
<1>1. LeaseTypeOK
  BY Calls, LeaseAssumption DEF LeaseInit, LeaseTypeOK
<1>2. ASSUME NEW w \in Window PROVE At(w)
  <2>1. LockAt(w) /\ NewAt(w) /\ LifeAt(w)
    BY LeaseAssumption DEF LeaseInit, LockAt, NewAt, LifeAt, Idle
  <2>2. PipeAt(w) /\ OutAt(w) /\ StartAt(w)
    BY LeaseAssumption DEF LeaseInit, PipeAt, OutAt, StartAt, Idle
  <2>3. OrderAt(w) /\ RecordAt(w)
    BY DEF LeaseInit, OrderAt, RecordAt, DataWaits, Needed
  <2> QED BY <2>1, <2>2, <2>3 DEF At
<1> QED BY <1>1, <1>2, Parts

(* The clock.                                                              *)
LEMMA TickKeeps ==
  ASSUME LeaseInv, Tick
  PROVE  LeaseInv'
<1>1. LeaseTypeOK'
  BY LeaseAssumption DEF LeaseInv, Tick, LeaseTypeOK, winvars, fencevars, filevars
<1>2. \A v \in Window : Aside(v)
  BY DEF Tick, Aside, winvars, fencevars, filevars
<1>3. \A v \in Window : At(v)'
  BY <1>2, Parts, Elsewhere
<1> QED BY <1>1, <1>3 DEF LeaseInv, At, LockInv, NewInv, LifeInv, PipeInv, OutInv, StartInv, OrderInv, RecordInv

(* A window that dies: the protected writes it left stay under its record. *)
LEMMA WindowDiesKeeps ==
  ASSUME LeaseInv, NEW w \in Window, WindowDies(w)
  PROVE  LeaseInv'
<1>0. At(w) /\ LeaseTypeOK
  BY Parts
<1>1. LeaseTypeOK'
  BY <1>0, Calls DEF WindowDies, LeaseTypeOK, filevars
<1>2. \A v \in Window \ {w} : Aside(v)
  BY <1>0 DEF WindowDies, Aside, LeaseTypeOK, filevars
<1>3. /\ life'[w] = "gone" /\ leaseId'[w] = 0 /\ out'[w] = <<>>
      /\ \A t \in Task : task'[w][t] = Idle
      /\ UNCHANGED <<helper, fence, pipe, record>>
  BY <1>0 DEF WindowDies, LeaseTypeOK, filevars
<1>4. Idle.at = "idle" /\ Idle.wait = "no" /\ Idle.then = "done"
  BY DEF Idle
<1>5. LockAt(w)' /\ NewAt(w)'
  BY <1>0, <1>3 DEF At, LockAt, NewAt
<1>6. LifeAt(w)'
  BY <1>3, <1>4 DEF LifeAt
<1>7. PipeAt(w)' /\ OutAt(w)' /\ OrderAt(w)'
  BY <1>3 DEF PipeAt, OutAt, OrderAt
<1>8. StartAt(w)'
  BY <1>3, <1>4 DEF StartAt
<1>9. RecordAt(w)'
  BY <1>0, <1>3 DEF At, RecordAt, DataWaits, Needed, By, Keeps
<1>10. At(w)'
  BY <1>5, <1>6, <1>7, <1>8, <1>9 DEF At
<1> QED BY <1>1, <1>2, <1>10, OneWindow

(* The close event: every waiting call ends.                               *)
LEMMA ClosedKeeps ==
  ASSUME LeaseInv, NEW w \in Window, Closed(w)
  PROVE  LeaseInv'
<1> DEFINE waiting == {t \in Task : task[w][t].wait = "answer"}
           startup == \E t \in waiting : task[w][t].at = "acquire"
           unload == \E t \in waiting : task[w][t].at = "release"
<1>0. At(w) /\ LeaseTypeOK /\ Idle \in Call
  BY Parts, Calls
<1>1. /\ life[w] # "gone" /\ helper[w] = "dead" /\ out[w] = <<>>
      /\ helper' = [helper EXCEPT ![w] = "off"]
      /\ lockHeld' = [lockHeld EXCEPT ![w] = FALSE]
      /\ leaseId' = [leaseId EXCEPT ![w] = 0] \/ leaseId' = leaseId
      /\ life' = [life EXCEPT ![w] = IF startup THEN "failed" ELSE IF unload THEN "unloaded" ELSE @]
      /\ task' = [task EXCEPT ![w] = [t \in Task |-> IF t \in waiting THEN Idle ELSE @[t]]]
      /\ UNCHANGED <<fence, pipe, out, deaths, record, data, now, minted>>
  BY DEF Closed, filevars
<1> HIDE DEF startup, unload
<1>2. [t \in Task |-> IF t \in waiting THEN Idle ELSE task[w][t]] \in [Task -> Call]
  BY <1>0 DEF LeaseTypeOK
<1>3. /\ task' \in [Window -> [Task -> Call]]
      /\ life' \in [Window -> Lives] /\ leaseId' \in [Window -> Nat]
  <2> DEFINE left == [t \in Task |-> IF t \in waiting THEN Idle ELSE task[w][t]]
             p == IF startup THEN "failed" ELSE IF unload THEN "unloaded" ELSE life[w]
  <2>1. left \in [Task -> Call] /\ task' = [task EXCEPT ![w] = left]
    BY <1>1, <1>2
  <2>2. p \in Lives /\ life' = [life EXCEPT ![w] = p]
    BY <1>0, <1>1 DEF LeaseTypeOK, Lives
  <2> HIDE DEF left, p
  <2>3. task' \in [Window -> [Task -> Call]]
    BY <1>0, <2>1 DEF LeaseTypeOK
  <2>4. life' \in [Window -> Lives]
    BY <1>0, <2>2 DEF LeaseTypeOK, Lives
  <2>5. leaseId' \in [Window -> Nat]
    <3>1. leaseId \in [Window -> Nat]
      BY <1>0 DEF LeaseTypeOK
    <3>2. leaseId' = [leaseId EXCEPT ![w] = 0] \/ leaseId' = leaseId
      BY <1>1
    <3> QED BY <3>1, <3>2
  <2> QED BY <2>3, <2>4, <2>5
<1>4. LeaseTypeOK'
  BY <1>0, <1>1, <1>3 DEF LeaseTypeOK, Lives
<1>5. \A v \in Window \ {w} : Aside(v)
  BY <1>0, <1>1 DEF Aside, LeaseTypeOK
<1>6. /\ helper'[w] = "off" /\ leaseId'[w] \in {leaseId[w], 0} /\ out'[w] = <<>> /\ ~lockHeld'[w]
      /\ life'[w] = (IF startup THEN "failed" ELSE IF unload THEN "unloaded" ELSE life[w])
      /\ \A t \in Task : task'[w][t] = IF t \in waiting THEN Idle ELSE task[w][t]
  BY <1>0, <1>1 DEF LeaseTypeOK
<1>7. Idle.at = "idle" /\ Idle.wait = "no" /\ Idle.then = "done"
  BY DEF Idle
<1>8. fence # w
  BY <1>0, <1>1 DEF At, LockAt
<1>9. /\ startup => life[w] = "starting" /\ \A t \in Task : task'[w][t] = Idle
      /\ unload => life[w] = "unloading" /\ \A t \in Task : task'[w][t].at \notin {"acquire", "release"}
  BY <1>0, <1>6, <1>7 DEF At, LifeAt, startup, unload
<1>10. LockAt(w)' /\ NewAt(w)'
  BY <1>0, <1>1, <1>6, <1>7, <1>8 DEF At, LockAt, NewAt
<1>11. LifeAt(w)'
  <2>1. (life'[w] # "writer" => leaseId'[w] = 0) /\ ~lockHeld'[w]
    BY <1>0, <1>6, <1>9 DEF At, LifeAt
  <2>2. ASSUME NEW t \in Task
        PROVE  LET c == task'[w][t] IN
               /\ c.at = "acquire" => t = Main /\ life'[w] = "starting"
               /\ c.at = "release" => t = Main /\ life'[w] = "unloading"
               /\ c.at \in {"own", "swap"} \/ c.then # "done" => life'[w] \in Started
               /\ c.at \in {"own", "renew"} => c.lease # 0
               /\ c.at = "own" => c.then # "done"
               /\ c.then = "renew" => c.at = "own"
               /\ life'[w] = "starting" => c.at = "acquire" \/ c = Idle
               /\ c.wait # "no" => c.at # "idle"
               /\ c.wait = "harden" => c.at \in {"acquire", "renew", "release"}
    <3>1. CASE t \in waiting
      BY <1>6, <1>7, <3>1
    <3>2. CASE t \notin waiting /\ ~startup
      BY <1>0, <1>6, <1>9, <3>2 DEF At, LifeAt, Started
    <3>3. CASE startup
      BY <1>6, <1>7, <1>9, <3>3
    <3> QED BY <3>1, <3>2, <3>3
  <2> QED BY <2>1, <2>2 DEF LifeAt
<1>12. PipeAt(w)' /\ OutAt(w)' /\ OrderAt(w)' /\ RecordAt(w)'
  BY <1>1, <1>6, <1>8 DEF PipeAt, OutAt, OrderAt, RecordAt
<1>13. StartAt(w)'
  BY <1>0, <1>1, <1>6, <1>7, <1>8 DEF At, StartAt, By
<1>14. At(w)'
  BY <1>10, <1>11, <1>12, <1>13 DEF At
<1> QED BY <1>4, <1>5, <1>14, OneWindow

(* An answer suits whoever the request suits.                              *)
LEMMA AnswerFits ==
  ASSUME LeaseTypeOK, NEW req \in Request, req # Bye
  PROVE  /\ AnswerTo(req) \in Answer /\ AnswerTo(req).t = req.t /\ req.t \in Task
         /\ AnswerTo(req).kind = "read" => req.kind = "read" /\ AnswerTo(req).rec = record
         /\ AnswerTo(req).kind = "cas" =>
              req.kind \in {"cas", "data"} /\ AnswerTo(req).swapped = Matches(req)
         /\ \A c : Fits(req, c) => FitsBack(AnswerTo(req), c)
<1>1. req.kind \in {"read", "cas", "data"} /\ req.t \in Task
  BY DEF Request
<1>2. Matches(req) \in BOOLEAN
  BY <1>1 DEF Matches
<1>3. record \in LeaseRecord
  BY DEF LeaseTypeOK
<1>4. CASE req.kind = "read"
  BY <1>1, <1>3, <1>4 DEF AnswerTo, Answer, Fits, FitsBack
<1>5. CASE req.kind \in {"cas", "data"}
  BY <1>1, <1>2, <1>5 DEF AnswerTo, Answer, Fits, FitsBack
<1> QED BY <1>1, <1>4, <1>5

(* What serving a request may do to the files.                             *)
LEMMA EffectIs ==
  ASSUME LeaseTypeOK, NEW w \in Window, NEW req \in Request, req # Bye, Effect(w, req)
  PROVE  /\ record' \in LeaseRecord /\ data' \in [by : Window \cup {NoWindow}, n : Nat]
         /\ record' # record => req.kind = "cas" /\ record = req.exp /\ record' = req.new
         /\ req.kind = "cas" /\ Matches(req) => record' = req.new
         /\ data' # data => req.kind = "data" /\ data'.by = w
<1>1. req.kind = "cas" => req.new \in LeaseRecord
  BY DEF Request, Bye
<1> QED BY <1>1 DEF LeaseTypeOK, Effect, Matches

(* The end of a helper, perhaps after it served one more request.          *)
LEMMA HelperGoneKeeps ==
  ASSUME LeaseInv, NEW w \in Window, helper[w] = "serving", HelperGone(w),
         UNCHANGED <<record, data>>
           \/ (pipe[w] # <<>> /\ Head(pipe[w]) # Bye /\ Effect(w, Head(pipe[w]))),
         deaths' \in Nat, UNCHANGED <<winvars, out, task, now, minted>>
  PROVE  LeaseInv'
<1>0. At(w) /\ LeaseTypeOK /\ fence = w
  <2>1. At(w) /\ LeaseTypeOK
    BY Parts
  <2> QED BY <2>1 DEF At, LockAt
<1>1. record' \in LeaseRecord /\ data' \in [by : Window \cup {NoWindow}, n : Nat]
  <2>1. CASE UNCHANGED <<record, data>>
    BY <1>0, <2>1 DEF LeaseTypeOK
  <2>2. CASE pipe[w] # <<>> /\ Head(pipe[w]) # Bye /\ Effect(w, Head(pipe[w]))
    <3>1. pipe[w] \in Seq(Request)
      BY <1>0 DEF LeaseTypeOK
    <3>2. Head(pipe[w]) \in Request
      BY <2>2, <3>1, TailIs
    <3> QED BY <1>0, <2>2, <3>2, EffectIs
  <2> QED BY <2>1, <2>2
<1>2. LeaseTypeOK'
  BY <1>0, <1>1 DEF LeaseTypeOK, HelperGone, winvars
<1>3. NoWindow \notin Window
  BY LeaseAssumption
<1>4. \A v \in Window \ {w} : Aside(v)
  BY <1>0, <1>3 DEF Aside, HelperGone, winvars, LeaseTypeOK
<1>5. /\ helper'[w] = "dead" /\ fence' # w /\ pipe'[w] = <<>>
      /\ UNCHANGED <<life, leaseId, lockHeld, out, task>>
  BY <1>0, <1>3 DEF HelperGone, winvars, LeaseTypeOK
<1>6. LockAt(w)' /\ NewAt(w)' /\ LifeAt(w)'
  BY <1>0, <1>5 DEF At, LockAt, NewAt, LifeAt, Idle
<1>7. PipeAt(w)' /\ OutAt(w)' /\ OrderAt(w)' /\ RecordAt(w)'
  BY <1>0, <1>5 DEF At, PipeAt, OutAt, OrderAt, RecordAt, FitsBack
<1>8. StartAt(w)'
  BY <1>0, <1>5 DEF At, StartAt, By
<1>9. At(w)'
  BY <1>6, <1>7, <1>8 DEF At
<1> QED BY <1>2, <1>4, <1>9, OneWindow

(* So for both ways to end.                                                *)
LEMMA HelperKeeps ==
  ASSUME LeaseInv, NEW w \in Window, HelperEnds(w) \/ HelperKilled(w)
  PROVE  LeaseInv'
<1>1. deaths \in Nat
  BY DEF LeaseInv, LeaseTypeOK
<1> QED BY <1>1, HelperGoneKeeps DEF HelperEnds, HelperKilled, filevars

(* A helper serves the next request.                                       *)
LEMMA ServeKeeps ==
  ASSUME LeaseInv, NEW w \in Window, Serve(w)
  PROVE  LeaseInv'
<1> DEFINE req == Head(pipe[w])
           a == AnswerTo(req)
<1>0. At(w) /\ LeaseTypeOK /\ fence = w /\ helper[w] = "serving"
  <2>1. At(w) /\ LeaseTypeOK /\ helper[w] = "serving"
    BY Parts DEF Serve
  <2> QED BY <2>1 DEF At, LockAt
<1>1. /\ pipe[w] # <<>> /\ req # Bye /\ Effect(w, req)
      /\ pipe' = [pipe EXCEPT ![w] = Tail(@)]
      /\ out' = IF life[w] = "gone" THEN out ELSE [out EXCEPT ![w] = Append(@, a)]
      /\ UNCHANGED <<life, leaseId, lockHeld, helper, fence, deaths, task, now, minted>>
  BY DEF Serve, winvars
<1>2. pipe[w] \in Seq(Request) /\ out[w] \in Seq(Answer)
  BY <1>0 DEF LeaseTypeOK
<1>3. /\ req \in Request /\ Tail(pipe[w]) \in Seq(Request) /\ 1 \in DOMAIN pipe[w] /\ req = pipe[w][1]
      /\ \A i \in DOMAIN Tail(pipe[w]) :
           i + 1 # 1 /\ i + 1 \in DOMAIN pipe[w] /\ Tail(pipe[w])[i] = pipe[w][i + 1]
      /\ \A i, j \in DOMAIN Tail(pipe[w]) : i + 1 = j + 1 => i = j
  BY <1>1, <1>2, TailIs
<1> HIDE DEF req
<1>4. /\ a \in Answer /\ a.t = req.t /\ req.t \in Task
      /\ a.kind = "read" => req.kind = "read" /\ a.rec = record
      /\ a.kind = "cas" => req.kind \in {"cas", "data"} /\ a.swapped = Matches(req)
      /\ \A c : Fits(req, c) => FitsBack(a, c)
  BY <1>0, <1>1, <1>3, AnswerFits
<1> HIDE DEF a
<1>5. /\ record' \in LeaseRecord /\ data' \in [by : Window \cup {NoWindow}, n : Nat]
      /\ record' # record => req.kind = "cas" /\ record = req.exp /\ record' = req.new
      /\ req.kind = "cas" /\ Matches(req) => record' = req.new
  BY <1>0, <1>1, <1>3, EffectIs
<1>6. /\ Append(out[w], a) \in Seq(Answer)
      /\ Append(out[w], a)[Len(out[w]) + 1] = a
      /\ \A i \in DOMAIN Append(out[w], a) :
           (i \in DOMAIN out[w] /\ Append(out[w], a)[i] = out[w][i]) \/ i = Len(out[w]) + 1
  BY <1>2, <1>4, AppendIs
<1>7. pipe' \in [Window -> Seq(Request)] /\ out' \in [Window -> Seq(Answer)]
  BY <1>0, <1>1, <1>3, <1>6 DEF LeaseTypeOK
<1>8. LeaseTypeOK'
  BY <1>0, <1>1, <1>5, <1>7 DEF LeaseTypeOK
<1>9. \A v \in Window \ {w} : Aside(v)
  BY <1>0, <1>1 DEF Aside, LeaseTypeOK
<1>10. /\ pipe'[w] = Tail(pipe[w])
       /\ life[w] # "gone" => out'[w] = Append(out[w], a)
  BY <1>0, <1>1 DEF LeaseTypeOK
<1>11. \A i \in DOMAIN pipe'[w] : i + 1 \in DOMAIN pipe[w] /\ i + 1 # 1 /\ pipe'[w][i] = pipe[w][i + 1]
  BY <1>3, <1>10
<1>12. life[w] # "gone" =>
         \A i \in DOMAIN out'[w] : \/ i \in DOMAIN out[w] /\ out'[w][i] = out[w][i]
                                   \/ i = Len(out[w]) + 1 /\ out'[w][i] = a
  BY <1>6, <1>10
<1>13. LockAt(w)' /\ NewAt(w)' /\ LifeAt(w)'
  BY <1>0, <1>1 DEF At, LockAt, NewAt, LifeAt, Idle
<1>14. life[w] # "gone" =>
         /\ \A i \in DOMAIN pipe[w] : pipe[w][i] # Bye => Fits(pipe[w][i], task[w][pipe[w][i].t])
         /\ \A i, j \in DOMAIN pipe[w] :
              pipe[w][i] # Bye /\ pipe[w][j] # Bye /\ pipe[w][i].t = pipe[w][j].t => i = j
         /\ \A i \in DOMAIN pipe[w] : \A j \in DOMAIN out[w] :
              pipe[w][i] # Bye => pipe[w][i].t # out[w][j].t
         /\ \A i \in DOMAIN out[w] : FitsBack(out[w][i], task[w][out[w][i].t])
         /\ \A i, j \in DOMAIN out[w] : out[w][i].t = out[w][j].t => i = j
  BY <1>0 DEF At, PipeAt, OutAt
<1>15. PipeAt(w)'
  <2>1. CASE life[w] = "gone"
    BY <1>1, <2>1 DEF PipeAt
  <2>2. CASE life[w] # "gone"
    <3>1. \A i \in DOMAIN pipe'[w] : pipe'[w][i] # Bye => Fits(pipe'[w][i], task[w][pipe'[w][i].t])
      BY <1>11, <1>14, <2>2
    <3>2. \A i, j \in DOMAIN pipe'[w] :
            pipe'[w][i] # Bye /\ pipe'[w][j] # Bye /\ pipe'[w][i].t = pipe'[w][j].t => i = j
      BY <1>3, <1>10, <1>14, <2>2
    <3>3. \A i \in DOMAIN pipe'[w] : \A j \in DOMAIN out'[w] :
            pipe'[w][i] # Bye => pipe'[w][i].t # out'[w][j].t
      BY <1>1, <1>3, <1>4, <1>11, <1>12, <1>14, <2>2
    <3> QED BY <3>1, <3>2, <3>3, <1>1 DEF PipeAt, Fits
  <2> QED BY <2>1, <2>2
<1>16. OutAt(w)'
  <2>1. CASE life[w] = "gone"
    BY <1>1, <2>1 DEF OutAt
  <2>2. CASE life[w] # "gone"
    <3>1. FitsBack(a, task[w][a.t])
      BY <1>1, <1>3, <1>4, <1>14, <2>2
    <3>2. \A i \in DOMAIN out'[w] : FitsBack(out'[w][i], task[w][out'[w][i].t])
      BY <1>12, <1>14, <2>2, <3>1
    <3>3. \A i, j \in DOMAIN out'[w] : out'[w][i].t = out'[w][j].t => i = j
      BY <1>1, <1>3, <1>4, <1>12, <1>14, <2>2
    <3> QED BY <3>2, <3>3, <1>1 DEF OutAt, FitsBack
  <2> QED BY <2>1, <2>2
<1>17. StartAt(w)'
  <2>1. SUFFICES ASSUME NEW t \in Task, task[w][t].at = "acquire"
                 PROVE  LET c == task[w][t] IN
                   /\ c.wait = "harden" => By(c.rep, w) /\ (fence' = w => record' = c.rep)
                   /\ \A i \in DOMAIN out'[w] : out'[w][i].kind = "read" /\ fence' = w => record' = out'[w][i].rec
                   /\ \A i \in DOMAIN out'[w] : out'[w][i].kind = "cas" =>
                        By(c.rep, w) /\ (fence' = w /\ out'[w][i].swapped => record' = c.rep)
                   /\ \A i \in DOMAIN pipe'[w] :
                        helper'[w] = "serving" /\ pipe'[w][i] # Bye /\ pipe'[w][i].kind = "cas" => By(c.rep, w)
    BY <1>1 DEF StartAt, By
  <2>2. t = Main /\ life[w] = "starting" /\ \A s \in Task \ {Main} : task[w][s] = Idle
    BY <1>0, <2>1 DEF At, LifeAt
  <2>3. Idle.wait = "no"
    BY DEF Idle
  <2>4. req.t = Main /\ Fits(req, task[w][t])
    <3>1. Fits(req, task[w][req.t])
      BY <1>1, <1>3, <1>14, <2>2
    <3> QED BY <3>1, <1>4, <2>2, <2>3 DEF Fits
  <2>5. DOMAIN out[w] = {}
    <3>1. ASSUME NEW i \in DOMAIN out[w] PROVE FALSE
      <4>1. out[w][i].t \in Task /\ FitsBack(out[w][i], task[w][out[w][i].t])
        BY <1>2, <1>14, <2>2 DEF Answer
      <4>2. out[w][i].t = Main
        BY <4>1, <2>2, <2>3 DEF FitsBack
      <4> QED BY <4>2, <2>4, <1>1, <1>3, <1>14, <2>2
    <3> QED BY <3>1
  <2>6. \A i \in DOMAIN out'[w] : out'[w][i] = a
    BY <1>12, <2>2, <2>5
  <2>7. \A i \in DOMAIN pipe[w] : pipe[w][i] # Bye /\ pipe[w][i].kind = "cas" => By(task[w][t].rep, w)
    BY <1>0, <2>1 DEF At, StartAt
  <2>8. task[w][t].wait = "answer" /\ req.kind # "data" /\ (req.kind = "cas" => req.new = task[w][t].rep)
    BY <2>1, <2>4 DEF Fits
  <2>9. a.kind = "read" => record' = a.rec
    BY <1>4, <1>5
  <2>10. a.kind = "cas" => By(task[w][t].rep, w) /\ (a.swapped => record' = task[w][t].rep)
    <3>1. a.kind = "cas" => req.kind = "cas"
      BY <1>4, <2>8
    <3> QED BY <3>1, <1>1, <1>3, <1>4, <1>5, <2>7, <2>8
  <2>11. \A i \in DOMAIN pipe'[w] : pipe'[w][i] # Bye /\ pipe'[w][i].kind = "cas" => By(task[w][t].rep, w)
    BY <1>11, <2>7
  <2> QED BY <2>6, <2>8, <2>9, <2>10, <2>11
<1>18. (DataWaits(w)' => DataWaits(w)) /\ (Needed(w)' <=> Needed(w))
  BY <1>1, <1>11 DEF DataWaits, Needed, Asserts
<1>19. OrderAt(w)'
  <2>1. SUFFICES ASSUME life[w] \in {"writer", "unloading"}, NEW t \in Task, Asserts(task[w][t])
                 PROVE  Ahead(w, t)'
    BY <1>1 DEF OrderAt, Asserts
  <2>2. Ahead(w, t)
    BY <1>0, <2>1 DEF At, OrderAt
  <2>3. out'[w] = Append(out[w], a) /\ Len(out[w]) + 1 \in DOMAIN out'[w] /\ out'[w][Len(out[w]) + 1] = a
    BY <1>2, <1>4, <1>10, <2>1
  <2>4. ASSUME NEW j \in DOMAIN out[w], out[w][j].t = t,
               life[w] = "unloading" => \A i \in 1..j : out[w][i].t # Main
        PROVE  Ahead(w, t)'
    <3>1. j \in DOMAIN out'[w] /\ \A i \in 1..j : out'[w][i] = out[w][i]
      BY <1>2, <1>4, <2>3
    <3>2. out'[w][j].t = t /\ (life'[w] = "unloading" => \A i \in 1..j : out'[w][i].t # Main)
      <4>1. j \in 1..j
        BY <1>2
      <4> QED BY <1>1, <2>4, <3>1, <4>1
    <3> QED BY <3>1, <3>2 DEF Ahead
  <2>5. ASSUME life[w] = "unloading" => \A i \in DOMAIN out[w] : out[w][i].t # Main,
               NEW j \in DOMAIN pipe[w], pipe[w][j] # Bye, pipe[w][j].t = t,
               life[w] = "unloading" => \A i \in 1..j : pipe[w][i] # Bye => pipe[w][i].t # Main
        PROVE  Ahead(w, t)'
    <3>1. life[w] = "unloading" => \A i \in DOMAIN out'[w] : out'[w][i].t # Main
      <4>1. life[w] = "unloading" => a.t # Main
        <5>1. 1 \in 1..j
          BY <1>2
        <5> QED BY <1>1, <1>3, <1>4, <2>5, <5>1
      <4> QED BY <1>12, <2>1, <2>5, <4>1
    <3>2. CASE j = 1
      <4>1. out'[w][Len(out[w]) + 1].t = t /\ \A i \in 1..(Len(out[w]) + 1) : i \in DOMAIN out'[w]
        BY <1>2, <1>3, <1>4, <2>3, <2>5, <3>2
      <4> QED BY <1>1, <2>3, <3>1, <4>1 DEF Ahead
    <3>3. CASE j # 1
      <4>1. j - 1 \in DOMAIN pipe'[w] /\ pipe'[w][j - 1] = pipe[w][j]
        BY <1>2, <1>10, <3>3
      <4>2. \A i \in 1..(j - 1) : i + 1 \in 1..j /\ pipe'[w][i] = pipe[w][i + 1]
        BY <1>2, <1>10, <3>3
      <4>3. pipe'[w][j - 1] # Bye /\ pipe'[w][j - 1].t = t
        BY <2>5, <4>1
      <4>4. life'[w] = "unloading" => \A i \in 1..(j - 1) : pipe'[w][i] # Bye => pipe'[w][i].t # Main
        BY <1>1, <2>5, <4>2
      <4> QED BY <1>1, <3>1, <4>1, <4>3, <4>4 DEF Ahead, Bye
    <3> QED BY <3>2, <3>3
  <2> QED BY <2>2, <2>4, <2>5 DEF Ahead
<1>20. RecordAt(w)'
  <2>1. SUFFICES ASSUME Needed(w) \/ DataWaits(w)'
                 PROVE  /\ By(record', w) /\ (leaseId[w] # 0 => record'.lease = leaseId[w])
                        /\ \A i \in DOMAIN pipe'[w] : pipe'[w][i].kind = "cas" =>
                             \/ Keeps(pipe'[w][i], w)
                             \/ ~Needed(w) /\ \A j \in DOMAIN pipe'[w] : pipe'[w][j].kind = "data" => j < i
    BY <1>1, <1>18 DEF RecordAt, By, Keeps
  <2>2. /\ By(record, w) /\ (leaseId[w] # 0 => record.lease = leaseId[w])
        /\ \A i \in DOMAIN pipe[w] : pipe[w][i].kind = "cas" =>
             \/ Keeps(pipe[w][i], w)
             \/ ~Needed(w) /\ \A j \in DOMAIN pipe[w] : pipe[w][j].kind = "data" => j < i
    BY <1>0, <1>18, <2>1 DEF At, RecordAt
  <2>3. req.kind = "cas" => Keeps(req, w)
    <3>1. ASSUME DataWaits(w)', \A j \in DOMAIN pipe[w] : pipe[w][j].kind = "data" => j < 1 PROVE FALSE
      <4>1. PICK i \in DOMAIN pipe'[w] : pipe'[w][i].kind = "data"
        BY <3>1 DEF DataWaits
      <4>2. i + 1 \in DOMAIN pipe[w] /\ pipe[w][i + 1].kind = "data" /\ i \in Nat
        BY <1>2, <1>3, <1>10, <1>11, <4>1
      <4> QED BY <3>1, <4>2
    <3> QED BY <1>3, <2>1, <2>2, <3>1
  <2>4. By(record', w) /\ (leaseId[w] # 0 => record'.lease = leaseId[w])
    BY <1>5, <2>2, <2>3 DEF Keeps
  <2>5. ASSUME NEW i \in DOMAIN pipe'[w], pipe'[w][i].kind = "cas"
        PROVE  \/ Keeps(pipe'[w][i], w)
               \/ ~Needed(w) /\ \A j \in DOMAIN pipe'[w] : pipe'[w][j].kind = "data" => j < i
    <3>1. i + 1 \in DOMAIN pipe[w] /\ pipe'[w][i] = pipe[w][i + 1]
      BY <1>11
    <3>2. \A j \in DOMAIN pipe'[w] : j + 1 < i + 1 => j < i
      BY <1>2, <1>3, <1>10
    <3> QED BY <1>11, <2>2, <2>5, <3>1, <3>2
  <2> QED BY <2>4, <2>5
<1>21. At(w)'
  BY <1>13, <1>15, <1>16, <1>17, <1>19, <1>20 DEF At
<1> QED BY <1>8, <1>9, <1>21, OneWindow

(* A window takes the fence, or finds it taken.                            *)
LEMMA AcquireKeeps ==
  ASSUME LeaseInv, NEW w \in Window, Acquire(w)
  PROVE  LeaseInv'
<1>0. At(w) /\ LeaseTypeOK /\ NoWindow \notin Window /\ Main \in Task
  BY Parts, LeaseAssumption
<1>1. /\ life[w] \in {"new", "readOnly"} /\ helper[w] = "off" /\ fence # w
      /\ UNCHANGED <<leaseId, out, deaths, record, data, now>>
  BY <1>0 DEF Acquire, filevars, At, LockAt
<1>2. pipe[w] = <<>> /\ out[w] = <<>> /\ leaseId[w] = 0 /\ \A t \in Task : task[w][t] = Idle
  BY <1>0, <1>1 DEF At, NewAt
<1>3. Idle.at = "idle" /\ Idle.wait = "no" /\ Idle.then = "done"
  BY DEF Idle
<1>4. CASE fence = NoWindow
  <2> DEFINE first == [Idle EXCEPT !.at = "acquire", !.lease = minted + 1, !.stamp = now]
             c == [first EXCEPT !.wait = "answer"]
  <2>1. minted \in Nat /\ now \in Nat
    BY <1>0 DEF LeaseTypeOK
  <2>2. first \in Call /\ first.at = "acquire" /\ first.then = "done"
    <3>1. minted + 1 \in Nat /\ Idle \in Call /\ Idle.then = "done"
      BY <2>1, Calls DEF Idle
    <3> QED BY <2>1, <3>1 DEF Call
  <2>3. /\ fence' = w /\ helper' = [helper EXCEPT ![w] = "serving"]
        /\ lockHeld' = [lockHeld EXCEPT ![w] = TRUE] /\ life' = [life EXCEPT ![w] = "starting"]
        /\ minted' = minted + 1 /\ Sent(w, Main, first, ReadReq(Main))
    BY <1>4 DEF Acquire
  <2> HIDE DEF first
  <2>4. c \in Call /\ c.at = "acquire" /\ c.then = "done" /\ c.wait = "answer"
    BY <2>2, SwapFields DEF Call
  <2>5. task' = [task EXCEPT ![w][Main] = c] /\ pipe' = [pipe EXCEPT ![w] = Append(@, ReadReq(Main))]
    BY <2>3 DEF Sent
  <2> HIDE DEF c
  <2>6. /\ ReadReq(Main) \in Request /\ ReadReq(Main) # Bye /\ ReadReq(Main).t = Main
        /\ ReadReq(Main).kind = "read" /\ Fits(ReadReq(Main), c)
    BY <1>0, <2>4, ReadFits
  <2>7. Append(<<>>, ReadReq(Main)) \in Seq(Request)
        /\ \A i \in DOMAIN Append(<<>>, ReadReq(Main)) : i = 1 /\ Append(<<>>, ReadReq(Main))[i] = ReadReq(Main)
    BY <2>6
  <2>8. pipe'[w] = Append(<<>>, ReadReq(Main)) /\ pipe' \in [Window -> Seq(Request)]
    BY <1>0, <1>2, <2>5, <2>7 DEF LeaseTypeOK
  <2>9. task' \in [Window -> [Task -> Call]]
    BY <1>0, <2>4, <2>5 DEF LeaseTypeOK
  <2>10. LeaseTypeOK'
    <3>1. /\ life' \in [Window -> Lives] /\ lockHeld' \in [Window -> BOOLEAN]
          /\ helper' \in [Window -> {"off", "serving", "dead"}]
          /\ fence' \in Window \cup {NoWindow} /\ minted' \in Nat
      BY <1>0, <2>1, <2>3 DEF LeaseTypeOK, Lives
    <3> QED BY <1>0, <1>1, <2>8, <2>9, <3>1 DEF LeaseTypeOK, Lives
  <2>11. \A v \in Window \ {w} : Aside(v)
    BY <1>0, <1>1, <1>4, <2>3, <2>5 DEF Aside, LeaseTypeOK
  <2>12. /\ \A t \in Task \ {Main} : task'[w][t] = Idle
         /\ task'[w][Main] = c /\ life'[w] = "starting" /\ helper'[w] = "serving"
         /\ leaseId'[w] = 0 /\ out'[w] = <<>>
    BY <1>0, <1>1, <1>2, <2>3, <2>5 DEF LeaseTypeOK
  <2>13. \A i \in DOMAIN pipe'[w] : i = 1 /\ pipe'[w][i] = ReadReq(Main)
    BY <2>7, <2>8
  <2>14. LockAt(w)' /\ NewAt(w)'
    BY <2>3, <2>12 DEF LockAt, NewAt
  <2>15. LifeAt(w)'
    BY <1>3, <2>4, <2>12 DEF LifeAt
  <2>16. PipeAt(w)'
    BY <1>0, <2>6, <2>12, <2>13 DEF PipeAt, Fits
  <2>17. OutAt(w)' /\ OrderAt(w)' /\ RecordAt(w)'
    BY <2>6, <2>12, <2>13 DEF OutAt, OrderAt, RecordAt, DataWaits, Needed
  <2>18. StartAt(w)'
    BY <1>3, <2>4, <2>6, <2>12, <2>13 DEF StartAt
  <2>19. At(w)'
    BY <2>14, <2>15, <2>16, <2>17, <2>18 DEF At
  <2> QED BY <2>10, <2>11, <2>19, OneWindow
<1>5. CASE fence # NoWindow
  <2>1. /\ life' = [life EXCEPT ![w] = "readOnly"]
        /\ UNCHANGED <<fence, helper, lockHeld, minted, task, pipe>>
    BY <1>5 DEF Acquire
  <2>2. LeaseTypeOK'
    BY <1>0, <1>1, <2>1 DEF LeaseTypeOK
  <2>3. \A v \in Window \ {w} : Aside(v)
    BY <1>0, <1>1, <2>1 DEF Aside, LeaseTypeOK
  <2>4. life'[w] = "readOnly" /\ leaseId'[w] = 0 /\ out'[w] = <<>> /\ pipe'[w] = <<>>
        /\ \A t \in Task : task'[w][t] = Idle
    BY <1>0, <1>1, <1>2, <2>1 DEF LeaseTypeOK
  <2>5. LockAt(w)' /\ NewAt(w)' /\ LifeAt(w)'
    BY <1>0, <1>3, <2>1, <2>4 DEF At, LockAt, NewAt, LifeAt
  <2>6. PipeAt(w)' /\ OutAt(w)' /\ OrderAt(w)' /\ RecordAt(w)' /\ StartAt(w)'
    BY <1>3, <2>4 DEF PipeAt, OutAt, OrderAt, RecordAt, StartAt, DataWaits, Needed
  <2>7. At(w)'
    BY <2>5, <2>6 DEF At
  <2> QED BY <2>2, <2>3, <2>7, OneWindow
<1> QED BY <1>4, <1>5

(* onunload is a step of the call that gives the lease back.               *)
LEMMA UnloadMoves ==
  ASSUME LeaseTypeOK, LifeInv, NEW w \in Window, Unload(w)
  PROVE  \E c \in Call, p \in {"unloading", "unloaded"}, req \in Request, q \in Seq(Request) :
           /\ Moves(w, Main, c, p, 0, q)
           /\ q \in {pipe[w], Append(pipe[w], req)}
           /\ req = Bye \/ (req.t = Main /\ req.kind = "read" /\ Fits(req, c))
           /\ c = Idle \/ (c.at = "release" /\ c.wait = "answer" /\ c.then = "done" /\ p = "unloading")
           /\ p = "unloaded" => ~lockHeld'[w]
<1> DEFINE d == [Idle EXCEPT !.at = "release", !.lease = leaseId[w]]
           c == [d EXCEPT !.wait = "answer"]
<1>0. /\ Main \in Task /\ task[w][Main] = Idle /\ Forget(w)
      /\ UNCHANGED <<helper, fence, out, deaths, record, data, now, minted>>
  BY LeaseAssumption DEF Unload, filevars
<1>1. CASE Sent(w, Main, d, ReadReq(Main)) /\ life' = [life EXCEPT ![w] = "unloading"] /\ UNCHANGED lockHeld
  <2>1. d \in Call /\ d.at = "release" /\ d.then = "done"
    BY DEF Idle, Call, LeaseRecord, LeaseTypeOK
  <2> HIDE DEF d
  <2>2. c \in Call /\ c.at = "release" /\ c.wait = "answer" /\ c.then = "done"
    BY <2>1, SwapFields DEF Call
  <2> DEFINE q == Append(pipe[w], ReadReq(Main))
  <2>3. /\ ReadReq(Main) \in Request /\ ReadReq(Main).t = Main
        /\ ReadReq(Main).kind = "read" /\ Fits(ReadReq(Main), c)
    BY <1>0, <2>2, ReadFits
  <2>4. q \in Seq(Request)
    BY <2>3, AppendIs DEF LeaseTypeOK
  <2>5. task' = [task EXCEPT ![w][Main] = c] /\ pipe' = [pipe EXCEPT ![w] = q]
    BY <1>1 DEF Sent
  <2> HIDE DEF c
  <2>6. Moves(w, Main, c, "unloading", 0, q)
    BY <1>0, <1>1, <2>5 DEF Moves, Forget, Others, LeaseTypeOK
  <2> QED BY <2>2, <2>3, <2>4, <2>6
<1>2. CASE LetGo(w) /\ life' = [life EXCEPT ![w] = "unloaded"] /\ UNCHANGED task
  <2>1. task' = [task EXCEPT ![w][Main] = Idle]
    BY <1>0, <1>2, SameCall
  <2>2. PICK q \in {pipe[w], Append(pipe[w], Bye)} : pipe' = [pipe EXCEPT ![w] = q]
    BY <1>2, LetGoIs
  <2>3. lockHeld' \in {lockHeld, [lockHeld EXCEPT ![w] = FALSE]} /\ ~lockHeld'[w]
    BY <1>2, LetGoIs
  <2>4. q \in Seq(Request) /\ Bye \in Request /\ Idle \in Call
    BY Known
  <2>5. Moves(w, Main, Idle, "unloaded", 0, q)
    BY <1>0, <1>2, <2>1, <2>2, <2>3 DEF Moves, Forget, Others
  <2> QED BY <2>3, <2>4, <2>5
<1> QED BY <1>1, <1>2 DEF Unload

(* The invariant under onunload: what release reads is behind the calls    *)
(* that are about to write.                                                *)
LEMMA UnloadKeeps ==
  ASSUME LeaseInv, NEW w \in Window, Unload(w)
  PROVE  LeaseInv'
<1> USE DEF LeaseInv
<1>0. /\ Main \in Task /\ task[w][Main] = Idle /\ life[w] = "writer" /\ out' = out
  BY LeaseAssumption DEF Unload
<1>1. PICK c \in Call, p \in {"unloading", "unloaded"}, req \in Request, q \in Seq(Request) :
           /\ Moves(w, Main, c, p, 0, q)
           /\ q \in {pipe[w], Append(pipe[w], req)}
           /\ req = Bye \/ (req.t = Main /\ req.kind = "read" /\ Fits(req, c))
           /\ c = Idle \/ (c.at = "release" /\ c.wait = "answer" /\ c.then = "done" /\ p = "unloading")
           /\ p = "unloaded" => ~lockHeld'[w]
  BY UnloadMoves
<1>2. Idle.at = "idle" /\ Idle.wait = "no" /\ Idle.then = "done" /\ Bye.kind = "bye"
  BY DEF Idle, Bye
<1>3. Replied(w, Main)
  BY <1>0, <1>2 DEF Replied
<1>4. /\ LeaseTypeOK' /\ Kept(w, Main) /\ UNCHANGED <<helper, fence>>
      /\ task'[w][Main] = c /\ life'[w] = p /\ leaseId'[w] = 0 /\ pipe'[w] = q
  BY <1>0, <1>1, <1>3, MovedKept DEF Lives
<1>5. Rest(w, Main)
  BY <1>0, <1>3, Taken
<1>6. Grows(w, req)
  BY <1>1, <1>4, GrowsBy
<1>7. p \in Started
  BY <1>1 DEF Started
<1>8. LifeInv'
  <2>1. ASSUME NEW v \in Window PROVE LifeAt(v)'
    <3>1. CASE v # w
      BY <1>4, <3>1 DEF LifeInv, LifeAt, Kept, Idle, Started
    <3>2. CASE v = w
      <4>1. ASSUME NEW t \in Task
            PROVE  LET b == task'[w][t] IN
               /\ b.at = "acquire" => t = Main /\ life'[w] = "starting"
               /\ b.at = "release" => t = Main /\ life'[w] = "unloading"
               /\ b.at \in {"own", "swap"} \/ b.then # "done" => life'[w] \in Started
               /\ b.at \in {"own", "renew"} => b.lease # 0
               /\ b.at = "own" => b.then # "done"
               /\ b.then = "renew" => b.at = "own"
               /\ life'[w] = "starting" => b.at = "acquire" \/ b = Idle
               /\ b.wait # "no" => b.at # "idle"
               /\ b.wait = "harden" => b.at \in {"acquire", "renew", "release"}
        <5>1. CASE t = Main
          BY <1>1, <1>2, <1>4, <5>1
        <5>2. CASE t # Main
          <6>1. task'[w][t] = task[w][t]
            BY <1>4, <5>2 DEF Kept
          <6> QED BY <1>0, <1>1, <1>7, <6>1, <1>4 DEF LifeInv, LifeAt
        <5> QED BY <5>1, <5>2
      <4> QED BY <1>1, <3>2, <4>1, <1>4 DEF LifeAt, Started
    <3> QED BY <3>1, <3>2
  <2> QED BY <2>1 DEF LifeInv
<1>9. NewInv'
  <2>1. life'[w] \notin {"new", "readOnly"}
    BY <1>1, <1>4
  <2> QED BY <1>0, <1>4, <2>1, NewKept
<1>10. PipeInv' /\ OutInv' /\ LockInv'
  BY <1>0, <1>1, <1>4, <1>5, <1>6, PipeKept, OutKept, LockKept
<1>11. StartInv'
  BY <1>0, <1>1, <1>2, <1>4, <1>5, <1>6, <1>8, StartKept
<1>12. OrderInv'
  <2>1. SUFFICES ASSUME NEW v \in Window, fence' = v, life'[v] \in {"writer", "unloading"},
                        NEW s \in Task, Asserts(task'[v][s])
                 PROVE  Ahead(v, s)'
    BY DEF OrderInv, OrderAt, Asserts
  <2>2. CASE v # w
    <3>1. Ahead(v, s)
      BY <1>4, <2>1, <2>2 DEF OrderInv, OrderAt, Kept
    <3> QED BY <1>4, <2>2, <3>1 DEF Ahead, Kept, Bye
  <2>3. CASE v = w
    <3>1. s # Main /\ task'[w][s] = task[w][s] /\ fence = w /\ helper[w] = "serving"
      BY <1>1, <1>2, <1>4, <2>1, <2>3 DEF Asserts, Kept, LockInv, LockAt
    <3>2. Ahead(w, s)
      BY <1>0, <2>1, <2>3, <3>1 DEF OrderInv, OrderAt
    <3>3. /\ \A i \in DOMAIN out[w] : out[w][i].t # Main
          /\ \A i \in DOMAIN pipe[w] : pipe[w][i] # Bye => pipe[w][i].t # Main
      BY <1>0, <1>2, <3>1 DEF OutInv, OutAt, PipeInv, PipeAt, Fits, FitsBack
    <3>4. pipe[w] \in Seq(Request) /\ out[w] \in Seq(Answer)
      BY DEF LeaseTypeOK
    <3>5. CASE \E j \in DOMAIN out[w] : out[w][j].t = s
      <4>1. PICK j \in DOMAIN out[w] : out[w][j].t = s
        BY <3>5
      <4>2. \A i \in 1..j : i \in DOMAIN out[w]
        BY <3>4
      <4> QED BY <1>0, <2>3, <3>3, <4>1, <4>2 DEF Ahead
    <3>6. CASE \E j \in DOMAIN pipe[w] : pipe[w][j] # Bye /\ pipe[w][j].t = s
      <4>1. PICK j \in DOMAIN pipe[w] : pipe[w][j] # Bye /\ pipe[w][j].t = s
        BY <3>6
      <4>2. \A i \in 1..j : i \in DOMAIN pipe[w]
        BY <3>4
      <4>3. j \in DOMAIN pipe'[w] /\ \A i \in 1..j : pipe'[w][i] = pipe[w][i] /\ pipe'[w][j] = pipe[w][j]
        BY <1>6, <4>2 DEF Grows
      <4>4. pipe'[w][j] # Bye /\ pipe'[w][j].t = s
        BY <1>6, <4>1 DEF Grows
      <4>5. \A i \in 1..j : pipe'[w][i] # Bye => pipe'[w][i].t # Main
        BY <3>3, <4>2, <4>3
      <4> QED BY <1>0, <2>3, <3>3, <4>3, <4>4, <4>5 DEF Ahead, Bye
    <3> QED BY <3>2, <3>5, <3>6 DEF Ahead
  <2> QED BY <2>2, <2>3
<1>13. RecordInv'
  <2>1. Needed(w) /\ req.kind # "cas"
    BY <1>0, <1>1, <1>2 DEF Needed
  <2> QED BY <1>0, <1>4, <1>6, <2>1, RecordKept
<1> QED BY <1>4, <1>8, <1>9, <1>10, <1>11, <1>12, <1>13

(* The invariant is inductive.                                             *)
LEMMA NextInv == LeaseInv /\ [LeaseNext]_leaseVars => LeaseInv'
<1> SUFFICES ASSUME LeaseInv, [LeaseNext]_leaseVars PROVE LeaseInv'
  OBVIOUS
<1>1. CASE UNCHANGED leaseVars
  <2>1. LeaseTypeOK'
    BY <1>1 DEF LeaseInv, leaseVars, winvars, fencevars, filevars, LeaseTypeOK
  <2>2. \A v \in Window : Aside(v)
    BY <1>1 DEF leaseVars, Aside, winvars, fencevars, filevars
  <2>3. \A v \in Window : At(v)'
    BY <2>2, Parts, Elsewhere
  <2> QED BY <2>1, <2>3 DEF LeaseInv, At, LockInv, NewInv, LifeInv, PipeInv, OutInv, StartInv, OrderInv, RecordInv
<1>2. ASSUME NEW w \in Window, Acquire(w) \/ Unload(w) \/ WindowDies(w) \/ Closed(w) PROVE LeaseInv'
  BY <1>2, AcquireKeeps, UnloadKeeps, WindowDiesKeeps, ClosedKeeps
<1>3. ASSUME NEW w \in Window, Serve(w) \/ HelperEnds(w) \/ HelperKilled(w) PROVE LeaseInv'
  BY <1>3, ServeKeeps, HelperKeeps
<1>4. ASSUME NEW w \in Window, Receive(w) PROVE LeaseInv'
  BY <1>4, ReceiveContinues, ContinuesKeeps
<1>5. ASSUME NEW w \in Window, NEW t \in Task, BeginRenew(w, t) \/ BeginWrite(w, t) PROVE LeaseInv'
  BY <1>5, BeginContinues, ContinuesKeeps DEF LeaseInv
<1>6. ASSUME NEW w \in Window, NEW t \in Task, Hardened(w, t) PROVE LeaseInv'
  BY <1>6, HardenedContinues, ContinuesKeeps
<1>7. CASE Tick
  BY <1>7, TickKeeps
<1> QED BY <1>1, <1>2, <1>3, <1>4, <1>5, <1>6, <1>7 DEF LeaseNext

(* The invariant that ties calls, requests, answers and the record.        *)
THEOREM LeaseInvariant == LeaseSpec => []LeaseInv
BY InitInv, NextInv, PTL DEF LeaseSpec

(* Every variable of the lease keeps its type.                             *)
THEOREM LeaseTypeCorrect == LeaseSpec => []LeaseTypeOK
<1>1. LeaseInv => LeaseTypeOK
  BY DEF LeaseInv
<1> QED BY <1>1, LeaseInvariant, PTL

(* It implies the property: a window with a lease is a writer.             *)
LEMMA MatchesRecord == LeaseInv => LeaseMatchesRecord
<1> SUFFICES ASSUME LeaseInv, NEW w \in Window, leaseId[w] # 0, fence = w
             PROVE  IsMine(record, w, leaseId[w])
  BY DEF LeaseMatchesRecord
<1>1. LifeAt(w) /\ RecordAt(w)
  BY DEF LeaseInv, LifeInv, RecordInv
<1>2. life[w] = "writer"
  BY <1>1 DEF LifeAt
<1> QED BY <1>1, <1>2 DEF RecordAt, Needed, By, IsMine

(* A protected write that is served finds the record of its window.        *)
LEMMA EffectUnderRecord ==
  ASSUME LeaseInv, NEW w \in Window, helper[w] = "serving", pipe[w] # <<>>, Head(pipe[w]) # Bye,
         Effect(w, Head(pipe[w])), data' # data
  PROVE  record.st = "held" /\ record.by = data'.by
<1>1. LeaseTypeOK /\ RecordAt(w) /\ fence = w
  BY DEF LeaseInv, RecordInv, LockInv, LockAt
<1>2. pipe[w] \in Seq(Request)
  BY <1>1 DEF LeaseTypeOK
<1>3. Head(pipe[w]) \in Request /\ 1 \in DOMAIN pipe[w] /\ Head(pipe[w]) = pipe[w][1]
  BY <1>2, TailIs
<1>4. Head(pipe[w]).kind = "data" /\ data'.by = w
  BY <1>1, <1>3, EffectIs
<1>5. DataWaits(w)
  BY <1>3, <1>4 DEF DataWaits
<1> QED BY <1>1, <1>4, <1>5 DEF RecordAt, By

(* So for every step: only serving, or dying while serving, changes the    *)
(* file.                                                                   *)
LEMMA StepUnderRecord ==
  LeaseInv /\ [LeaseNext]_leaseVars => [data' # data => record.st = "held" /\ record.by = data'.by]_leaseVars
<1> SUFFICES ASSUME LeaseInv, LeaseNext, data' # data PROVE record.st = "held" /\ record.by = data'.by
  BY DEF leaseVars, filevars
<1>1. PICK w \in Window : Serve(w) \/ HelperKilled(w)
  BY DEF LeaseNext, Acquire, Unload, WindowDies, Receive, Closed, HelperEnds, BeginRenew, BeginWrite,
         Guarded, Hardened, Tick, filevars
<1> QED BY <1>1, EffectUnderRecord DEF Serve, HelperKilled

(* While the fence stands, the lease in memory is the lease on disk, for   *)
(* any number of windows, calls and retries.                               *)
THEOREM LeaseSafe == LeaseSpec => []LeaseMatchesRecord
BY LeaseInvariant, MatchesRecord, PTL

(* A protected file only changes while the record names the window that    *)
(* changes it, whatever was left in a pipe.                                *)
THEOREM DataSafe == LeaseSpec => DataUnderOwnRecord
BY LeaseInvariant, StepUnderRecord, PTL DEF LeaseSpec, DataUnderOwnRecord

(***************************************************************************)
(* The journal.  Its loaders replay the records with a recursive function. *)
(* What unfolding that function gives is proved from the least record at   *)
(* which two replays would differ.                                         *)
(***************************************************************************)
(* A set of naturals that is not empty has a least member.                   *)
LEMMA Least ==
  ASSUME NEW S \in SUBSET Nat, S # {}
  PROVE  \E n \in S : \A m \in S : n <= m
<1>1. PICK n \in S : \A m \in S : <<m, n>> \notin OpToRel(<, Nat)
  BY WFMin, NatLessThanWellFounded
<1>2. \A m \in S : ~(m < n)
  BY <1>1 DEF OpToRel
<1> QED
  BY <1>2

(* The replay of the first n records.                                      *)
ReplayStep(base, records, f, k) == IF k <= base.seq THEN base.conv ELSE Apply(f[k - 1], RecordOf(records, k))
Replays(f, base, records, n) == \A k \in 0..n : f[k] = ReplayStep(base, records, f, k)

SameRecords(base, records, others, n) ==
  \A k \in 1..n : k > base.seq => RecordOf(records, k) = RecordOf(others, k)

(* Two replays of the same records up to l agree at l: the least place where *)
(* they did not would follow one where they do.                              *)
LEMMA ReplaysAgree ==
  ASSUME NEW base, base.seq \in Nat, NEW R, NEW Q, NEW l \in Nat,
         NEW f, Replays(f, base, R, l), NEW g, Replays(g, base, Q, l), SameRecords(base, R, Q, l)
  PROVE  f[l] = g[l]
<1> DEFINE S == {k \in 0..l : f[k] # g[k]}
<1>1. ASSUME S # {} PROVE FALSE
  <2>1. PICK k \in S : \A j \in S : k <= j
    <3>1. S \in SUBSET Nat
      OBVIOUS
    <3> QED
      BY <1>1, <3>1, Least
  <2>2. k \in 0..l
    BY <2>1
  <2>3. f[k] = ReplayStep(base, R, f, k) /\ g[k] = ReplayStep(base, Q, g, k)
    BY <2>2 DEF Replays
  <2>4. k > base.seq
    BY <2>1, <2>2, <2>3 DEF ReplayStep
  <2>5. k - 1 \in 0..l /\ k - 1 \notin S
    BY <2>1, <2>2, <2>4
  <2>6. f[k - 1] = g[k - 1]
    BY <2>5
  <2>7. RecordOf(R, k) = RecordOf(Q, k)
    BY <2>2, <2>4 DEF SameRecords
  <2> QED
    BY <2>1, <2>3, <2>4, <2>6, <2>7 DEF ReplayStep
<1> QED
  BY <1>1

(* There is a replay of any number of records.                               *)
LEMMA ReplaysExist ==
  ASSUME NEW base, base.seq \in Nat, NEW R, NEW n \in Nat
  PROVE  \E f : Replays(f, base, R, n)
<1> DEFINE S == {m \in Nat : ~\E f : Replays(f, base, R, m)}
<1>1. ASSUME S # {} PROVE FALSE
  <2>1. PICK m \in S : \A j \in S : m <= j
    BY <1>1, Least
  <2>2. CASE m = 0
    <3> DEFINE f == [k \in 0..0 |-> base.conv]
    <3>1. \A k \in 0..0 : ReplayStep(base, R, f, k) = base.conv
      BY DEF ReplayStep
    <3>3. Replays(f, base, R, 0)
      BY <3>1 DEF Replays
    <3> QED
      BY <2>1, <2>2, <3>3
  <2>3. CASE m # 0
    <3>1. m - 1 \in Nat /\ m - 1 \notin S
      BY <2>1, <2>3
    <3>2. PICK g : Replays(g, base, R, m - 1)
      BY <3>1
    <3> DEFINE f == [k \in 0..m |-> IF k < m THEN g[k] ELSE ReplayStep(base, R, g, m)]
    <3>3. ASSUME NEW k \in 0..m PROVE f[k] = ReplayStep(base, R, f, k)
      <4>1. k > base.seq => f[k - 1] = g[k - 1]
        <5>1. k > base.seq => k - 1 \in 0..m /\ k - 1 < m
          BY <2>1
        <5> QED
          BY <5>1
      <4>2. ReplayStep(base, R, f, k) = ReplayStep(base, R, g, k)
        BY <4>1, <2>1 DEF ReplayStep
      <4>3. CASE k < m
        <5>1. k \in 0..(m - 1)
          BY <4>3, <2>1
        <5>2. g[k] = ReplayStep(base, R, g, k)
          BY <5>1, <3>2 DEF Replays
        <5> QED
          BY <5>2, <4>2, <4>3
      <4>4. CASE ~(k < m)
        <5>1. k = m
          BY <4>4, <2>1
        <5> QED
          BY <5>1, <4>2
      <4> QED
        BY <4>3, <4>4
    <3>5. Replays(f, base, R, m)
      BY <3>3 DEF Replays
    <3> QED
      BY <3>5, <2>1
  <2> QED
    BY <2>2, <2>3
<1> QED
  BY <1>1

(* The recursive function of the model is a replay: what unfolding its       *)
(* definition once gives, for every number of a record.                      *)
LEMMA ReplayIs ==
  ASSUME NEW base, base.seq \in Nat, NEW R
  PROVE  Replay(base, R) = [k \in Nat |-> ReplayStep(base, R, Replay(base, R), k)]
<1> DEFINE P(f) == f = [seq \in Nat |-> IF seq <= base.seq THEN base.conv ELSE Apply(f[seq - 1], RecordOf(R, seq))]
           upTo(n) == CHOOSE f : Replays(f, base, R, n)
           F == [n \in Nat |-> upTo(n)[n]]
<1>1. \A n \in Nat : Replays(upTo(n), base, R, n)
  BY ReplaysExist
<1> HIDE DEF upTo
<1>2. ASSUME NEW k \in Nat PROVE F[k] = ReplayStep(base, R, F, k)
  <2>1. upTo(k)[k] = ReplayStep(base, R, upTo(k), k)
    BY <1>1 DEF Replays
  <2>2. k > base.seq => upTo(k)[k - 1] = upTo(k - 1)[k - 1]
    <3>1. ASSUME k > base.seq PROVE upTo(k)[k - 1] = upTo(k - 1)[k - 1]
      <4>1. k - 1 \in Nat /\ k - 1 <= k /\ k - 1 <= k - 1
        BY <3>1
      <4>2. Replays(upTo(k), base, R, k) /\ Replays(upTo(k - 1), base, R, k - 1)
        BY <1>1, <4>1
      <4>3. Replays(upTo(k), base, R, k - 1)
        BY <4>2, <4>1 DEF Replays
      <4>4. SameRecords(base, R, R, k - 1)
        BY DEF SameRecords
      <4> QED
        BY <4>1, <4>2, <4>3, <4>4, ReplaysAgree
    <3> QED
      BY <3>1
  <2>3. k > base.seq => F[k - 1] = upTo(k - 1)[k - 1]
    <3>1. k > base.seq => k - 1 \in Nat
      OBVIOUS
    <3> QED
      BY <3>1
  <2> QED
    BY <2>1, <2>2, <2>3 DEF ReplayStep
<1>3. F = [k \in Nat |-> ReplayStep(base, R, F, k)]
  BY <1>2
<1>4. P(F)
  BY <1>3 DEF ReplayStep
<1> HIDE DEF F
<1>5. Replay(base, R) = CHOOSE f : P(f)
  BY DEF Replay
<1>6. P(Replay(base, R))
  BY <1>4, <1>5
<1> QED
  BY <1>6 DEF ReplayStep

(* The replay is the snapshot up to the snapshot's number and one record     *)
(* more at each number behind it.                                            *)
LEMMA ReplayAt ==
  ASSUME NEW base, base.seq \in Nat, NEW R, NEW n \in Nat
  PROVE  /\ n <= base.seq => Replay(base, R)[n] = base.conv
         /\ n > base.seq => Replay(base, R)[n] = Apply(Replay(base, R)[n - 1], RecordOf(R, n))
<1>1. Replay(base, R)[n] = ReplayStep(base, R, Replay(base, R), n)
  BY ReplayIs
<1> QED
  BY <1>1 DEF ReplayStep

(* The records are numbered without a gap from lo to top.                   *)
Numbered(records, lo, top) ==
  /\ \A r \in records : r.seq \in lo..top
  /\ \A s \in lo..top : \E r \in records : r.seq = s
  /\ \A r, q \in records : r.seq = q.seq => r = q

(* The record of a number that only one record has is that record.           *)
LEMMA RecordOfIs ==
  ASSUME NEW R, NEW r \in R, \A q \in R : q.seq = r.seq => q = r
  PROVE  RecordOf(R, r.seq) = r
BY DEF RecordOf

(* A new record behind the others leaves their replay as it is and is        *)
(* applied to it.                                                            *)
LEMMA ReplayGrows ==
  ASSUME NEW base, base.seq \in Nat, NEW R, NEW lo \in Nat, NEW n \in Nat, base.seq <= n, lo <= base.seq + 1,
         Numbered(R, lo, n), NEW r, r.seq = n + 1
  PROVE  /\ Replay(base, R \cup {r})[n] = Replay(base, R)[n]
         /\ Replay(base, R \cup {r})[n + 1] = Apply(Replay(base, R)[n], r)
<1> DEFINE Q == R \cup {r}
<1>1. ASSUME NEW k \in 1..n, k > base.seq PROVE RecordOf(R, k) = RecordOf(Q, k)
  <2>1. PICK q \in R : q.seq = k
    BY <1>1 DEF Numbered
  <2>2. RecordOf(R, k) = q
    BY <2>1, RecordOfIs DEF Numbered
  <2>3. q \in Q /\ \A p \in Q : p.seq = q.seq => p = q
    BY <2>1 DEF Numbered
  <2>4. RecordOf(Q, k) = q
    BY <2>1, <2>3, RecordOfIs
  <2> QED
    BY <2>2, <2>4
<1>2. r \in Q /\ \A p \in Q : p.seq = r.seq => p = r
  BY DEF Numbered
<1>3. RecordOf(Q, n + 1) = r
  BY <1>2, RecordOfIs
<1> HIDE DEF Q
<1>4. Replays(Replay(base, R), base, R, n) /\ Replays(Replay(base, Q), base, Q, n)
  BY ReplayIs DEF Replays
<1>5. SameRecords(base, R, Q, n)
  BY <1>1 DEF SameRecords
<1>6. Replay(base, R)[n] = Replay(base, Q)[n]
  BY <1>4, <1>5, ReplaysAgree
<1>7. Replay(base, Q)[n + 1] = Apply(Replay(base, Q)[n], r)
  <2>1. n + 1 \in Nat /\ n + 1 > base.seq /\ (n + 1) - 1 = n
    OBVIOUS
  <2> QED
    BY <2>1, <1>3, ReplayAt
<1> QED
  BY <1>6, <1>7 DEF Q

(***************************************************************************)
(* The types of the files.                                                 *)
(***************************************************************************)
Kinds == {"beginTurn", "turnUpdate", "patchMessage", "patchSession", "archive", "restore", "recovery"}
Keys == Turn \cup {"conversation", "recovery"}
TurnState == [st : Terminal \cup Unsettled \cup {"paused"}, rev : Revisions]
TurnsMap == UNION {[D -> TurnState] : D \in SUBSET Turn}
TextMap == UNION {[D -> Revisions] : D \in SUBSET Turn}
Entry ==
  [seq : Revisions \ {0}, rev : Revisions \ {0}, prev : Revisions,
   kind : Kinds, turns : TurnsMap, text : TextMap]
Contents == [rev : Revisions, text : TextMap, arch : BOOLEAN, turns : TurnsMap]
Path == Keys \X Revisions
Snapshot == [rev : Revisions, seq : Revisions, chk : Revisions, conv : Contents]
RunState ==
  [rev : Revisions, head : Revisions, chk : Revisions, segs : SUBSET Path,
   pending : Entry \cup {None}, path : Path \cup {NoPath}, turns : TurnsMap]
Stage == {"finishAppend", "finishRun", "announce", "append", "finalize", "meta", "publish", "snapshot", "trim"}
Operation == [at : Stage, rec : Entry, conv : Contents, path : Path, compacts : BOOLEAN]

JournalTypes ==
  /\ snap \in Snapshot /\ run \in RunState
  /\ DOMAIN files \subseteq Path /\ \A p \in DOMAIN files : files[p] \in Seq(Entry)
  /\ meta \in [rev : Revisions, arch : BOOLEAN]
  /\ op \in Operation \cup {NoOp}
  /\ nextRev \in 1..MaxRev + 1 /\ marked \in BOOLEAN /\ acked \in TextMap
  /\ folded \subseteq Turn /\ mode \in {"running", "recovering"}

(***************************************************************************)
(* What the files add up to.                                               *)
(***************************************************************************)
Records == UNION {ToSet(files[p]) : p \in run.segs \cap DOMAIN files}
Landed == run.pending # None /\ run.pending \in Records
Newest == IF run.pending = None THEN run.head ELSE run.pending.seq
Top == IF Landed THEN run.pending.seq ELSE run.head
TopChk == IF Landed THEN run.pending.rev ELSE run.chk
Value ==
  IF run.pending = None \/ Landed
  THEN Replay(snap, Records)[Top] ELSE Apply(Replay(snap, Records)[Top], run.pending)

(* The journals that the run-state lists exist, but for the one that is     *)
(* about to; a journal is named by the record it was created for; no record *)
(* is in them twice.                                                       *)
FilesInv ==
  /\ \A p \in DOMAIN files \cup run.segs : p[2] <= Newest /\ Newest > 0
  /\ \A p \in run.segs : p \in DOMAIN files \/ (run.pending # None /\ p = run.path)
  /\ run.pending # None => run.path \in run.segs
  /\ Landed => run.path \in DOMAIN files /\ run.pending \in ToSet(files[run.path])
  /\ \A p, q \in run.segs \cap DOMAIN files : \A i \in DOMAIN files[p], j \in DOMAIN files[q] :
       files[p][i].seq = files[q][j].seq => p = q /\ i = j

HeadInv ==
  /\ run.pending = None => run.path = NoPath /\ run.rev = run.chk
  /\ run.pending # None =>
       /\ run.path # NoPath /\ run.head = run.pending.seq - 1
         /\ run.chk = run.pending.prev /\ run.rev = run.pending.rev /\ run.rev > run.chk
  /\ Newest <= run.rev /\ run.rev < nextRev
  /\ Newest = 0 => run.rev = 0
  /\ snap.rev = snap.chk /\ snap.conv.rev = snap.rev /\ (snap.seq = 0 => snap.chk = 0)

(* Each record is linked to the one before it.                              *)
Linked(records) == \A r, q \in records : r.seq = q.seq + 1 => r.prev = q.rev /\ r.rev > q.rev

(* The records start behind the snapshot, or with the conversation, or the  *)
(* snapshot has passed them and the run-state is about to drop them.        *)
Behind(lo) ==
  /\ lo = snap.seq + 1 /\ (Top = snap.seq => snap.chk = TopChk)
  /\ \A r \in Records : r.seq = lo => r.prev = snap.chk /\ r.rev > snap.rev
Whole(lo) ==
  /\ lo = 1 /\ snap.seq \in 1..Top
  /\ \A r \in Records : (r.seq = 1 => r.prev = 0) /\ (r.seq = snap.seq => r.rev = snap.chk)
Passed(lo) ==
  /\ lo > 1 /\ lo <= snap.seq /\ snap.seq = Top
  /\ run.pending = None /\ (op = NoOp \/ op.at = "trim")

ChainFrom(lo) ==
  /\ snap.seq <= Top /\ lo <= snap.seq + 1
  /\ Numbered(Records, lo, Top) /\ Linked(Records)
  /\ \A r \in Records : r.seq = Top => r.rev = TopChk
  /\ Behind(lo) \/ Whole(lo) \/ Passed(lo)
ChainInv == \E lo \in 1..MaxRev + 1 : ChainFrom(lo)

(* A turn that a compaction found ended is as that compaction left it.       *)
Settled(c) ==
  \A t \in DOMAIN snap.conv.text :
    /\ t \in DOMAIN c.turns
    /\ t \notin folded => c.turns[t].st \in Terminal /\ t \in DOMAIN c.text /\ c.text[t] = snap.conv.text[t]

(* What was written to the messages of turns is in the contents c, unless    *)
(* their turn has ended and a compaction had found it open.                  *)
Accounted(text, c) ==
  \A t \in DOMAIN text :
    /\ text[t] <= run.rev
    /\ \/ t \in DOMAIN c.text /\ c.text[t] >= text[t]
       \/ t \in folded /\ t \in DOMAIN c.turns /\ c.turns[t].st \in Terminal

ValueInv ==
  /\ Value \in Contents
  /\ Value.rev = run.rev /\ Value.turns = Materialize(snap.conv.turns, run.turns)
  /\ DOMAIN Value.text \subseteq DOMAIN Value.turns
  /\ Settled(Value) /\ Accounted(acked, Value)

(***************************************************************************)
(* What an operation does to the turns, and where it stands.               *)
(***************************************************************************)
StatesOf(turns) == [t \in DOMAIN turns |-> turns[t].st]
Sets(a, b, t, st) == b = [u \in DOMAIN a \cup {t} |-> IF u = t THEN st ELSE a[u]]
FreeIn(a, t) == \A u \in DOMAIN a \ {t} : a[u] \notin Busy
Allowed(a, b) ==
  \/ \E t \in Turn \ DOMAIN a : Sets(a, b, t, "queued") \/ (FreeIn(a, t) /\ Sets(a, b, t, "active"))
  \/ \E t \in DOMAIN a \cap Turn :
       \/ a[t] \in {"queued", "paused"} /\ FreeIn(a, t) /\ Sets(a, b, t, "active")
       \/ a[t] \in {"queued", "paused", "active"} /\ Sets(a, b, t, "cancelRequested")
       \/ a[t] \notin Terminal /\ Sets(a, b, t, "cancelled")
       \/ a[t] \notin Terminal \cup {"cancelRequested"} /\ (Sets(a, b, t, "completed") \/ Sets(a, b, t, "failed"))
  \/ b = [t \in DOMAIN a |-> CASE a[t] = "queued" -> "paused" [] a[t] \in Busy -> "interrupted" [] OTHER -> a[t]]
  \/ b = a

Prepared ==
  /\ op.rec.rev > run.rev /\ op.rec.rev < nextRev
  /\ op.rec.seq = Newest + 1 /\ op.rec.prev = run.rev
  /\ op.conv = Apply(Value, op.rec) /\ Allowed(StatesOf(Value.turns), StatesOf(op.conv.turns))
  /\ \A t \in DOMAIN op.rec.text :
       /\ op.rec.text[t] = op.rec.rev /\ t \in DOMAIN op.conv.turns
       /\ t \in DOMAIN Value.turns => Value.turns[t].st \notin Terminal
  /\ op.path[2] <= op.rec.seq /\ (op.path \in DOMAIN files => op.path \in run.segs)

OpInv ==
  op # NoOp =>
    /\ op.at \in {"finishAppend", "finishRun", "announce"} => Prepared
    /\ op.at \in {"finishAppend", "finishRun"} => run.pending # None /\ run.path \in DOMAIN files
    /\ op.at = "announce" => run.pending = None
    /\ op.at \in {"append", "finalize"} => run.pending = op.rec /\ run.path = op.path
    /\ op.at \in {"finishRun", "finalize"} => Landed
    /\ op.at \in {"meta", "publish", "snapshot", "trim"} => run.pending = None
    /\ op.at \notin {"finishAppend", "finishRun", "announce"} => Accounted(op.rec.text, Value)
    /\ op.at = "trim" => snap.seq = Top /\ snap.rev = run.rev

JournalInv == JournalTypes /\ FilesInv /\ HeadInv /\ ChainInv /\ ValueInv /\ OpInv

(***************************************************************************)
(* Maps of turns.                                                          *)
(***************************************************************************)
(* A map of turns is defined on turns and gives each a state and a revision. *)
LEMMA MapIs ==
  ASSUME NEW f \in TurnsMap
  PROVE  /\ DOMAIN f \subseteq Turn /\ f = [t \in DOMAIN f |-> f[t]]
         /\ \A t \in DOMAIN f : f[t] \in TurnState
<1>1. PICK D \in SUBSET Turn : f \in [D -> TurnState]
  BY DEF TurnsMap
<1> QED
  BY <1>1

(* A function from some turns to such states is a map of turns.              *)
LEMMA IsMap ==
  ASSUME NEW D \in SUBSET Turn, NEW f \in [D -> TurnState]
  PROVE  f \in TurnsMap
BY DEF TurnsMap

(* So is the empty one.                                                      *)
LEMMA NoTurns == <<>> \in TurnsMap
<1>1. {} \in SUBSET Turn /\ <<>> \in [{} -> TurnState]
  OBVIOUS
<1> QED
  BY <1>1, IsMap

(* A map put over another has the turns of both; of those in both it has its *)
(* own states.                                                               *)
LEMMA OverIs ==
  ASSUME NEW f \in TurnsMap, NEW g \in TurnsMap
  PROVE  /\ Over(f, g) \in TurnsMap /\ DOMAIN Over(f, g) = DOMAIN f \cup DOMAIN g
         /\ \A t \in DOMAIN f \cup DOMAIN g : Over(f, g)[t] = IF t \in DOMAIN f THEN f[t] ELSE g[t]
<1>1. Over(f, g) \in [DOMAIN f \cup DOMAIN g -> TurnState]
  BY MapIs DEF Over
<1>2. DOMAIN f \cup DOMAIN g \in SUBSET Turn
  BY MapIs
<1> QED
  BY <1>1, <1>2, IsMap DEF Over

(* Two maps of the same turns with the same states are one.                  *)
LEMMA MapsEqual ==
  ASSUME NEW f \in TurnsMap, NEW g \in TurnsMap, DOMAIN f = DOMAIN g, \A t \in DOMAIN f : f[t] = g[t]
  PROVE  f = g
<1>1. f = [t \in DOMAIN f |-> f[t]] /\ g = [t \in DOMAIN g |-> g[t]]
  BY MapIs
<1> QED
  BY <1>1

(* A map of texts is defined on turns and gives each a revision; put over    *)
(* another it has the turns of both, and of those in both its own.           *)
LEMMA TextIs ==
  ASSUME NEW f \in TextMap
  PROVE  DOMAIN f \subseteq Turn /\ f = [t \in DOMAIN f |-> f[t]] /\ \A t \in DOMAIN f : f[t] \in Revisions
<1>1. PICK D \in SUBSET Turn : f \in [D -> Revisions]
  BY DEF TextMap
<1> QED
  BY <1>1

LEMMA IsTextMap ==
  ASSUME NEW D \in SUBSET Turn, NEW f \in [D -> Revisions]
  PROVE  f \in TextMap
BY DEF TextMap

LEMMA NoText == <<>> \in TextMap
<1>1. {} \in SUBSET Turn /\ <<>> \in [{} -> Revisions]
  OBVIOUS
<1> QED
  BY <1>1, IsTextMap

LEMMA OverText ==
  ASSUME NEW f \in TextMap, NEW g \in TextMap
  PROVE  /\ Over(f, g) \in TextMap /\ DOMAIN Over(f, g) = DOMAIN f \cup DOMAIN g
         /\ \A t \in DOMAIN f \cup DOMAIN g : Over(f, g)[t] = IF t \in DOMAIN f THEN f[t] ELSE g[t]
<1>1. Over(f, g) \in [DOMAIN f \cup DOMAIN g -> Revisions]
  BY TextIs DEF Over
<1>2. DOMAIN f \cup DOMAIN g \in SUBSET Turn
  BY TextIs
<1> QED
  BY <1>1, <1>2, IsTextMap DEF Over

(* A map put over the result once more changes nothing.                     *)
LEMMA OverAgain ==
  ASSUME NEW f \in TurnsMap, NEW g \in TurnsMap
  PROVE  Over(f, Over(f, g)) = Over(f, g)
<1> DEFINE h == Over(f, g)
<1>1. h \in TurnsMap /\ DOMAIN h = DOMAIN f \cup DOMAIN g
  BY OverIs
<1>2. \A t \in DOMAIN f : h[t] = f[t]
  BY OverIs
<1> HIDE DEF h
<1>3. /\ Over(f, h) \in TurnsMap /\ DOMAIN Over(f, h) = DOMAIN f \cup DOMAIN h
      /\ \A t \in DOMAIN f \cup DOMAIN h : Over(f, h)[t] = IF t \in DOMAIN f THEN f[t] ELSE h[t]
  BY <1>1, OverIs
<1>4. DOMAIN Over(f, h) = DOMAIN h /\ \A t \in DOMAIN h : Over(f, h)[t] = h[t]
  BY <1>1, <1>2, <1>3
<1>5. Over(f, h) = h
  BY <1>1, <1>3, <1>4, MapsEqual
<1> QED
  BY <1>5 DEF h

(* The run-state keeps turns of the conversation, and those it leaves out    *)
(* the snapshot has as they are.                                             *)
LEMMA TailOfIs ==
  ASSUME NEW a \in TurnsMap, NEW b \in TurnsMap
  PROVE  /\ TailOf(a, b) \in TurnsMap /\ DOMAIN TailOf(a, b) \subseteq DOMAIN a
         /\ \A t \in DOMAIN TailOf(a, b) : TailOf(a, b)[t] = a[t]
         /\ \A t \in DOMAIN a \ DOMAIN TailOf(a, b) : t \in DOMAIN b /\ b[t] = a[t]
<1> DEFINE kept == {t \in DOMAIN a :
                 \/ a[t].st \notin Terminal
                 \/ t \notin DOMAIN b
                 \/ t \in DOMAIN b /\ b[t] # a[t]}
<1>1. TailOf(a, b) = [t \in kept |-> a[t]]
  BY DEF TailOf
<1>2. kept \in SUBSET Turn /\ kept \subseteq DOMAIN a
  BY MapIs
<1>3. \A t \in DOMAIN a \ kept : t \in DOMAIN b /\ b[t] = a[t]
  OBVIOUS
<1> HIDE DEF kept
<1>4. TailOf(a, b) \in [kept -> TurnState]
  BY <1>1, <1>2, MapIs
<1>5. TailOf(a, b) \in TurnsMap
  BY <1>2, <1>4, IsMap
<1> QED
  BY <1>1, <1>2, <1>3, <1>5

(* What the run-state keeps makes the turns of the snapshot those of the    *)
(* conversation.                                                           *)
LEMMA TailMaterializes ==
  ASSUME NEW a \in TurnsMap, NEW b \in TurnsMap, DOMAIN b \subseteq DOMAIN a
  PROVE  Materialize(b, TailOf(a, b)) = a
<1> DEFINE k == TailOf(a, b)
<1>1. /\ k \in TurnsMap /\ DOMAIN k \subseteq DOMAIN a
      /\ \A t \in DOMAIN k : k[t] = a[t]
      /\ \A t \in DOMAIN a \ DOMAIN k : t \in DOMAIN b /\ b[t] = a[t]
  BY TailOfIs
<1> HIDE DEF k
<1>2. /\ Over(k, b) \in TurnsMap /\ DOMAIN Over(k, b) = DOMAIN k \cup DOMAIN b
      /\ \A t \in DOMAIN k \cup DOMAIN b : Over(k, b)[t] = IF t \in DOMAIN k THEN k[t] ELSE b[t]
  BY <1>1, OverIs
<1>3. DOMAIN Over(k, b) = DOMAIN a
  BY <1>1, <1>2
<1>4. \A t \in DOMAIN a : Over(k, b)[t] = a[t]
  BY <1>1, <1>2, <1>3
<1>5. Over(k, b) = a
  BY <1>2, <1>3, <1>4, MapsEqual
<1> QED
  BY <1>5 DEF k, Materialize

(* The open turns put over all turns change nothing.                         *)
LEMMA OpenIs ==
  ASSUME NEW a \in TurnsMap
  PROVE  OpenTurns(a) \in TurnsMap /\ Materialize(a, OpenTurns(a)) = a
<1> DEFINE open == {t \in DOMAIN a : a[t].st \notin Terminal}
           k == OpenTurns(a)
<1>1. k = [t \in open |-> a[t]]
  BY DEF OpenTurns
<1>2. open \in SUBSET Turn /\ open \subseteq DOMAIN a
  BY MapIs
<1> HIDE DEF open, k
<1>3. k \in [open -> TurnState]
  BY <1>1, <1>2, MapIs
<1>4. k \in TurnsMap
  BY <1>2, <1>3, IsMap
<1>5. /\ Over(k, a) \in TurnsMap /\ DOMAIN Over(k, a) = DOMAIN k \cup DOMAIN a
      /\ \A t \in DOMAIN k \cup DOMAIN a : Over(k, a)[t] = IF t \in DOMAIN k THEN k[t] ELSE a[t]
  BY <1>4, OverIs
<1>6. DOMAIN Over(k, a) = DOMAIN a /\ \A t \in DOMAIN a : Over(k, a)[t] = a[t]
  BY <1>1, <1>2, <1>5
<1>7. Over(k, a) = a
  BY <1>5, <1>6, MapsEqual
<1> QED
  BY <1>4, <1>7 DEF k, Materialize

(* A record applied to the contents gives contents with its revision, its    *)
(* turns and what it writes to messages.                                     *)
LEMMA ApplyIs ==
  ASSUME NEW c \in Contents, NEW r \in Entry
  PROVE  /\ Apply(c, r) \in Contents /\ Apply(c, r).rev = r.rev
         /\ Apply(c, r).turns = Over(r.turns, c.turns) /\ Apply(c, r).text = Over(r.text, c.text)
<1>1. Over(r.turns, c.turns) \in TurnsMap
  BY OverIs DEF Contents, Entry
<1>2. r.rev \in Revisions /\ Over(r.text, c.text) \in TextMap
  BY OverText DEF Contents, Entry
<1>3. (IF r.kind \in {"archive", "restore"} THEN r.kind = "archive" ELSE c.arch) \in BOOLEAN
  BY DEF Contents
<1> QED
  BY <1>1, <1>2, <1>3 DEF Apply, Contents

(* A record is no record "none".                                            *)
LEMMA EntryIs ==
  ASSUME NEW r \in Entry
  PROVE  r # None /\ r.seq \in Nat \ {0} /\ r.rev \in Nat \ {0}
BY JournalAssumption DEF Entry, None, Revisions

(***************************************************************************)
(* What a loader finds.                                                    *)
(***************************************************************************)
(* What is in the journals that the run-state lists are records.             *)
LEMMA RecordsTyped == JournalTypes => Records \subseteq Entry
<1> SUFFICES ASSUME JournalTypes, NEW p \in run.segs \cap DOMAIN files, NEW r \in ToSet(files[p]) PROVE r \in Entry
  BY DEF Records
<1>1. files[p] \in Seq(Entry)
  BY DEF JournalTypes
<1> QED
  BY <1>1 DEF ToSet

(* The numbers in the files and those computed from them are naturals.       *)
LEMMA NumbersTyped ==
  ASSUME JournalTypes
  PROVE  /\ Revisions \subseteq Nat /\ snap.seq \in Nat /\ run.head \in Nat /\ run.rev \in Nat /\ nextRev \in Nat
         /\ Newest \in Nat /\ Top \in Nat /\ 1..MaxRev + 1 \subseteq Nat
<1>1. run.pending # None => run.pending.seq \in Nat
  BY EntryIs DEF JournalTypes, RunState
<1>2. /\ Revisions \subseteq Nat /\ snap.seq \in Nat /\ run.head \in Nat /\ run.rev \in Nat /\ nextRev \in Nat
      /\ 1..MaxRev + 1 \subseteq Nat
  BY JournalAssumption DEF JournalTypes, Revisions, Snapshot, RunState
<1> QED
  BY <1>1, <1>2 DEF Newest, Top, Landed

(* The first and the last record of a run without a gap.                     *)
LEMMA EndsOf ==
  ASSUME NEW R, NEW lo \in Nat, NEW top \in Nat, Numbered(R, lo, top)
  PROVE  /\ lo <= top => R # {} /\ Min({r.seq : r \in R}) = lo /\ Max({r.seq : r \in R}) = top
         /\ lo > top => R = {}
<1> DEFINE S == {r.seq : r \in R}
<1>1. CASE lo > top
  BY <1>1 DEF Numbered
<1>2. CASE lo <= top
  <2>1. R # {} /\ S = lo..top
    BY <1>2 DEF Numbered
  <2> HIDE DEF S
  <2>2. lo \in S /\ \A y \in S : lo <= y
    BY <2>1, <1>2
  <2>3. top \in S /\ \A y \in S : top >= y
    BY <2>1, <1>2
  <2>4. \A x \in S : x \in Nat
    BY <2>1
  <2>5. Min(S) = lo
    <3>1. \E x \in S : \A y \in S : x <= y
      BY <2>2
    <3>2. Min(S) \in S /\ \A y \in S : Min(S) <= y
      BY <3>1 DEF Min
    <3>3. Min(S) \in Nat /\ lo \in Nat
      BY <2>4, <3>2
    <3>4. Min(S) <= lo /\ lo <= Min(S)
      BY <2>2, <2>3, <3>2, <3>3
    <3> QED
      BY <3>3, <3>4
  <2>6. Max(S) = top
    <3>1. \E x \in S : \A y \in S : x >= y
      BY <2>3
    <3>2. Max(S) \in S /\ \A y \in S : Max(S) >= y
      BY <3>1 DEF Max
    <3>3. Max(S) \in Nat /\ top \in Nat
      BY <2>4, <3>2
    <3>4. Max(S) <= top /\ top <= Max(S)
      BY <2>2, <2>3, <3>2, <3>3
    <3> QED
      BY <3>3, <3>4
  <2> QED
    BY <2>1, <2>5, <2>6, <1>2 DEF S
<1> QED
  BY <1>1, <1>2

(* When no journal is missing the durable records are all records.           *)
LEMMA DurableIs == ASSUME Present PROVE Durable = Records
BY DEF Present, Durable, Records

(* What the loader finds at the head and at the beginning of the chain.      *)
LEMMA HeadsAre ==
  ASSUME JournalTypes, Present, NEW lo \in 1..MaxRev + 1, ChainFrom(lo)
  PROVE  /\ HeadSeq = Top /\ HeadChk = TopChk
         /\ Records # {} => FirstSeq = lo /\ lo <= Top
         /\ Records = {} => Behind(lo) /\ Top = snap.seq
<1>1. Durable = Records
  BY DurableIs
<1>2. lo \in Nat /\ Top \in Nat /\ snap.seq \in Nat
  BY NumbersTyped
<1>3. /\ lo <= Top => Records # {} /\ Min({r.seq : r \in Records}) = lo /\ Max({r.seq : r \in Records}) = Top
      /\ lo > Top => Records = {}
  BY <1>2, EndsOf DEF ChainFrom
<1>4. CASE Records = {}
  <2>1. lo > Top /\ Behind(lo) /\ Top = snap.seq /\ snap.chk = TopChk
    BY <1>2, <1>3, <1>4 DEF ChainFrom, Behind, Whole, Passed
  <2> QED
    BY <1>1, <1>4, <2>1 DEF HeadSeq, HeadChk
<1>5. CASE Records # {}
  <2>1. lo <= Top /\ FirstSeq = lo /\ HeadSeq = Top
    BY <1>1, <1>2, <1>3, <1>5 DEF FirstSeq, HeadSeq
  <2>2. PICK r \in Records : r.seq = Top
    BY <2>1, <1>2 DEF ChainFrom, Numbered
  <2>3. RecordOf(Records, Top) = r
    BY <2>2, RecordOfIs DEF ChainFrom, Numbered
  <2>4. r.rev = TopChk
    BY <2>2 DEF ChainFrom
  <2> QED
    BY <1>1, <1>5, <2>1, <2>3, <2>4 DEF HeadChk
<1> QED
  BY <1>4, <1>5

(* A journal is missing exactly when the announced record was to create it.  *)
LEMMA PresentIs == JournalInv => (Present <=> ~FileAhead)
BY DEF JournalInv, FilesInv, Present, FileAhead

(* After a compaction that stopped before the run-state the loader takes the *)
(* snapshot alone.                                                           *)
LEMMA PassedIs ==
  ASSUME JournalTypes, Present, NEW lo \in 1..MaxRev + 1, ChainFrom(lo), Passed(lo)
  PROVE  SnapshotAhead /\ ~ChainSound
<1>1. lo \in Nat /\ Top \in Nat /\ snap.seq \in Nat
  BY NumbersTyped
<1>2. Records # {}
  BY <1>1, HeadsAre DEF Passed, Behind
<1>3. HeadSeq = Top /\ FirstSeq = lo /\ Durable = Records
  BY <1>2, HeadsAre, DurableIs
<1>4. run.segs # {}
  BY <1>2 DEF Records
<1> QED
  BY <1>1, <1>2, <1>3, <1>4 DEF Passed, SnapshotAhead, ChainSound

(* In every other case it takes the chain.                                   *)
LEMMA ChainIsSound ==
  ASSUME JournalTypes, HeadInv, Present, NEW lo \in 1..MaxRev + 1, ChainFrom(lo), ~Passed(lo)
  PROVE  ChainSound
<1>1. lo \in Nat /\ Top \in Nat /\ snap.seq \in Nat
  BY NumbersTyped
<1>2. Durable = Records
  BY DurableIs
<1>3. SUFFICES ASSUME Records # {} PROVE ChainSound
  BY <1>2 DEF ChainSound
<1>4. FirstSeq = lo /\ lo <= Top
  BY <1>3, HeadsAre
<1>5. Records \subseteq Entry
  BY RecordsTyped
<1>6. ASSUME NEW r \in Records, r.seq # lo
      PROVE  \E q \in Records : r.seq = q.seq + 1 /\ r.prev = q.rev /\ r.rev > q.rev
  <2>1. r.seq \in Nat /\ r.seq \in lo..Top
    BY <1>5, EntryIs DEF ChainFrom, Numbered
  <2>2. PICK q \in Records : q.seq = r.seq - 1
    BY <2>1, <1>1, <1>6 DEF ChainFrom, Numbered
  <2>3. r.seq = q.seq + 1
    BY <2>1, <2>2
  <2> QED
    BY <2>3 DEF ChainFrom, Linked
<1>7. PICK f \in Records : f.seq = lo
  BY <1>1, <1>4 DEF ChainFrom, Numbered
<1>8. RecordOf(Records, lo) = f
  BY <1>7, RecordOfIs DEF ChainFrom, Numbered
<1>9. CASE Behind(lo)
  <2>1. ChainedFrom(snap.seq, snap.chk)
    BY <1>2, <1>6, <1>9 DEF ChainedFrom, Behind
  <2>2. RecordOf(Durable, FirstSeq).rev > snap.rev
    BY <1>2, <1>4, <1>7, <1>8, <1>9 DEF Behind
  <2> QED
    BY <1>4, <1>9, <2>1, <2>2 DEF ChainSound, Behind
<1>10. CASE Whole(lo)
  <2>1. ChainedFrom(0, 0)
    BY <1>2, <1>6, <1>10 DEF ChainedFrom, Whole
  <2>2. \E r \in Durable : r.seq = snap.seq /\ r.rev = snap.chk
    <3>1. PICK r \in Records : r.seq = snap.seq
      BY <1>1, <1>10 DEF ChainFrom, Numbered, Whole
    <3> QED
      BY <3>1, <1>2, <1>10 DEF Whole
  <2> QED
    BY <1>4, <1>10, <2>1, <2>2 DEF ChainSound, Whole
<1> QED
  BY <1>9, <1>10 DEF ChainFrom

(* When the journals exist and the snapshot has not passed them, the        *)
(* conversation loads, and what is loaded is its value.                     *)
LEMMA LoadsWhole ==
  ASSUME JournalInv, ~FileAhead, ~SnapshotAhead
  PROVE  FullyLoads /\ Conv = Value /\ LastSeq = Newest /\ LastChk = run.rev /\ Replayed = Value
<1> USE DEF JournalInv
<1>1. Present
  BY PresentIs
<1>2. PICK lo \in 1..MaxRev + 1 : ChainFrom(lo)
  BY DEF ChainInv
<1>3. ~Passed(lo)
  BY <1>1, <1>2, PassedIs
<1>4. ChainSound
  BY <1>1, <1>2, <1>3, ChainIsSound
<1>5. HeadSeq = Top /\ HeadChk = TopChk
  BY <1>1, <1>2, HeadsAre
<1>6. Durable = Records
  BY <1>1, DurableIs
<1>7. lo \in Nat /\ Top \in Nat /\ snap.seq \in Nat /\ run.head \in Nat
  BY NumbersTyped
<1>8. NoDuplicates
  BY <1>1 DEF NoDuplicates, FilesInv, Present
<1>9. PendingDurable <=> run.pending \in Records
  BY <1>6 DEF PendingDurable
<1>10. HeadSound
  <2>1. CASE run.pending = None
    BY <2>1, <1>5 DEF HeadSound, Top, TopChk, Landed
  <2>2. CASE run.pending # None
    <3>1. run.head = run.pending.seq - 1 /\ run.chk = run.pending.prev /\ run.pending.seq \in Nat
      BY <2>2, EntryIs DEF HeadInv, JournalTypes, RunState
    <3>2. CASE Landed
      BY <2>2, <3>1, <3>2, <1>9 DEF HeadSound, Landed
    <3>3. CASE ~Landed
      <4>1. HeadSeq = run.head /\ HeadChk = run.chk
        BY <3>3, <1>5 DEF Top, TopChk
      <4>2. \A r \in Durable : r.seq # run.pending.seq
        BY <1>6, <1>2, <1>7, <3>1, <3>3 DEF ChainFrom, Numbered, Top
      <4> QED
        BY <2>2, <3>1, <4>1, <4>2 DEF HeadSound
    <3> QED
      BY <3>2, <3>3
  <2> QED
    BY <2>1, <2>2
<1>11. Sound
  BY <1>1, <1>4, <1>8, <1>10, <1>5, <1>2, <1>7 DEF Sound, ChainFrom
<1>12. Replayed = Value
  BY <1>5, <1>6, <1>9 DEF Replayed, Value, Landed
<1>13. FullyLoads
  BY <1>11, <1>12 DEF FullyLoads, ValueInv
<1>14. Conv = Value
  <2>1. Value \in Contents /\ Value.rev = run.rev /\ Value.turns = Materialize(snap.conv.turns, run.turns)
    BY DEF ValueInv
  <2>2. Conv = [Value EXCEPT !.rev = Value.rev, !.turns = Value.turns]
    BY <2>1, <1>12 DEF Conv
  <2> HIDE DEF JournalInv
  <2> QED
    BY <2>1, <2>2 DEF Contents
<1>15. LastSeq = Newest
  BY <1>5 DEF LastSeq, Newest, Top, Landed
<1>16. LastChk = run.rev
  BY <1>5 DEF LastChk, HeadInv, TopChk, Landed
<1> QED
  BY <1>12, <1>13, <1>14, <1>15, <1>16

(* Any loader that succeeds loads the value.                                *)
LEMMA LoadsValue ==
  ASSUME JournalInv, Sound
  PROVE  FullyLoads /\ Conv = Value /\ LastSeq = Newest /\ LastChk = run.rev /\ Replayed = Value
<1>1. ~FileAhead
  BY PresentIs DEF Sound
<1>2. ~SnapshotAhead
  <2>1. SUFFICES ASSUME SnapshotAhead PROVE FALSE
    OBVIOUS
  <2>2. PICK lo \in 1..MaxRev + 1 : ChainFrom(lo)
    BY DEF JournalInv, ChainInv
  <2>3. lo \in Nat /\ Top \in Nat /\ snap.seq \in Nat
    BY NumbersTyped DEF JournalInv
  <2>4. Durable = Records
    BY DurableIs DEF Sound
  <2>5. FirstSeq = lo /\ HeadSeq = Top /\ lo <= Top
    BY <2>1, <2>2, <2>4, HeadsAre DEF Sound, JournalInv, SnapshotAhead
  <2>6. FirstSeq = 1 \/ FirstSeq = snap.seq + 1
    BY <2>1 DEF Sound, ChainSound, SnapshotAhead
  <2> QED
    BY <2>1, <2>3, <2>5, <2>6 DEF SnapshotAhead
<1> QED
  BY <1>1, <1>2, LoadsWhole

(* The journals g are the files with the record rec at the end of one, if    *)
(* it was not there before.                                                *)
Adds(g, path, rec) ==
  /\ DOMAIN g = DOMAIN files \cup {path}
  /\ \A p \in DOMAIN g : g[p] \in Seq(Entry)
  /\ \A p \in DOMAIN files \ {path} : g[p] = files[p]
  /\ path \in DOMAIN files => \A i \in DOMAIN files[path] : i \in DOMAIN g[path] /\ g[path][i] = files[path][i]
  /\ \E i \in DOMAIN g[path] : g[path][i] = rec
  /\ \A i \in DOMAIN g[path] :
       g[path][i] = rec \/ (path \in DOMAIN files /\ i \in DOMAIN files[path] /\ g[path][i] = files[path][i])
AddsOnce(g, path, rec) == \A i, j \in DOMAIN g[path] : g[path][i] = rec /\ g[path][j] = rec => i = j

(* What appending a record to a journal does to the files: it adds it, once  *)
(* unless it was there.                                                      *)
LEMMA AppendedIs ==
  ASSUME JournalTypes, NEW path \in Path, NEW rec \in Entry, NEW g, g = Appended(path, rec)
  PROVE  /\ Adds(g, path, rec)
         /\ path \notin DOMAIN files \/ rec \notin ToSet(files[path]) => AddsOnce(g, path, rec)
<1> USE DEF Adds, AddsOnce
<1>0. \A p \in DOMAIN files : files[p] \in Seq(Entry)
  BY DEF JournalTypes
<1>1. CASE path \notin DOMAIN files
  <2>1. g = Over([p \in {path} |-> <<rec>>], files)
    BY <1>1 DEF Appended
  <2>2. DOMAIN g = DOMAIN files \cup {path} /\ g[path] = <<rec>> /\ \A p \in DOMAIN files \ {path} : g[p] = files[p]
    BY <2>1 DEF Over
  <2> DEFINE n == <<rec>>
  <2>3. n \in Seq(Entry) /\ DOMAIN n = {1} /\ n[1] = rec
    OBVIOUS
  <2> HIDE DEF n
  <2>4. \A p \in DOMAIN g : g[p] \in Seq(Entry)
    BY <1>0, <2>2, <2>3
  <2>5. \A i \in DOMAIN g[path] : g[path][i] = rec
    BY <2>2, <2>3
  <2>6. \E i \in DOMAIN g[path] : g[path][i] = rec
    BY <2>2, <2>3
  <2>7. \A i, j \in DOMAIN g[path] : i = j
    BY <2>2, <2>3
  <2> QED
    BY <1>1, <2>2, <2>4, <2>5, <2>6, <2>7
<1>2. CASE path \in DOMAIN files /\ rec \in ToSet(files[path])
  <2>1. g = files
    BY <1>2 DEF Appended
  <2>2. \E i \in DOMAIN files[path] : files[path][i] = rec
    BY <1>2 DEF ToSet
  <2> QED
    BY <1>0, <1>2, <2>1, <2>2
<1>3. CASE path \in DOMAIN files /\ rec \notin ToSet(files[path])
  <2>1. g = [files EXCEPT ![path] = Append(files[path], rec)]
    BY <1>3 DEF Appended
  <2> DEFINE q == files[path]
             n == Append(q, rec)
  <2>2. q \in Seq(Entry)
    BY <1>0, <1>3
  <2>3. \A i \in DOMAIN q : q[i] # rec
    BY <1>3 DEF ToSet
  <2>4. DOMAIN g = DOMAIN files /\ g[path] = n /\ \A p \in DOMAIN files \ {path} : g[p] = files[p]
    BY <1>3, <2>1
  <2> HIDE DEF q
  <2>5. n \in Seq(Entry) /\ DOMAIN n = 1..(Len(q) + 1) /\ DOMAIN q = 1..Len(q) /\ Len(q) \in Nat
    BY <2>2
  <2>6. n[Len(q) + 1] = rec /\ \A i \in 1..Len(q) : n[i] = q[i]
    BY <2>2
  <2> HIDE DEF n
  <2>7. \A p \in DOMAIN g : g[p] \in Seq(Entry)
    BY <1>0, <2>4, <2>5
  <2>8. \A i \in DOMAIN q : i \in DOMAIN n /\ n[i] = q[i]
    BY <2>5, <2>6
  <2>9. Len(q) + 1 \in DOMAIN n /\ n[Len(q) + 1] = rec
    BY <2>5, <2>6
  <2>10. \A i \in DOMAIN n : i = Len(q) + 1 \/ (i \in DOMAIN q /\ n[i] = q[i])
    BY <2>5, <2>6
  <2>11. \A i, j \in DOMAIN n : n[i] = rec /\ n[j] = rec => i = j
    BY <2>3, <2>10
  <2>12. \A i \in DOMAIN n : n[i] = rec \/ (i \in DOMAIN q /\ n[i] = q[i])
    BY <2>9, <2>10
  <2> QED
    BY <1>3, <2>4, <2>7, <2>8, <2>9, <2>11, <2>12 DEF q
<1> QED
  BY <1>1, <1>2, <1>3

(* Nothing that is on disk counts differently while the files stay.         *)
LEMMA DiskStays ==
  ASSUME JournalInv, snap' = snap, run' = run, files' = files
  PROVE  /\ Records' = Records /\ (Landed' <=> Landed) /\ Newest' = Newest /\ Top' = Top /\ TopChk' = TopChk
         /\ Value' = Value /\ FilesInv'
<1>1. Records' = Records
  BY DEF Records
<1>2. (Landed' <=> Landed) /\ Newest' = Newest
  BY <1>1 DEF Landed, Newest
<1>3. Top' = Top /\ TopChk' = TopChk
  BY <1>2 DEF Top, TopChk
<1>4. Value' = Value
  BY <1>1, <1>2, <1>3 DEF Value
<1>5. FilesInv'
  BY <1>2 DEF JournalInv, FilesInv
<1> QED
  BY <1>1, <1>2, <1>3, <1>4, <1>5

(* So the invariant of the files stays, unless the operation that is to     *)
(* drop the journals goes on to something else.                            *)
LEMMA DiskKeeps ==
  ASSUME JournalInv, snap' = snap, run' = run, files' = files, nextRev' \in Nat, nextRev' >= nextRev,
         folded' = folded, Accounted(acked', Value), op' = NoOp \/ (op # NoOp /\ op.at # "trim") \/ Sound
  PROVE  FilesInv' /\ HeadInv' /\ ChainInv' /\ ValueInv'
<1>1. /\ Records' = Records /\ (Landed' <=> Landed) /\ Newest' = Newest /\ Top' = Top /\ TopChk' = TopChk
      /\ Value' = Value /\ FilesInv'
  BY DiskStays
<1>2. HeadInv'
  <2>1. run.rev \in Nat /\ nextRev \in Nat
    BY NumbersTyped DEF JournalInv
  <2> QED
    BY <1>1, <2>1 DEF JournalInv, HeadInv
<1>3. PICK lo \in 1..MaxRev + 1 : ChainFrom(lo)
  BY DEF JournalInv, ChainInv
<1>4. Behind(lo) => Behind(lo)'
  BY <1>1 DEF Behind
<1>5. Whole(lo) => Whole(lo)'
  BY <1>1 DEF Whole
<1>6. Passed(lo) => Passed(lo)'
  <2>1. CASE Sound
    BY <2>1, <1>3, PassedIs DEF Sound, JournalInv
  <2> QED
    BY <1>1, <2>1 DEF Passed
<1>7. ChainFrom(lo)'
  BY <1>1, <1>3, <1>4, <1>5, <1>6 DEF ChainFrom, Numbered, Linked
<1>8. ValueInv'
  BY <1>1 DEF JournalInv, ValueInv, Settled, Accounted
<1> QED
  BY <1>1, <1>2, <1>3, <1>7, <1>8 DEF ChainInv

(* The record of the run-state reaches its journal.                         *)
LEMMA Lands ==
  ASSUME JournalInv, run.pending # None, ~Landed, files' = Appended(run.path, run.pending),
         snap' = snap, run' = run, nextRev' = nextRev, acked' = acked, folded' = folded
  PROVE  /\ Landed' /\ Newest' = Newest /\ Value' = Value
         /\ DOMAIN files' = DOMAIN files \cup {run.path} /\ DOMAIN files' \subseteq Path
         /\ \A p \in DOMAIN files' : files'[p] \in Seq(Entry)
         /\ FilesInv' /\ HeadInv' /\ ChainInv' /\ ValueInv'
<1> DEFINE pen == run.pending
           path == run.path
<1>0. JournalTypes /\ FilesInv /\ HeadInv /\ ChainInv /\ ValueInv
  BY DEF JournalInv
<1>1. pen \in Entry /\ path \in Path /\ path \in run.segs
  BY <1>0 DEF JournalTypes, RunState, FilesInv, HeadInv
<1>2. path \notin DOMAIN files \/ pen \notin ToSet(files[path])
  BY <1>1 DEF Landed, Records
<1>3. /\ DOMAIN files' = DOMAIN files \cup {path}
      /\ \A p \in DOMAIN files' : files'[p] \in Seq(Entry)
      /\ \A p \in DOMAIN files \ {path} : files'[p] = files[p]
      /\ path \in DOMAIN files => \A i \in DOMAIN files[path] : i \in DOMAIN files'[path] /\ files'[path][i] = files[path][i]
      /\ \E i \in DOMAIN files'[path] : files'[path][i] = pen
      /\ \A i \in DOMAIN files'[path] :
           files'[path][i] = pen \/ (path \in DOMAIN files /\ i \in DOMAIN files[path] /\ files'[path][i] = files[path][i])
      /\ \A i, j \in DOMAIN files'[path] : files'[path][i] = pen /\ files'[path][j] = pen => i = j
  <2>1. PICK g : g = files' /\ g = Appended(path, pen)
    OBVIOUS
  <2> HIDE DEF pen, path
  <2>2. Adds(g, path, pen) /\ AddsOnce(g, path, pen)
    BY <1>0, <1>1, <1>2, <2>1, AppendedIs
  <2> QED
    BY <2>1, <2>2 DEF Adds, AddsOnce
<1>5. DOMAIN files' \subseteq Path
  BY <1>0, <1>1, <1>3 DEF JournalTypes
<1>6. Records' = Records \cup {pen}
  <2>1. ASSUME NEW p \in run.segs \cap DOMAIN files, p # path PROVE files'[p] = files[p] /\ p \in DOMAIN files'
    BY <2>1, <1>3
  <2>2. path \in run.segs \cap DOMAIN files'
    BY <1>1, <1>3
  <2>3. ToSet(files'[path]) = (IF path \in DOMAIN files THEN ToSet(files[path]) ELSE {}) \cup {pen}
    BY <1>3 DEF ToSet
  <2>4. run.segs \cap DOMAIN files' = (run.segs \cap DOMAIN files) \cup {path}
    BY <1>1, <1>3
  <2>5. Records' = UNION {ToSet(files'[p]) : p \in run.segs \cap DOMAIN files'}
    BY DEF Records
  <2>6. ASSUME NEW r \in Records' PROVE r \in Records \cup {pen}
    <3>1. PICK p \in run.segs \cap DOMAIN files' : r \in ToSet(files'[p])
      BY <2>5, <2>6
    <3>2. CASE p = path
      BY <3>1, <3>2, <2>3, <1>1 DEF Records
    <3>3. CASE p # path
      BY <3>1, <3>3, <2>1, <2>4 DEF Records
    <3> QED
      BY <3>2, <3>3
  <2>7. ASSUME NEW r \in Records PROVE r \in Records'
    <3>1. PICK p \in run.segs \cap DOMAIN files : r \in ToSet(files[p])
      BY <2>7 DEF Records
    <3>2. r \in ToSet(files'[p])
      BY <3>1, <2>1, <2>3
    <3> QED
      BY <3>1, <3>2, <2>4, <2>5
  <2>8. pen \in Records'
    BY <2>2, <2>3, <2>5
  <2> QED
    BY <2>6, <2>7, <2>8
<1>7. Landed' /\ Newest' = Newest /\ Top' = pen.seq /\ TopChk' = pen.rev
  BY <1>6 DEF Landed, Newest, Top, TopChk
<1>8. PICK lo \in 1..MaxRev + 1 : ChainFrom(lo)
  BY <1>0 DEF ChainInv
<1>9. /\ lo \in Nat /\ snap.seq \in Nat /\ run.head \in Nat /\ pen.seq \in Nat
      /\ Top = run.head /\ TopChk = run.chk /\ pen.seq = run.head + 1
      /\ run.chk = pen.prev /\ run.rev = pen.rev
  BY <1>0, <1>1, NumbersTyped, EntryIs DEF HeadInv, Top, TopChk
<1>10. Value' = Value
  <2>1. Value = Apply(Replay(snap, Records)[run.head], pen)
    BY <1>9 DEF Value
  <2>2. Value' = Replay(snap, Records \cup {pen})[pen.seq]
    BY <1>6, <1>7 DEF Value
  <2>3. Numbered(Records, lo, run.head) /\ lo <= snap.seq + 1 /\ snap.seq <= run.head
    BY <1>8, <1>9 DEF ChainFrom
  <2>4. Replay(snap, Records \cup {pen})[run.head + 1] = Apply(Replay(snap, Records)[run.head], pen)
    BY <1>9, <2>3, ReplayGrows
  <2> QED
    BY <1>9, <2>1, <2>2, <2>4
<1>12. FilesInv'
  <2>1. \A p \in DOMAIN files' \cup run.segs : p[2] <= Newest /\ Newest > 0
    BY <1>0, <1>1, <1>3 DEF FilesInv
  <2>2. \A p \in run.segs : p \in DOMAIN files'
    BY <1>0, <1>3 DEF FilesInv
  <2>3. pen \in ToSet(files'[path])
    BY <1>3 DEF ToSet
  <2>4. ASSUME NEW p \in run.segs \cap DOMAIN files', NEW i \in DOMAIN files'[p]
        PROVE  (p = path /\ files'[p][i] = pen)
               \/ (p \in run.segs \cap DOMAIN files /\ i \in DOMAIN files[p] /\ files'[p][i] = files[p][i]
                   /\ files'[p][i].seq # pen.seq)
    <3>1. CASE p = path /\ files'[p][i] = pen
      BY <3>1
    <3>2. CASE ~(p = path /\ files'[p][i] = pen)
      <4>1. p \in run.segs \cap DOMAIN files /\ i \in DOMAIN files[p] /\ files'[p][i] = files[p][i]
        <5>1. CASE p = path
          BY <5>1, <3>2, <1>3
        <5>2. CASE p # path
          BY <5>2, <1>3
        <5> QED
          BY <5>1, <5>2
      <4>2. files[p][i] \in Records
        BY <4>1 DEF Records, ToSet
      <4>3. files[p][i].seq # pen.seq
        BY <4>2, <1>8, <1>9 DEF ChainFrom, Numbered
      <4> QED
        BY <4>1, <4>3
    <3> QED
      BY <3>1, <3>2
  <2>5. ASSUME NEW p \in run.segs \cap DOMAIN files', NEW q \in run.segs \cap DOMAIN files',
               NEW i \in DOMAIN files'[p], NEW j \in DOMAIN files'[q], files'[p][i].seq = files'[q][j].seq
        PROVE  p = q /\ i = j
    <3>1. CASE files'[p][i].seq = pen.seq
      BY <3>1, <2>4, <2>5, <1>3
    <3>2. CASE files'[p][i].seq # pen.seq
      <4>1. /\ p \in run.segs \cap DOMAIN files /\ i \in DOMAIN files[p] /\ files'[p][i] = files[p][i]
            /\ q \in run.segs \cap DOMAIN files /\ j \in DOMAIN files[q] /\ files'[q][j] = files[q][j]
        BY <3>2, <2>4, <2>5
      <4> QED
        BY <4>1, <2>5, <1>0 DEF FilesInv
    <3> QED
      BY <3>1, <3>2
  <2> QED
    BY <1>1, <1>3, <1>7, <2>1, <2>2, <2>3, <2>5 DEF FilesInv
<1>13. HeadInv'
  BY <1>0, <1>7 DEF HeadInv
<1>14. ChainFrom(lo)'
  <2>1. Records \subseteq Entry
    BY <1>0, RecordsTyped
  <2>2. \A r \in Records : r.seq \in Nat /\ r.seq \in lo..run.head
    BY <2>1, <1>8, <1>9, EntryIs DEF ChainFrom, Numbered
  <2>3. lo <= run.head + 1 /\ snap.seq <= run.head /\ lo <= snap.seq + 1
    BY <1>8, <1>9 DEF ChainFrom
  <2>4. Numbered(Records \cup {pen}, lo, pen.seq)
    <3>1. \A r \in Records \cup {pen} : r.seq \in lo..pen.seq
      BY <2>2, <2>3, <1>9
    <3>2. ASSUME NEW s \in lo..pen.seq PROVE \E r \in Records \cup {pen} : r.seq = s
      <4>1. CASE s = pen.seq
        BY <4>1
      <4>2. CASE s # pen.seq
        <5>1. s \in lo..run.head
          BY <4>2, <1>9
        <5> QED
          BY <5>1, <1>8, <1>9 DEF ChainFrom, Numbered
      <4> QED
        BY <4>1, <4>2
    <3>3. \A r, q \in Records \cup {pen} : r.seq = q.seq => r = q
      BY <2>2, <1>8, <1>9 DEF ChainFrom, Numbered
    <3> QED
      BY <3>1, <3>2, <3>3 DEF Numbered
  <2>5. ASSUME NEW r \in Records, pen.seq = r.seq + 1 PROVE pen.prev = r.rev /\ pen.rev > r.rev
    <3>1. r.seq = Top
      BY <2>2, <2>5, <1>9
    <3>2. r.rev = pen.prev
      BY <3>1, <1>8, <1>9 DEF ChainFrom
    <3> QED
      BY <3>2, <1>0, <1>9 DEF HeadInv
  <2>6. Linked(Records \cup {pen})
    BY <2>2, <2>5, <1>8, <1>9 DEF ChainFrom, Linked
  <2>7. \A r \in Records \cup {pen} : r.seq = pen.seq => r.rev = pen.rev
    BY <2>2, <1>9
  <2>8. Behind(lo) => Behind(lo)'
    <3>1. SUFFICES ASSUME Behind(lo) PROVE Behind(lo)'
      OBVIOUS
    <3>2. lo = snap.seq + 1 /\ Top' # snap.seq
      BY <3>1, <2>3, <1>7, <1>9 DEF Behind
    <3>3. ASSUME pen.seq = lo PROVE pen.prev = snap.chk /\ pen.rev > snap.rev
      <4>1. run.head = snap.seq
        BY <3>2, <3>3, <1>9
      <4>2. snap.chk = pen.prev
        BY <4>1, <3>1, <1>9 DEF Behind
      <4> QED
        BY <4>2, <1>0, <1>9 DEF HeadInv
    <3>4. \A r \in Records \cup {pen} : r.seq = lo => r.prev = snap.chk /\ r.rev > snap.rev
      BY <3>1, <3>3 DEF Behind
    <3> QED
      BY <3>2, <3>4, <1>6 DEF Behind
  <2>9. Whole(lo) => Whole(lo)'
    BY <2>2, <2>3, <1>6, <1>7, <1>9 DEF Whole
  <2>10. ~Passed(lo)
    BY DEF Passed
  <2> QED
    BY <1>6, <1>7, <1>8, <1>9, <2>3, <2>4, <2>6, <2>7, <2>8, <2>9, <2>10 DEF ChainFrom
<1>15. ValueInv'
  BY <1>0, <1>10 DEF ValueInv, Settled, Accounted
<1> QED
  BY <1>3, <1>5, <1>7, <1>8, <1>10, <1>12, <1>13, <1>14, <1>15 DEF ChainInv

(***************************************************************************)
(* The writes that move the head, replace the snapshot or drop records.    *)
(***************************************************************************)
(* The run-state takes the record that landed as its head.                  *)
LEMMA Settles ==
  ASSUME JournalInv, Landed, snap' = snap, files' = files, nextRev' = nextRev, acked' = acked, folded' = folded,
         run' = [run EXCEPT !.head = run.pending.seq, !.chk = run.pending.rev, !.pending = None, !.path = NoPath]
  PROVE  /\ run' \in RunState /\ run'.pending = None /\ run'.rev = run.rev /\ run'.segs = run.segs
         /\ Newest' = Newest /\ Value' = Value
         /\ FilesInv' /\ HeadInv' /\ ChainInv' /\ ValueInv'
<1> DEFINE pen == run.pending
<1>0. JournalTypes /\ FilesInv /\ HeadInv /\ ChainInv /\ ValueInv
  BY DEF JournalInv
<1>1. pen # None /\ pen \in Entry /\ pen \in Records
  BY <1>0 DEF Landed, JournalTypes, RunState
<1>2. /\ run'.head = pen.seq /\ run'.chk = pen.rev /\ run'.pending = None /\ run'.path = NoPath
      /\ run'.rev = run.rev /\ run'.segs = run.segs /\ run'.turns = run.turns
  BY <1>0 DEF JournalTypes, RunState
<1>3. run' \in RunState
  BY <1>0, <1>1 DEF JournalTypes, RunState, Entry
<1>4. Records' = Records
  BY <1>2 DEF Records
<1>5. ~Landed' /\ Newest = pen.seq /\ Top = pen.seq /\ TopChk = pen.rev
  BY <1>1, <1>2 DEF Landed, Newest, Top, TopChk
<1>6. Newest' = Newest /\ Top' = Top /\ TopChk' = TopChk
  BY <1>2, <1>5 DEF Newest, Top, TopChk
<1>7. Value' = Value
  BY <1>1, <1>2, <1>4, <1>6 DEF Value, Landed
<1>9. FilesInv'
  <2>1. run.path \in DOMAIN files
    BY <1>0 DEF FilesInv
  <2>2. \A p \in run.segs : p \in DOMAIN files
    BY <1>0, <2>1 DEF FilesInv
  <2> QED
    BY <1>0, <1>2, <1>5, <1>6, <2>2 DEF FilesInv
<1>10. HeadInv'
  BY <1>0, <1>1, <1>2, <1>6 DEF HeadInv
<1>11. PICK lo \in 1..MaxRev + 1 : ChainFrom(lo)
  BY <1>0 DEF ChainInv
<1>12. ~Passed(lo)
  BY <1>1 DEF Passed
<1>13. Behind(lo) => Behind(lo)'
  BY <1>4, <1>6 DEF Behind
<1>14. Whole(lo) => Whole(lo)'
  BY <1>4, <1>6 DEF Whole
<1>15. ChainFrom(lo)'
  BY <1>4, <1>6, <1>11, <1>12, <1>13, <1>14 DEF ChainFrom, Numbered, Linked
<1>16. ValueInv'
  BY <1>0, <1>2, <1>7 DEF ValueInv, Settled, Accounted
<1> QED
  BY <1>2, <1>3, <1>6, <1>7, <1>9, <1>10, <1>11, <1>15, <1>16 DEF ChainInv

(* A turn that has ended stays as it is, whatever an operation does.        *)
LEMMA EndedStays ==
  ASSUME NEW m, NEW n, Allowed(StatesOf(m), StatesOf(n)), NEW t \in DOMAIN m, m[t].st \in Terminal
  PROVE  t \in DOMAIN n /\ n[t].st = m[t].st
<1> DEFINE a == StatesOf(m)
           b == StatesOf(n)
<1>1. DOMAIN a = DOMAIN m /\ DOMAIN b = DOMAIN n /\ a[t] = m[t].st /\ (t \in DOMAIN n => b[t] = n[t].st)
  BY DEF StatesOf
<1> HIDE DEF a, b
<1>2. t \in DOMAIN a /\ a[t] \in Terminal
  BY <1>1
<1>3. ASSUME NEW u \in Turn, NEW st, Sets(a, b, u, st), u \notin DOMAIN a \/ a[u] \notin Terminal
      PROVE  t \in DOMAIN b /\ b[t] = a[t]
  BY <1>2, <1>3 DEF Sets
<1>4. Allowed(a, b)
  BY DEF a, b
<1>5. t \in DOMAIN b /\ b[t] = a[t]
  <2>1. CASE \E u \in Turn \ DOMAIN a : Sets(a, b, u, "queued") \/ (FreeIn(a, u) /\ Sets(a, b, u, "active"))
    BY <2>1, <1>3
  <2>2. CASE \E u \in DOMAIN a \cap Turn :
              \/ a[u] \in {"queued", "paused"} /\ FreeIn(a, u) /\ Sets(a, b, u, "active")
              \/ a[u] \in {"queued", "paused", "active"} /\ Sets(a, b, u, "cancelRequested")
              \/ a[u] \notin Terminal /\ Sets(a, b, u, "cancelled")
              \/ /\ a[u] \notin Terminal \cup {"cancelRequested"}
                 /\ Sets(a, b, u, "completed") \/ Sets(a, b, u, "failed")
    <3>1. PICK u \in DOMAIN a \cap Turn :
            a[u] \notin Terminal /\ \E st : Sets(a, b, u, st)
      BY <2>2 DEF Terminal
    <3> QED
      BY <3>1, <1>3
  <2>3. CASE b = [u \in DOMAIN a |-> CASE a[u] = "queued" -> "paused" [] a[u] \in Busy -> "interrupted" [] OTHER -> a[u]]
    <3>1. a[t] # "queued" /\ a[t] \notin Busy
      BY <1>2 DEF Terminal, Busy
    <3> QED
      BY <2>3, <3>1, <1>2
  <2>4. CASE b = a
    BY <2>4, <1>2
  <2> QED
    BY <1>4, <2>1, <2>2, <2>3, <2>4 DEF Allowed
<1> QED
  BY <1>1, <1>5

(* The announcement commits the operation: the value becomes what the       *)
(* operation computed.                                                     *)
LEMMA Announces ==
  ASSUME JournalInv, OpAt("announce"), snap' = snap, files' = files, nextRev' = nextRev, acked' = acked, folded' = folded,
         run' = [run EXCEPT !.rev = op.rec.rev, !.turns = TailOf(op.conv.turns, snap.conv.turns),
                            !.segs = @ \cup {op.path}, !.pending = op.rec, !.path = op.path]
  PROVE  /\ run' \in RunState /\ run'.pending = op.rec /\ run'.path = op.path
         /\ Value' = op.conv
         /\ \A t \in DOMAIN op.rec.text :
              op.rec.text[t] <= run'.rev /\ t \in DOMAIN op.conv.text /\ op.conv.text[t] >= op.rec.text[t]
         /\ FilesInv' /\ HeadInv' /\ ChainInv' /\ ValueInv'
<1> DEFINE rec == op.rec
<1>0. JournalTypes /\ FilesInv /\ HeadInv /\ ChainInv /\ ValueInv /\ OpInv
  BY DEF JournalInv
<1>1. op \in Operation /\ run.pending = None /\ Prepared
  BY <1>0 DEF OpAt, OpInv, JournalTypes
<1>2. rec \in Entry /\ op.path \in Path /\ op.conv \in Contents
  BY <1>1 DEF Operation
<1>3. /\ run'.rev = rec.rev /\ run'.turns = TailOf(op.conv.turns, snap.conv.turns)
      /\ run'.segs = run.segs \cup {op.path} /\ run'.pending = rec /\ run'.path = op.path
      /\ run'.head = run.head /\ run'.chk = run.chk
  BY <1>0 DEF JournalTypes, RunState
<1>4. snap.conv.turns \in TurnsMap /\ op.conv.turns \in TurnsMap /\ run.turns \in TurnsMap
      /\ rec.turns \in TurnsMap /\ Value.turns \in TurnsMap
  BY <1>0, <1>2 DEF JournalTypes, Snapshot, RunState, Contents, Entry, ValueInv
<1>5. run' \in RunState
  <2>1. TailOf(op.conv.turns, snap.conv.turns) \in TurnsMap
    BY <1>4, TailOfIs
  <2>2. rec.rev \in Revisions /\ run.segs \cup {op.path} \in SUBSET Path
    BY <1>0, <1>2 DEF JournalTypes, RunState, Entry
  <2> QED
    BY <1>0, <1>2, <2>1, <2>2 DEF JournalTypes, RunState
<1>6. Records' = Records
  <2>1. run'.segs \cap DOMAIN files = run.segs \cap DOMAIN files
    BY <1>1, <1>3 DEF Prepared
  <2> QED
    BY <2>1 DEF Records
<1>7. PICK lo \in 1..MaxRev + 1 : ChainFrom(lo)
  BY <1>0 DEF ChainInv
<1>8. /\ lo \in Nat /\ run.head \in Nat /\ run.rev \in Nat /\ nextRev \in Nat
      /\ rec.seq \in Nat /\ rec.rev \in Nat /\ rec # None
  BY <1>0, <1>2, NumbersTyped, EntryIs
<1>9. Newest = run.head /\ Top = run.head /\ TopChk = run.chk /\ run.rev = run.chk
  BY <1>0, <1>1 DEF Newest, Top, TopChk, Landed, HeadInv
<1>10. rec.seq = run.head + 1 /\ rec.prev = run.rev /\ rec.rev > run.rev /\ rec.rev < nextRev
  BY <1>1, <1>9 DEF Prepared
<1>11. rec \notin Records
  BY <1>7, <1>8, <1>9, <1>10 DEF ChainFrom, Numbered
<1>12. ~Landed' /\ Newest' = rec.seq /\ Top' = Top /\ TopChk' = TopChk
  BY <1>3, <1>6, <1>8, <1>9, <1>11 DEF Landed, Newest, Top, TopChk
<1>13. Value' = op.conv
  <2>1. Value = Replay(snap, Records)[Top]
    BY <1>1 DEF Value
  <2>2. Value' = Apply(Replay(snap, Records)[Top], rec)
    BY <1>3, <1>6, <1>8, <1>12 DEF Value
  <2>3. op.conv = Apply(Value, rec)
    BY <1>1 DEF Prepared
  <2> QED
    BY <2>1, <2>2, <2>3
<1>14. /\ op.conv \in Contents /\ op.conv.rev = rec.rev
       /\ op.conv.turns = Over(rec.turns, Value.turns) /\ op.conv.text = Over(rec.text, Value.text)
  BY <1>0, <1>1, <1>2, ApplyIs DEF Prepared, ValueInv
<1>19. /\ rec.text \in TextMap /\ Value.text \in TextMap
       /\ DOMAIN op.conv.text = DOMAIN rec.text \cup DOMAIN Value.text
       /\ \A t \in DOMAIN rec.text : op.conv.text[t] = rec.text[t]
       /\ \A t \in DOMAIN Value.text \ DOMAIN rec.text : op.conv.text[t] = Value.text[t]
  <2>1. rec.text \in TextMap /\ Value.text \in TextMap
    BY <1>0, <1>2 DEF Entry, Contents, ValueInv
  <2>2. /\ DOMAIN Over(rec.text, Value.text) = DOMAIN rec.text \cup DOMAIN Value.text
        /\ \A t \in DOMAIN rec.text \cup DOMAIN Value.text :
             Over(rec.text, Value.text)[t] = IF t \in DOMAIN rec.text THEN rec.text[t] ELSE Value.text[t]
    BY <2>1, OverText
  <2> QED
    BY <2>1, <2>2, <1>14
<1>20. \A t \in DOMAIN rec.text :
         /\ rec.text[t] = rec.rev /\ t \in DOMAIN op.conv.turns
         /\ t \in DOMAIN Value.turns => Value.turns[t].st \notin Terminal
  BY <1>1 DEF Prepared
<1>21. \A t \in DOMAIN rec.text :
         rec.text[t] <= run'.rev /\ t \in DOMAIN op.conv.text /\ op.conv.text[t] >= rec.text[t]
  BY <1>3, <1>8, <1>19, <1>20
<1>15. FilesInv'
  <2>1. op.path[2] \in Nat
    BY <1>2, NumbersTyped, <1>0 DEF Path
  <2>2. \A p \in DOMAIN files \cup run.segs : p[2] \in Nat /\ p[2] <= run.head
    BY <1>0, <1>9, NumbersTyped DEF FilesInv, JournalTypes, RunState, Path
  <2>3. \A p \in DOMAIN files \cup run'.segs : p[2] <= rec.seq /\ rec.seq > 0
    BY <2>1, <2>2, <1>1, <1>3, <1>8, <1>10 DEF Prepared
  <2>4. run'.segs \cap DOMAIN files = run.segs \cap DOMAIN files
    BY <1>1, <1>3 DEF Prepared
  <2>5. \A p \in run.segs : p \in DOMAIN files
    BY <1>0, <1>1 DEF FilesInv
  <2>6. \A p \in run'.segs : p \in DOMAIN files \/ p = run'.path
    BY <2>5, <1>3
  <2>7. run'.path \in run'.segs
    BY <1>3
  <2>8. \A p, q \in run'.segs \cap DOMAIN files : \A i \in DOMAIN files[p], j \in DOMAIN files[q] :
          files[p][i].seq = files[q][j].seq => p = q /\ i = j
    BY <2>4, <1>0 DEF FilesInv
  <2> QED
    BY <2>3, <2>6, <2>7, <2>8, <1>3, <1>8, <1>12 DEF FilesInv
<1>16. HeadInv'
  <2>1. op.path # NoPath
    BY <1>2, JournalAssumption DEF Path, Keys, NoPath
  <2>2. run.head <= run.rev
    BY <1>0, <1>9 DEF HeadInv
  <2>3. rec.seq <= rec.rev /\ run.head = rec.seq - 1
    BY <2>2, <1>8, <1>10
  <2> QED
    BY <1>0, <1>3, <1>8, <1>9, <1>10, <1>12, <2>1, <2>3 DEF HeadInv
<1>17. ChainFrom(lo)'
  <2>1. ~Passed(lo)
    BY DEF Passed, OpAt
  <2>2. Behind(lo) => Behind(lo)'
    BY <1>6, <1>12 DEF Behind
  <2>3. Whole(lo) => Whole(lo)'
    BY <1>6, <1>12 DEF Whole
  <2> QED
    BY <1>6, <1>7, <1>12, <2>1, <2>2, <2>3 DEF ChainFrom, Numbered, Linked
<1>18. ValueInv'
  <2>1. Value.turns = Over(run.turns, snap.conv.turns)
    BY <1>0 DEF ValueInv, Materialize
  <2>2. op.conv.turns = Over(rec.turns, Value.turns) /\ op.conv.rev = rec.rev
    BY <1>14
  <2>3. DOMAIN Value.turns = DOMAIN run.turns \cup DOMAIN snap.conv.turns
    <3>1. DOMAIN Over(run.turns, snap.conv.turns) = DOMAIN run.turns \cup DOMAIN snap.conv.turns
      BY <1>4, OverIs
    <3> QED
      BY <2>1, <3>1
  <2>4. DOMAIN op.conv.turns = DOMAIN rec.turns \cup DOMAIN Value.turns
    <3>1. DOMAIN Over(rec.turns, Value.turns) = DOMAIN rec.turns \cup DOMAIN Value.turns
      BY <1>4, OverIs
    <3> QED
      BY <2>2, <3>1
  <2>5. DOMAIN snap.conv.turns \subseteq DOMAIN op.conv.turns
    BY <2>3, <2>4
  <2>6. Materialize(snap.conv.turns, run'.turns) = op.conv.turns
    BY <2>5, <1>3, <1>4, TailMaterializes
  <2>7. Value'.rev = run'.rev
    BY <2>2, <1>3, <1>13
  <2>8. \A t \in DOMAIN Value.turns :
          Value.turns[t].st \in Terminal => t \in DOMAIN op.conv.turns /\ op.conv.turns[t].st = Value.turns[t].st
    BY <1>1, EndedStays DEF Prepared
  <2>9. DOMAIN op.conv.text \subseteq DOMAIN op.conv.turns
    BY <2>4, <1>0, <1>19, <1>20 DEF ValueInv
  <2>10. Settled(Value)'
    <3>1. SUFFICES ASSUME NEW t \in DOMAIN snap.conv.text
                   PROVE  /\ t \in DOMAIN op.conv.turns
                          /\ t \notin folded => /\ op.conv.turns[t].st \in Terminal /\ t \in DOMAIN op.conv.text
                                                /\ op.conv.text[t] = snap.conv.text[t]
      BY <1>13 DEF Settled
    <3>2. /\ t \in DOMAIN Value.turns
          /\ t \notin folded => /\ Value.turns[t].st \in Terminal /\ t \in DOMAIN Value.text
                                /\ Value.text[t] = snap.conv.text[t]
      BY <1>0 DEF ValueInv, Settled
    <3>3. t \notin folded => t \notin DOMAIN rec.text
      BY <3>2, <1>20
    <3> QED
      BY <3>2, <3>3, <2>4, <2>8, <1>19
  <2>11. Accounted(acked, Value)'
    <3>1. SUFFICES ASSUME NEW t \in DOMAIN acked
                   PROVE  /\ acked[t] <= rec.rev
                          /\ \/ t \in DOMAIN op.conv.text /\ op.conv.text[t] >= acked[t]
                             \/ t \in folded /\ t \in DOMAIN op.conv.turns /\ op.conv.turns[t].st \in Terminal
      BY <1>3, <1>13 DEF Accounted
    <3>2. /\ acked[t] <= run.rev
          /\ \/ t \in DOMAIN Value.text /\ Value.text[t] >= acked[t]
             \/ t \in folded /\ t \in DOMAIN Value.turns /\ Value.turns[t].st \in Terminal
      BY <1>0 DEF ValueInv, Accounted
    <3>3. acked[t] \in Nat
      BY <1>0, TextIs, NumbersTyped DEF JournalTypes
    <3>4. acked[t] <= rec.rev
      BY <3>2, <3>3, <1>8, <1>10
    <3>5. CASE t \in DOMAIN rec.text
      BY <3>4, <3>5, <1>8, <1>19, <1>20
    <3>6. CASE t \notin DOMAIN rec.text
      BY <3>2, <3>4, <3>6, <2>8, <1>19
    <3> QED
      BY <3>5, <3>6
  <2> QED
    BY <2>6, <2>7, <2>9, <2>10, <2>11, <1>2, <1>13 DEF ValueInv
<1> QED
  BY <1>3, <1>5, <1>7, <1>13, <1>15, <1>16, <1>17, <1>18, <1>21 DEF ChainInv

(* A new snapshot of the value, with the old chunks where the loader left    *)
(* them alone.                                                              *)
LEMMA Swaps ==
  ASSUME JournalInv, Sound, run.pending = None, run' = run, files' = files, nextRev' = nextRev, acked' = acked,
         folded' = folded \cup Unended(Conv.turns), op'.at = "trim",
         NEW text \in TextMap,
         \/ text = Conv.text
         \/ text = Over(snap.conv.text, Conv.text) /\ Unended(Conv.turns) \cap DOMAIN snap.conv.text = {},
         snap' = [rev |-> Conv.rev, seq |-> HeadSeq, chk |-> HeadChk, conv |-> [Conv EXCEPT !.text = text]]
  PROVE  /\ snap' \in Snapshot /\ snap'.seq = Top /\ snap'.rev = run.rev
         /\ Newest' = Newest /\ Top' = Top
         /\ Value'.turns = Value.turns /\ Value'.rev = Value.rev
         /\ \A m \in TextMap : Accounted(m, Value) => Accounted(m, Value)'
         /\ FilesInv' /\ HeadInv' /\ ChainInv' /\ ValueInv'
<1>0. JournalTypes /\ FilesInv /\ HeadInv /\ ChainInv /\ ValueInv
  BY DEF JournalInv
<1>1. Conv = Value
  BY LoadsValue
<1>2. PICK lo \in 1..MaxRev + 1 : ChainFrom(lo)
  BY <1>0 DEF ChainInv
<1>3. HeadSeq = Top /\ HeadChk = TopChk
  BY <1>0, <1>2, HeadsAre DEF Sound
<1>4. Newest = run.head /\ Top = run.head /\ TopChk = run.rev /\ run.rev = run.chk /\ ~Landed
  BY <1>0 DEF Newest, Top, TopChk, Landed, HeadInv
<1> DEFINE v == [Value EXCEPT !.text = text]
<1>5. Value \in Contents /\ Value.rev = run.rev
  BY <1>0 DEF ValueInv
<1>17. v \in Contents /\ v.rev = Value.rev /\ v.turns = Value.turns /\ v.text = text
  BY <1>5 DEF Contents
<1>6. snap'.rev = run.rev /\ snap'.seq = Top /\ snap'.chk = run.rev /\ snap'.conv = v
  BY <1>1, <1>3, <1>4, <1>5
<1> HIDE DEF v
<1>7. snap' \in Snapshot
  <2>1. run.rev \in Revisions /\ run.head \in Revisions
    BY <1>0 DEF JournalTypes, RunState
  <2> QED
    BY <2>1, <1>1, <1>3, <1>4, <1>5, <1>6, <1>17 DEF Snapshot, v
<1>8. Records' = Records
  BY DEF Records
<1>9. ~Landed' /\ Newest' = Newest /\ Top' = Top /\ TopChk' = TopChk
  BY <1>8 DEF Landed, Newest, Top, TopChk
<1>10. lo \in Nat /\ Top \in Nat /\ snap.seq \in Nat /\ run.rev \in Nat /\ run.head \in Nat
  BY <1>0, NumbersTyped
<1>11. Value' = v
  <2>1. Value' = Replay(snap', Records)[Top]
    BY <1>8, <1>9 DEF Value
  <2>2. Replay(snap', Records)[Top] = snap'.conv
    <3>1. snap'.seq \in Nat /\ Top <= snap'.seq
      BY <1>6, <1>10
    <3> QED
      BY <3>1, <1>10, ReplayAt
  <2> QED
    BY <2>1, <2>2, <1>6
<1>12. /\ DOMAIN Value.text \subseteq DOMAIN Value.turns
       /\ Settled(Value) /\ Accounted(acked, Value) /\ Value.text \in TextMap /\ snap.conv.text \in TextMap
  BY <1>0, <1>5 DEF ValueInv, Contents, JournalTypes, Snapshot
<1>18. \A t \in DOMAIN snap.conv.text :
         /\ t \in DOMAIN Value.turns
         /\ t \notin folded => /\ Value.turns[t].st \in Terminal /\ t \in DOMAIN Value.text
                               /\ Value.text[t] = snap.conv.text[t]
  BY <1>12 DEF Settled
<1>20. /\ DOMAIN Value.text \subseteq DOMAIN text /\ DOMAIN text \subseteq DOMAIN Value.turns
       /\ \A t \in DOMAIN Value.text :
            \/ text[t] = Value.text[t]
            \/ t \in folded /\ Value.turns[t].st \in Terminal
  <2>1. CASE text = Conv.text
    BY <2>1, <1>1, <1>12
  <2>2. CASE text = Over(snap.conv.text, Conv.text) /\ Unended(Conv.turns) \cap DOMAIN snap.conv.text = {}
    <3>1. /\ DOMAIN text = DOMAIN snap.conv.text \cup DOMAIN Value.text
          /\ \A t \in DOMAIN snap.conv.text \cup DOMAIN Value.text :
               text[t] = IF t \in DOMAIN snap.conv.text THEN snap.conv.text[t] ELSE Value.text[t]
      <4> DEFINE old == snap.conv.text
                 all == Value.text
      <4>1. old \in TextMap /\ all \in TextMap /\ text = Over(old, all)
        BY <2>2, <1>1, <1>12
      <4> HIDE DEF old, all
      <4>2. /\ DOMAIN Over(old, all) = DOMAIN old \cup DOMAIN all
            /\ \A t \in DOMAIN old \cup DOMAIN all : Over(old, all)[t] = IF t \in DOMAIN old THEN old[t] ELSE all[t]
        BY <4>1, OverText
      <4> QED
        BY <4>1, <4>2 DEF old, all
    <3>2. \A t \in DOMAIN snap.conv.text : Value.turns[t].st \in Terminal
      BY <2>2, <1>1, <1>18 DEF Unended
    <3> QED
      BY <3>1, <3>2, <1>12, <1>18
  <2> QED
    BY <2>1, <2>2
<1>13. FilesInv'
  BY <1>0, <1>9 DEF FilesInv
<1>14. HeadInv'
  BY <1>0, <1>4, <1>5, <1>6, <1>9, <1>17 DEF HeadInv
<1>15. ChainFrom(lo)'
  <2>1. Behind(lo)' \/ Whole(lo)' \/ Passed(lo)'
    <3>1. CASE Records = {}
      <4>1. lo = snap.seq + 1 /\ Top = snap.seq
        BY <3>1, <1>0, <1>2, HeadsAre DEF Sound, Behind
      <4>2. lo = snap'.seq + 1 /\ snap'.chk = TopChk'
        BY <4>1, <1>4, <1>6, <1>9
      <4> QED
        BY <4>2, <3>1, <1>8 DEF Behind
    <3>2. CASE Records # {} /\ lo > 1
      <4>1. lo <= Top
        BY <3>2, <1>0, <1>2, HeadsAre DEF Sound
      <4> QED
        BY <4>1, <3>2, <1>6, <1>9 DEF Passed
    <3>3. CASE Records # {} /\ lo = 1
      <4>1. 1 <= Top
        BY <3>3, <1>0, <1>2, HeadsAre DEF Sound
      <4>2. \A r \in Records : r.seq = 1 => r.prev = 0
        <5>1. CASE Behind(lo)
          <6>1. snap.seq = 0
            BY <3>3, <5>1, <1>10 DEF Behind
          <6>2. snap.chk = 0
            BY <6>1, <1>0 DEF HeadInv
          <6> QED
            BY <5>1, <6>2, <3>3 DEF Behind
        <5>2. CASE Whole(lo)
          BY <5>2 DEF Whole
        <5>3. CASE Passed(lo)
          BY <5>3, <3>3 DEF Passed
        <5> QED
          BY <5>1, <5>2, <5>3, <1>2 DEF ChainFrom
      <4>3. \A r \in Records : r.seq = Top => r.rev = snap'.chk
        BY <1>2, <1>4, <1>6 DEF ChainFrom
      <4> QED
        BY <4>1, <4>2, <4>3, <3>3, <1>6, <1>8, <1>9, <1>10 DEF Whole
    <3> QED
      BY <3>1, <3>2, <3>3, <1>10
  <2>2. lo <= Top + 1
    BY <1>2, <1>10 DEF ChainFrom
  <2> QED
    BY <2>1, <2>2, <1>2, <1>6, <1>8, <1>9, <1>10 DEF ChainFrom, Numbered, Linked
<1>21. ASSUME NEW m \in TextMap, Accounted(m, Value) PROVE Accounted(m, Value)'
  <2>1. SUFFICES ASSUME NEW t \in DOMAIN m
                 PROVE  /\ m[t] <= run.rev
                        /\ \/ t \in DOMAIN text /\ text[t] >= m[t]
                           \/ t \in folded' /\ t \in DOMAIN Value.turns /\ Value.turns[t].st \in Terminal
    BY <1>11, <1>17 DEF Accounted
  <2>2. /\ m[t] <= run.rev
        /\ \/ t \in DOMAIN Value.text /\ Value.text[t] >= m[t]
           \/ t \in folded /\ t \in DOMAIN Value.turns /\ Value.turns[t].st \in Terminal
    BY <1>21 DEF Accounted
  <2> QED
    BY <2>2, <1>12, <1>20
<1>16. ValueInv'
  <2>1. snap.conv.turns \in TurnsMap /\ run.turns \in TurnsMap
    BY <1>0 DEF JournalTypes, Snapshot, RunState, Contents
  <2>2. Value.turns = Over(run.turns, snap.conv.turns)
    BY <1>0 DEF ValueInv, Materialize
  <2>3. Value.turns = Materialize(Value.turns, run.turns)
    BY <2>1, <2>2, OverAgain DEF Materialize
  <2>4. Settled(Value)'
    <3>1. \A t \in DOMAIN text : t \notin folded' => Value.turns[t].st \in Terminal
      BY <1>1, <1>20 DEF Unended
    <3> QED
      BY <3>1, <1>6, <1>11, <1>17, <1>20 DEF Settled
  <2>5. acked \in TextMap
    BY <1>0 DEF JournalTypes
  <2>6. Accounted(acked, Value)'
    BY <2>5, <1>12, <1>21
  <2> QED
    BY <2>3, <2>4, <2>6, <1>5, <1>6, <1>11, <1>17, <1>20 DEF ValueInv
<1> QED
  BY <1>5, <1>6, <1>7, <1>9, <1>11, <1>13, <1>14, <1>15, <1>16, <1>17, <1>21 DEF ChainInv, v

(* What is accounted for twice is so together.                              *)
LEMMA OverAccounted ==
  ASSUME NEW f \in TextMap, NEW g \in TextMap, NEW c, Accounted(f, c), Accounted(g, c)
  PROVE  Over(f, g) \in TextMap /\ Accounted(Over(f, g), c)
<1>1. /\ Over(f, g) \in TextMap /\ DOMAIN Over(f, g) = DOMAIN f \cup DOMAIN g
      /\ \A t \in DOMAIN f \cup DOMAIN g : Over(f, g)[t] = IF t \in DOMAIN f THEN f[t] ELSE g[t]
  BY OverText
<1> QED
  BY <1>1 DEF Accounted

(* The run-state drops the journals that the snapshot has passed.           *)
LEMMA Trims ==
  ASSUME JournalInv, OpAt("trim"), snap' = snap, files' = files, nextRev' = nextRev,
         acked' = Over(op.rec.text, acked), folded' = folded,
         run' = [run EXCEPT !.turns = OpenTurns(snap.conv.turns), !.segs = {}]
  PROVE  /\ run' \in RunState /\ acked' \in TextMap /\ Value' = Value
         /\ FilesInv' /\ HeadInv' /\ ChainInv' /\ ValueInv'
<1>0. JournalTypes /\ FilesInv /\ HeadInv /\ ChainInv /\ ValueInv /\ OpInv
  BY DEF JournalInv
<1>1. run.pending = None /\ Accounted(op.rec.text, Value) /\ snap.seq = Top /\ snap.rev = run.rev
  BY <1>0 DEF OpAt, OpInv
<1>2. /\ run'.rev = run.rev /\ run'.head = run.head /\ run'.chk = run.chk /\ run'.pending = None
      /\ run'.path = run.path /\ run'.segs = {} /\ run'.turns = OpenTurns(snap.conv.turns)
  BY <1>0, <1>1 DEF JournalTypes, RunState
<1>3. snap.conv \in Contents /\ snap.conv.turns \in TurnsMap
  BY <1>0 DEF JournalTypes, Snapshot, Contents
<1>4. OpenTurns(snap.conv.turns) \in TurnsMap
      /\ Materialize(snap.conv.turns, OpenTurns(snap.conv.turns)) = snap.conv.turns
  BY <1>3, OpenIs
<1>5. run' \in RunState
  BY <1>0, <1>4 DEF JournalTypes, RunState
<1>6. Records' = {}
  BY <1>2 DEF Records
<1>7. /\ ~Landed /\ ~Landed' /\ Newest' = Newest /\ Top' = Top /\ Top = run.head /\ Newest = run.head
      /\ TopChk' = run.chk
  BY <1>1, <1>2 DEF Landed, Newest, Top, TopChk
<1>8. Top \in Nat /\ snap.seq \in Nat /\ snap.seq \in Revisions
  BY <1>0, NumbersTyped DEF JournalTypes, Snapshot
<1>9. Value = snap.conv
  <2>1. Value = Replay(snap, Records)[Top]
    BY <1>1 DEF Value
  <2>2. snap.seq \in Nat /\ Top = snap.seq
    BY <1>1, <1>8
  <2>3. Replay(snap, Records)[snap.seq] = snap.conv
    BY <2>2, ReplayAt
  <2> QED
    BY <2>1, <2>2, <2>3
<1>10. Value' = snap.conv
  <2>1. Value' = Replay(snap, Records')[Top]
    BY <1>2, <1>7 DEF Value
  <2> QED
    BY <2>1, <1>1, <1>8, ReplayAt
<1>11. acked' \in TextMap /\ Accounted(acked', Value)
  <2>1. op.rec.text \in TextMap /\ acked \in TextMap
    BY <1>0 DEF OpAt, JournalTypes, Operation, Entry
  <2>2. Over(op.rec.text, acked) \in TextMap /\ Accounted(Over(op.rec.text, acked), Value)
    BY <2>1, <1>0, <1>1, OverAccounted DEF ValueInv
  <2> QED
    BY <2>2
<1>12. FilesInv'
  BY <1>0, <1>2, <1>7 DEF FilesInv
<1>13. HeadInv'
  BY <1>0, <1>1, <1>2, <1>7 DEF HeadInv
<1>14. ChainFrom(snap.seq + 1)'
  <2>1. Numbered({}, snap.seq + 1, Top)
    BY <1>1, <1>8 DEF Numbered
  <2>2. snap.chk = run.chk
    BY <1>0, <1>1 DEF HeadInv
  <2>3. Behind(snap.seq + 1)'
    BY <2>2, <1>6, <1>7 DEF Behind
  <2>4. Linked({})
    BY DEF Linked
  <2> QED
    BY <2>1, <2>3, <2>4, <1>1, <1>6, <1>7, <1>8 DEF ChainFrom
<1>15. snap.seq + 1 \in 1..MaxRev + 1
  BY <1>8, JournalAssumption DEF Revisions
<1>16. ChainInv'
  BY <1>14, <1>15 DEF ChainInv
<1>17. ValueInv'
  <2>1. Accounted(acked, Value)'
    BY <1>2, <1>9, <1>10, <1>11 DEF Accounted
  <2>2. Settled(Value)'
    BY <1>0, <1>9, <1>10 DEF ValueInv, Settled
  <2> QED
    BY <2>1, <2>2, <1>0, <1>1, <1>2, <1>3, <1>4, <1>9, <1>10 DEF ValueInv
<1> QED
  BY <1>5, <1>9, <1>10, <1>11, <1>12, <1>13, <1>16, <1>17

(***************************************************************************)
(* The steps of an operation.                                              *)
(***************************************************************************)
(* A step of an operation goes on to the next and keeps what it carries.     *)
LEMMA GotoIs ==
  ASSUME op \in Operation, NEW s \in Stage, Goto(s)
  PROVE  /\ op' \in Operation /\ op'.at = s /\ op' # NoOp
         /\ op'.rec = op.rec /\ op'.conv = op.conv /\ op'.path = op.path /\ op'.compacts = op.compacts
<1>1. op' \in Operation /\ op'.at = s
      /\ op'.rec = op.rec /\ op'.conv = op.conv /\ op'.path = op.path /\ op'.compacts = op.compacts
  BY DEF Operation, Goto
<1>2. s # "none"
  BY DEF Stage
<1> QED
  BY <1>1, <1>2 DEF NoOp

(* The operation in progress has its type.                                   *)
LEMMA OpTyped ==
  ASSUME JournalTypes, op # NoOp
  PROVE  op \in Operation /\ op.at \in Stage /\ op.rec \in Entry /\ op.rec # None /\ op.conv \in Contents /\ op.path \in Path
<1>1. op \in Operation
  BY DEF JournalTypes
<1>2. op.at \in Stage /\ op.rec \in Entry /\ op.conv \in Contents /\ op.path \in Path
  BY <1>1 DEF Operation
<1> QED
  BY <1>1, <1>2, EntryIs

(* Appending the record that an earlier operation announced.                 *)
LEMMA FinishAppendKeeps == ASSUME JournalInv, FinishAppend PROVE JournalInv' /\ Value' = Value
<1>0. JournalTypes /\ FilesInv /\ HeadInv /\ ChainInv /\ ValueInv /\ OpInv
  BY DEF JournalInv
<1>1. op # NoOp /\ op.at = "finishAppend" /\ Prepared /\ run.pending # None /\ run.path \in DOMAIN files
  BY <1>0 DEF FinishAppend, OpAt, OpInv
<1>2. /\ snap' = snap /\ run' = run /\ meta' = meta /\ nextRev' = nextRev /\ marked' = marked /\ acked' = acked /\ folded' = folded
      /\ mode' = mode /\ files' = Appended(run.path, run.pending)
  BY DEF FinishAppend
<1>3. op \in Operation
  BY <1>0, <1>1, OpTyped
<1>4. /\ op' \in Operation /\ op'.at = "finishRun" /\ op' # NoOp
      /\ op'.rec = op.rec /\ op'.conv = op.conv /\ op'.path = op.path
  BY <1>3, GotoIs DEF FinishAppend, Stage
<1>5. /\ Landed' /\ Newest' = Newest /\ Value' = Value
      /\ DOMAIN files' = DOMAIN files /\ DOMAIN files' \subseteq Path
      /\ \A p \in DOMAIN files' : files'[p] \in Seq(Entry)
      /\ FilesInv' /\ HeadInv' /\ ChainInv' /\ ValueInv'
  <2>1. CASE ~Landed
    <3>1. DOMAIN files \cup {run.path} = DOMAIN files
      BY <1>1
    <3> QED
      BY <2>1, <3>1, <1>1, <1>2, Lands
  <2>2. CASE Landed
    <3>1. files' = files
      BY <2>2, <1>0, <1>2 DEF FilesInv, Appended
    <3>2. Landed' /\ Newest' = Newest /\ Value' = Value
      BY <2>2, <3>1, <1>2, DiskStays
    <3>3. Accounted(acked, Value) /\ nextRev \in Nat
      BY <1>0, NumbersTyped DEF ValueInv
    <3>4. FilesInv' /\ HeadInv' /\ ChainInv' /\ ValueInv'
      BY <3>1, <3>3, <1>1, <1>2, DiskKeeps
    <3> QED
      BY <3>1, <3>2, <3>4, <1>0 DEF JournalTypes
  <2> QED
    BY <2>1, <2>2
<1>6. JournalTypes'
  BY <1>0, <1>2, <1>4, <1>5 DEF JournalTypes
<1>7. Prepared'
  BY <1>1, <1>2, <1>4, <1>5 DEF Prepared
<1>8. OpInv'
  BY <1>1, <1>2, <1>4, <1>5, <1>7 DEF OpInv
<1> QED
  BY <1>5, <1>6, <1>8 DEF JournalInv

(* The run-state that takes over that record.                                *)
LEMMA FinishRunKeeps == ASSUME JournalInv, FinishRun PROVE JournalInv' /\ Value' = Value
<1>0. JournalTypes /\ FilesInv /\ HeadInv /\ ChainInv /\ ValueInv /\ OpInv
  BY DEF JournalInv
<1>1. op # NoOp /\ op.at = "finishRun" /\ Prepared /\ Landed
  BY <1>0 DEF FinishRun, OpAt, OpInv
<1>2. /\ snap' = snap /\ files' = files /\ meta' = meta /\ nextRev' = nextRev /\ marked' = marked /\ acked' = acked /\ folded' = folded
      /\ mode' = mode
      /\ run' = [run EXCEPT !.head = run.pending.seq, !.chk = run.pending.rev, !.pending = None, !.path = NoPath]
  BY DEF FinishRun
<1>3. op \in Operation
  BY <1>0, <1>1, OpTyped
<1>4. /\ op' \in Operation /\ op'.at = "announce" /\ op' # NoOp
      /\ op'.rec = op.rec /\ op'.conv = op.conv /\ op'.path = op.path
  BY <1>3, GotoIs DEF FinishRun, Stage
<1>5. /\ run' \in RunState /\ run'.pending = None /\ run'.rev = run.rev /\ run'.segs = run.segs
      /\ Newest' = Newest /\ Value' = Value
      /\ FilesInv' /\ HeadInv' /\ ChainInv' /\ ValueInv'
  BY <1>1, <1>2, Settles
<1>6. JournalTypes'
  BY <1>0, <1>2, <1>4, <1>5 DEF JournalTypes
<1>7. Prepared'
  BY <1>1, <1>2, <1>4, <1>5 DEF Prepared
<1>8. OpInv'
  BY <1>2, <1>4, <1>5, <1>7 DEF OpInv
<1> QED
  BY <1>5, <1>6, <1>8 DEF JournalInv

(* The announcement, the one write that changes the conversation.            *)
LEMMA AnnounceKeeps ==
  ASSUME JournalInv, Announce PROVE JournalInv' /\ Value' = op.conv
<1>0. JournalTypes /\ FilesInv /\ HeadInv /\ ChainInv /\ ValueInv /\ OpInv
  BY DEF JournalInv
<1>1. op # NoOp /\ op.at = "announce" /\ OpAt("announce")
  BY DEF Announce, OpAt
<1>2. /\ snap' = snap /\ files' = files /\ meta' = meta /\ nextRev' = nextRev /\ marked' = marked /\ acked' = acked /\ folded' = folded
      /\ mode' = mode
      /\ run' = [run EXCEPT !.rev = op.rec.rev, !.turns = TailOf(op.conv.turns, snap.conv.turns),
                            !.segs = @ \cup {op.path}, !.pending = op.rec, !.path = op.path]
  BY DEF Announce
<1>3. op \in Operation
  BY <1>0, <1>1, OpTyped
<1>4. /\ op' \in Operation /\ op'.at = "append" /\ op' # NoOp
      /\ op'.rec = op.rec /\ op'.conv = op.conv /\ op'.path = op.path
  BY <1>3, GotoIs DEF Announce, Stage
<1>5. /\ run' \in RunState /\ run'.pending = op.rec /\ run'.path = op.path
      /\ Value' = op.conv
      /\ \A t \in DOMAIN op.rec.text :
           op.rec.text[t] <= run'.rev /\ t \in DOMAIN op.conv.text /\ op.conv.text[t] >= op.rec.text[t]
      /\ FilesInv' /\ HeadInv' /\ ChainInv' /\ ValueInv'
  BY <1>1, <1>2, Announces
<1>6. JournalTypes'
  BY <1>0, <1>2, <1>4, <1>5 DEF JournalTypes
<1>7. OpInv'
  <2>1. Accounted(op.rec.text, Value)'
    BY <1>4, <1>5 DEF Accounted
  <2> QED
    BY <2>1, <1>4, <1>5 DEF OpInv
<1> QED
  BY <1>5, <1>6, <1>7 DEF JournalInv

(* Appending the record of the operation itself.                             *)
LEMMA AppendRecordKeeps == ASSUME JournalInv, AppendRecord PROVE JournalInv' /\ Value' = Value
<1>0. JournalTypes /\ FilesInv /\ HeadInv /\ ChainInv /\ ValueInv /\ OpInv
  BY DEF JournalInv
<1>1. op # NoOp /\ op.at = "append" /\ run.pending = op.rec /\ run.path = op.path
  BY <1>0 DEF AppendRecord, OpAt, OpInv
<1>2. /\ snap' = snap /\ run' = run /\ meta' = meta /\ nextRev' = nextRev /\ marked' = marked /\ acked' = acked /\ folded' = folded
      /\ mode' = mode /\ files' = Appended(run.path, run.pending)
  BY <1>1 DEF AppendRecord
<1>3. op \in Operation /\ op.rec # None
  BY <1>0, <1>1, OpTyped
<1>4. /\ op' \in Operation /\ op'.at = "finalize" /\ op' # NoOp
      /\ op'.rec = op.rec /\ op'.conv = op.conv /\ op'.path = op.path
  BY <1>3, GotoIs DEF AppendRecord, Stage
<1>5. /\ Landed' /\ Value' = Value
      /\ DOMAIN files' \subseteq Path
      /\ \A p \in DOMAIN files' : files'[p] \in Seq(Entry)
      /\ FilesInv' /\ HeadInv' /\ ChainInv' /\ ValueInv'
  <2>1. CASE ~Landed
    BY <2>1, <1>1, <1>2, <1>3, Lands
  <2>2. CASE Landed
    <3>1. files' = files
      BY <2>2, <1>0, <1>2 DEF FilesInv, Appended
    <3>2. Landed' /\ Value' = Value
      BY <2>2, <3>1, <1>2, DiskStays
    <3>3. Accounted(acked, Value) /\ nextRev \in Nat
      BY <1>0, NumbersTyped DEF ValueInv
    <3>4. FilesInv' /\ HeadInv' /\ ChainInv' /\ ValueInv'
      BY <3>1, <3>3, <1>1, <1>2, DiskKeeps
    <3> QED
      BY <3>1, <3>2, <3>4, <1>0 DEF JournalTypes
  <2> QED
    BY <2>1, <2>2
<1>6. JournalTypes'
  BY <1>0, <1>2, <1>4, <1>5 DEF JournalTypes
<1>7. OpInv'
  <2>1. Accounted(op.rec.text, Value)'
    BY <1>0, <1>1, <1>2, <1>4, <1>5 DEF OpInv, Accounted
  <2> QED
    BY <2>1, <1>1, <1>2, <1>4, <1>5 DEF OpInv
<1> QED
  BY <1>5, <1>6, <1>7 DEF JournalInv

(* The run-state that takes over that record.                                *)
LEMMA FinalizeRunKeeps == ASSUME JournalInv, FinalizeRun PROVE JournalInv' /\ Value' = Value
<1>0. JournalTypes /\ FilesInv /\ HeadInv /\ ChainInv /\ ValueInv /\ OpInv
  BY DEF JournalInv
<1>1. op # NoOp /\ op.at = "finalize" /\ run.pending = op.rec /\ Landed
  BY <1>0 DEF FinalizeRun, OpAt, OpInv
<1>2. /\ snap' = snap /\ files' = files /\ meta' = meta /\ nextRev' = nextRev /\ marked' = marked /\ acked' = acked /\ folded' = folded
      /\ mode' = mode
      /\ run' = [run EXCEPT !.head = run.pending.seq, !.chk = run.pending.rev, !.pending = None, !.path = NoPath]
  BY <1>1 DEF FinalizeRun
<1>3. op \in Operation
  BY <1>0, <1>1, OpTyped
<1>4. /\ op' \in Operation /\ op'.at = "meta" /\ op' # NoOp
      /\ op'.rec = op.rec /\ op'.conv = op.conv /\ op'.path = op.path
  BY <1>3, GotoIs DEF FinalizeRun, Stage
<1>5. /\ run' \in RunState /\ run'.pending = None
      /\ Value' = Value
      /\ FilesInv' /\ HeadInv' /\ ChainInv' /\ ValueInv'
  BY <1>1, <1>2, Settles
<1>6. JournalTypes'
  BY <1>0, <1>2, <1>4, <1>5 DEF JournalTypes
<1>7. Accounted(op.rec.text, Value)'
  BY <1>0, <1>1, <1>2, <1>4, <1>5 DEF OpInv, Accounted
<1>8. OpInv'
  BY <1>4, <1>5, <1>7 DEF OpInv
<1> QED
  BY <1>5, <1>6, <1>8 DEF JournalInv

(* Writing the metadata.                                                     *)
LEMMA WriteMetaKeeps == ASSUME JournalInv, WriteMeta PROVE JournalInv' /\ Value' = Value
<1>0. JournalTypes /\ FilesInv /\ HeadInv /\ ChainInv /\ ValueInv /\ OpInv
  BY DEF JournalInv
<1>1. op # NoOp /\ op.at = "meta" /\ run.pending = None /\ Accounted(op.rec.text, Value)
  BY <1>0 DEF WriteMeta, OpAt, OpInv
<1>2. /\ snap' = snap /\ run' = run /\ files' = files /\ nextRev' = nextRev /\ marked' = marked /\ acked' = acked /\ folded' = folded
      /\ mode' = mode /\ meta' = [rev |-> op.conv.rev, arch |-> op.conv.arch]
  BY DEF WriteMeta
<1>3. op \in Operation /\ op.conv \in Contents
  BY <1>0, <1>1, OpTyped
<1>4. /\ op' \in Operation /\ op'.at = "publish" /\ op' # NoOp /\ op'.rec = op.rec
  BY <1>3, GotoIs DEF WriteMeta, Stage
<1>5. Accounted(acked, Value) /\ nextRev \in Nat
  BY <1>0, NumbersTyped DEF ValueInv
<1>6. FilesInv' /\ HeadInv' /\ ChainInv' /\ ValueInv'
  BY <1>1, <1>2, <1>5, DiskKeeps
<1>7. Value' = Value
  BY <1>2, DiskStays
<1>8. JournalTypes'
  BY <1>0, <1>2, <1>3, <1>4 DEF JournalTypes, Contents
<1>9. OpInv'
  <2>1. Accounted(op.rec.text, Value)'
    BY <1>1, <1>2, <1>4, <1>7 DEF Accounted
  <2> QED
    BY <2>1, <1>1, <1>2, <1>4 DEF OpInv
<1> QED
  BY <1>6, <1>7, <1>8, <1>9 DEF JournalInv

(* Publishing the catalog entry; the operation may then be reported as done. *)
LEMMA PublishKeeps == ASSUME JournalInv, Publish PROVE JournalInv' /\ Value' = Value
<1>0. JournalTypes /\ FilesInv /\ HeadInv /\ ChainInv /\ ValueInv /\ OpInv
  BY DEF JournalInv
<1>1. op # NoOp /\ op.at = "publish" /\ run.pending = None /\ Accounted(op.rec.text, Value)
  BY <1>0 DEF Publish, OpAt, OpInv
<1>2. /\ snap' = snap /\ run' = run /\ files' = files /\ meta' = meta /\ nextRev' = nextRev /\ marked' = FALSE
      /\ folded' = folded
  BY DEF Publish, disk
<1>3. op \in Operation
  BY <1>0, <1>1, OpTyped
<1>4. \/ op' = NoOp
      \/ op' \in Operation /\ op'.at = "snapshot" /\ op' # NoOp /\ op'.rec = op.rec
  BY <1>3, GotoIs DEF Publish, Return, Stage
<1>5. Accounted(acked, Value) /\ nextRev \in Nat
  BY <1>0, NumbersTyped DEF ValueInv
<1>6. acked' \in TextMap /\ Accounted(acked', Value) /\ mode' \in {"running", "recovering"}
  <2>1. op.rec.text \in TextMap /\ acked \in TextMap
    BY <1>0, <1>1, OpTyped DEF JournalTypes, Entry
  <2>2. Over(op.rec.text, acked) \in TextMap /\ Accounted(Over(op.rec.text, acked), Value)
    BY <2>1, <1>1, <1>5, OverAccounted
  <2> QED
    BY <2>1, <2>2, <1>0, <1>5 DEF Publish, Return, JournalTypes
<1>7. FilesInv' /\ HeadInv' /\ ChainInv' /\ ValueInv'
  BY <1>1, <1>2, <1>5, <1>6, DiskKeeps
<1>8. Value' = Value
  BY <1>2, DiskStays
<1>9. JournalTypes'
  BY <1>0, <1>2, <1>4, <1>6 DEF JournalTypes
<1>10. OpInv'
  <2>1. op' # NoOp => Accounted(op.rec.text, Value)'
    BY <1>1, <1>2, <1>4, <1>8 DEF Accounted
  <2> QED
    BY <2>1, <1>1, <1>2, <1>4 DEF OpInv
<1> QED
  BY <1>7, <1>8, <1>9, <1>10 DEF JournalInv

(* Replacing the snapshot.                                                   *)
LEMMA SwapSnapshotKeeps ==
  ASSUME JournalInv, SwapSnapshot PROVE JournalInv' /\ Value'.turns = Value.turns /\ Value'.rev = Value.rev
<1>0. JournalTypes /\ FilesInv /\ HeadInv /\ ChainInv /\ ValueInv /\ OpInv
  BY DEF JournalInv
<1>1. op # NoOp /\ op.at = "snapshot" /\ run.pending = None /\ Accounted(op.rec.text, Value)
  BY <1>0 DEF SwapSnapshot, OpAt, OpInv
<1>2. /\ run' = run /\ files' = files /\ meta' = meta /\ nextRev' = nextRev /\ marked' = marked /\ acked' = acked
      /\ folded' = folded \cup Unended(Conv.turns) /\ mode' = mode /\ Sound
  BY DEF SwapSnapshot, Loads, FullyLoads, Shortcut
<1>3. op \in Operation /\ op.rec.text \in TextMap
  BY <1>0, <1>1, OpTyped DEF Entry
<1>4. /\ op' \in Operation /\ op'.at = "trim" /\ op' # NoOp /\ op'.rec = op.rec
  BY <1>3, GotoIs DEF SwapSnapshot, Stage
<1>8. Conv \in Contents /\ Conv = Value /\ snap.conv.text \in TextMap
  BY <1>0, <1>2, LoadsValue DEF ValueInv, JournalTypes, Snapshot, Contents
<1>9. PICK text \in TextMap :
        /\ \/ text = Conv.text
           \/ text = Over(snap.conv.text, Conv.text) /\ Unended(Conv.turns) \cap DOMAIN snap.conv.text = {}
        /\ snap' = [rev |-> Conv.rev, seq |-> HeadSeq, chk |-> HeadChk, conv |-> [Conv EXCEPT !.text = text]]
  <2>1. CASE Shortcut(Unended(Conv.turns))
    <3>1. Over(snap.conv.text, Conv.text) \in TextMap
      BY <1>8, OverText DEF Contents
    <3>2. Unended(Conv.turns) \cap DOMAIN snap.conv.text = {}
      BY <2>1 DEF Shortcut
    <3> QED
      BY <3>1, <3>2, <2>1 DEF SwapSnapshot
  <2>2. CASE ~Shortcut(Unended(Conv.turns))
    <3>1. Conv.text \in TextMap /\ [Conv EXCEPT !.text = Conv.text] = Conv
      BY <1>8 DEF Contents
    <3>2. snap' = [rev |-> Conv.rev, seq |-> HeadSeq, chk |-> HeadChk, conv |-> Conv]
      BY <2>2 DEF SwapSnapshot
    <3> QED
      BY <3>1, <3>2
  <2> QED
    BY <2>1, <2>2
<1>5. /\ snap' \in Snapshot /\ snap'.seq = Top /\ snap'.rev = run.rev
      /\ Top' = Top /\ Value'.turns = Value.turns /\ Value'.rev = Value.rev
      /\ Accounted(op.rec.text, Value) => Accounted(op.rec.text, Value)'
      /\ FilesInv' /\ HeadInv' /\ ChainInv' /\ ValueInv'
  <2>1. /\ snap' \in Snapshot /\ snap'.seq = Top /\ snap'.rev = run.rev
        /\ Top' = Top /\ Value'.turns = Value.turns /\ Value'.rev = Value.rev
        /\ \A m \in TextMap : Accounted(m, Value) => Accounted(m, Value)'
        /\ FilesInv' /\ HeadInv' /\ ChainInv' /\ ValueInv'
    BY <1>1, <1>2, <1>4, <1>9, Swaps
  <2> QED
    BY <2>1, <1>3, <1>4 DEF Accounted
<1>6. JournalTypes'
  <2>1. Unended(Conv.turns) \subseteq Turn
    BY <1>8, MapIs DEF Unended, Contents
  <2> QED
    BY <1>0, <1>2, <1>4, <1>5, <2>1 DEF JournalTypes
<1>7. OpInv'
  BY <1>1, <1>2, <1>4, <1>5 DEF OpInv
<1> QED
  BY <1>5, <1>6, <1>7 DEF JournalInv

(* The run-state that drops the records of the snapshot.                     *)
LEMMA TrimRunKeeps == ASSUME JournalInv, TrimRun PROVE JournalInv' /\ Value' = Value
<1>0. JournalTypes /\ FilesInv /\ HeadInv /\ ChainInv /\ ValueInv /\ OpInv
  BY DEF JournalInv
<1>1. OpAt("trim")
  BY DEF TrimRun
<1>2. /\ snap' = snap /\ files' = files /\ meta' = meta /\ nextRev' = nextRev /\ marked' = marked
      /\ acked' = Over(op.rec.text, acked) /\ folded' = folded /\ mode' = "running" /\ op' = NoOp
      /\ run' = [run EXCEPT !.turns = OpenTurns(snap.conv.turns), !.segs = {}]
  BY DEF TrimRun, Return
<1>3. /\ run' \in RunState /\ acked' \in TextMap /\ Value' = Value
      /\ FilesInv' /\ HeadInv' /\ ChainInv' /\ ValueInv'
  BY <1>1, <1>2, Trims
<1>4. JournalTypes'
  BY <1>0, <1>1, <1>2, <1>3 DEF JournalTypes
<1>5. OpInv'
  BY <1>2 DEF OpInv
<1> QED
  BY <1>3, <1>4, <1>5 DEF JournalInv

(* Repairs, failures and crashes touch no file but meta.json.               *)
LEMMA RestKeeps == ASSUME JournalInv, Repair \/ Throw \/ Crash PROVE JournalInv' /\ Value' = Value
<1>0. JournalTypes /\ FilesInv /\ HeadInv /\ ChainInv /\ ValueInv /\ OpInv
  BY DEF JournalInv
<1>1. /\ snap' = snap /\ run' = run /\ files' = files /\ nextRev' = nextRev /\ acked' = acked /\ folded' = folded
      /\ op' = NoOp
  BY DEF Repair, Throw, Crash, disk
<1>2. marked' \in BOOLEAN /\ mode' \in {"running", "recovering"}
  BY <1>0 DEF Repair, Throw, Crash, disk, JournalTypes
<1>3. meta' \in [rev : Revisions, arch : BOOLEAN]
  <2>1. CASE meta' = meta
    BY <2>1, <1>0 DEF JournalTypes
  <2>2. CASE meta' # meta
    <3>1. FullyLoads /\ meta' = [rev |-> Conv.rev, arch |-> Conv.arch]
      BY <2>2 DEF Repair, Throw, Crash, disk
    <3>2. Conv \in Contents
      BY <3>1, <1>0, LoadsValue DEF FullyLoads, ValueInv
    <3> QED
      BY <3>1, <3>2 DEF Contents
  <2> QED
    BY <2>1, <2>2
<1>4. Accounted(acked, Value) /\ nextRev \in Nat
  BY <1>0, NumbersTyped DEF ValueInv
<1>5. FilesInv' /\ HeadInv' /\ ChainInv' /\ ValueInv'
  BY <1>1, <1>4, DiskKeeps
<1>6. Value' = Value
  BY <1>1, DiskStays
<1>7. JournalTypes'
  BY <1>0, <1>1, <1>2, <1>3 DEF JournalTypes
<1>8. OpInv'
  BY <1>1 DEF OpInv
<1> QED
  BY <1>5, <1>6, <1>7, <1>8 DEF JournalInv

(***************************************************************************)
(* The operations.                                                         *)
(***************************************************************************)
(* An operation that has loaded the value and computed the next one.        *)
LEMMA Starts ==
  ASSUME JournalInv, op = NoOp, nextRev <= MaxRev, Sound,
         NEW kind \in Kinds, NEW key \in Keys, NEW turns \in TurnsMap, NEW texts \in SUBSET Turn,
         NEW compacts \in BOOLEAN,
         Allowed(StatesOf(Value.turns), StatesOf(Over(turns, Value.turns))),
         \A t \in texts : /\ t \in DOMAIN Over(turns, Value.turns)
                          /\ t \in DOMAIN Value.turns => Value.turns[t].st \notin Terminal,
         Start(Value, kind, key, turns, texts, compacts)
  PROVE  JournalInv' /\ Value' = Value
<1> DEFINE rec == [seq |-> Newest + 1, rev |-> nextRev, prev |-> run.rev, kind |-> kind, turns |-> turns,
                   text |-> [t \in texts |-> nextRev]]
           path == PathFor(key, Newest + 1, Newest)
<1>0. JournalTypes /\ FilesInv /\ HeadInv /\ ChainInv /\ ValueInv
  BY DEF JournalInv
<1>1. LastSeq = Newest /\ LastChk = run.rev
  BY LoadsValue
<1>2. /\ snap' = snap /\ run' = run /\ files' = files /\ meta' = meta /\ nextRev' = nextRev + 1
      /\ marked' = TRUE /\ acked' = acked /\ folded' = folded /\ mode' = mode
      /\ op' = [at |-> IF run.pending # None THEN "finishAppend" ELSE "announce",
                rec |-> rec, conv |-> Apply(Value, rec), path |-> path, compacts |-> compacts]
  BY <1>1 DEF Start, disk
<1>3. Newest \in Nat /\ run.rev \in Nat /\ nextRev \in Nat /\ MaxRev \in Nat
  BY <1>0, NumbersTyped, JournalAssumption
<1>4. Newest <= run.rev /\ run.rev < nextRev
  BY <1>0 DEF HeadInv
<1>5. Newest + 1 \in Revisions \ {0} /\ nextRev \in Revisions \ {0} /\ run.rev \in Revisions
  BY <1>3, <1>4 DEF Revisions
<1>6. rec \in Entry
  <2> DEFINE text == [t \in texts |-> nextRev]
  <2>1. text \in [texts -> Revisions]
    BY <1>5
  <2>2. text \in TextMap
    BY <2>1, IsTextMap
  <2> HIDE DEF text
  <2>3. [seq |-> Newest + 1, rev |-> nextRev, prev |-> run.rev, kind |-> kind, turns |-> turns, text |-> text] \in Entry
    BY <2>2, <1>5 DEF Entry
  <2> QED
    BY <2>3 DEF text
<1>7. Value \in Contents
  BY <1>0 DEF ValueInv
<1>8. Apply(Value, rec) \in Contents /\ Apply(Value, rec).turns = Over(turns, Value.turns)
  <2> HIDE DEF rec
  <2>1. Apply(Value, rec) \in Contents /\ Apply(Value, rec).turns = Over(rec.turns, Value.turns)
    BY <1>6, <1>7, ApplyIs
  <2> QED
    BY <2>1 DEF rec
<1>9. path \in Path /\ path[2] <= Newest + 1
  BY <1>3, <1>5 DEF PathFor, Path, Keys, Revisions
<1>10. path \in DOMAIN files => path \in run.segs
  <2>1. SUFFICES ASSUME path \in DOMAIN files, path \notin run.segs PROVE FALSE
    OBVIOUS
  <2>2. path[2] <= Newest /\ Newest > 0
    BY <2>1, <1>0 DEF FilesInv
  <2>3. path = <<key, Newest + 1>>
    BY <2>1, <2>2, <1>3 DEF PathFor
  <2> QED
    BY <2>2, <2>3, <1>3
<1>11. /\ op' \in Operation /\ op' # NoOp /\ op'.rec = rec /\ op'.conv = Apply(Value, rec) /\ op'.path = path
       /\ op'.at = IF run.pending # None THEN "finishAppend" ELSE "announce"
  <2> HIDE DEF rec, path
  <2>1. /\ op'.rec = rec /\ op'.conv = Apply(Value, rec) /\ op'.path = path
        /\ op'.at = IF run.pending # None THEN "finishAppend" ELSE "announce"
    BY <1>2
  <2>2. op' \in Operation
    BY <1>2, <1>6, <1>8, <1>9 DEF Operation, Stage
  <2>3. op'.at # "none"
    BY <2>1
  <2> QED
    BY <2>1, <2>2, <2>3 DEF NoOp
<1>12. /\ rec.seq = Newest + 1 /\ rec.rev = nextRev /\ rec.prev = run.rev
       /\ DOMAIN rec.text = texts /\ \A t \in texts : rec.text[t] = nextRev
  OBVIOUS
<1> HIDE DEF rec, path
<1>13. Accounted(acked, Value) /\ nextRev + 1 \in Nat /\ nextRev + 1 >= nextRev
  BY <1>0, <1>3 DEF ValueInv
<1>14. FilesInv' /\ HeadInv' /\ ChainInv' /\ ValueInv'
  BY <1>2, <1>13, DiskKeeps
<1>15. Value' = Value /\ Newest' = Newest
  BY <1>2, DiskStays
<1>16. JournalTypes'
  BY <1>0, <1>2, <1>3, <1>11 DEF JournalTypes
<1>17. Prepared'
  BY <1>2, <1>3, <1>4, <1>8, <1>9, <1>10, <1>11, <1>12, <1>15 DEF Prepared
<1>18. run.pending # None => run.path \in DOMAIN files
  BY <1>0 DEF Sound, Present, FilesInv
<1>19. OpInv'
  <2>1. op'.at \in {"finishAppend", "announce"}
    BY <1>11
  <2> QED
    BY <2>1, <1>2, <1>11, <1>17, <1>18 DEF OpInv
<1> QED
  BY <1>14, <1>15, <1>16, <1>19 DEF JournalInv

(* One turn changes its state.                                              *)
LEMMA BecomesIs ==
  ASSUME NEW m \in TurnsMap, NEW t \in Turn, NEW st \in Terminal \cup Unsettled \cup {"paused"}, nextRev \in Revisions
  PROVE  /\ Becomes(t, st) \in TurnsMap
         /\ Sets(StatesOf(m), StatesOf(Over(Becomes(t, st), m)), t, st)
<1> DEFINE b == Becomes(t, st)
<1>1. TurnValue(st, nextRev) \in TurnState /\ TurnValue(st, nextRev).st = st
  BY DEF TurnValue, TurnState
<1>2. b = [u \in {t} |-> TurnValue(st, nextRev)]
  BY DEF Becomes
<1> HIDE DEF b
<1>3. b \in [{t} -> TurnState] /\ {t} \in SUBSET Turn
  BY <1>1, <1>2
<1>4. b \in TurnsMap /\ DOMAIN b = {t} /\ b[t].st = st
  BY <1>1, <1>2, <1>3, IsMap
<1>5. /\ DOMAIN Over(b, m) = DOMAIN b \cup DOMAIN m
      /\ \A u \in DOMAIN b \cup DOMAIN m : Over(b, m)[u] = IF u \in DOMAIN b THEN b[u] ELSE m[u]
  BY <1>4, OverIs
<1>6. StatesOf(Over(b, m)) = [u \in DOMAIN m \cup {t} |-> IF u = t THEN st ELSE m[u].st]
  <2>1. DOMAIN Over(b, m) = DOMAIN m \cup {t}
    BY <1>4, <1>5
  <2>2. \A u \in DOMAIN m \cup {t} : Over(b, m)[u].st = IF u = t THEN st ELSE m[u].st
    BY <1>4, <1>5
  <2> QED
    BY <2>1, <2>2 DEF StatesOf
<1>7. DOMAIN StatesOf(m) = DOMAIN m /\ \A u \in DOMAIN m : StatesOf(m)[u] = m[u].st
  BY DEF StatesOf
<1>8. Sets(StatesOf(m), StatesOf(Over(b, m)), t, st)
  BY <1>6, <1>7 DEF Sets
<1> QED
  BY <1>4, <1>8 DEF b

(* No turn changes its state.                                               *)
LEMMA NothingBecomes ==
  ASSUME NEW m \in TurnsMap
  PROVE  Allowed(StatesOf(m), StatesOf(Over(<<>>, m)))
<1> DEFINE e == <<>>
<1>1. e \in TurnsMap /\ DOMAIN e = {}
  BY NoTurns
<1> HIDE DEF e
<1>2. /\ DOMAIN Over(e, m) = DOMAIN e \cup DOMAIN m
      /\ \A t \in DOMAIN e \cup DOMAIN m : Over(e, m)[t] = IF t \in DOMAIN e THEN e[t] ELSE m[t]
  BY <1>1, OverIs
<1>3. DOMAIN Over(e, m) = DOMAIN m /\ \A t \in DOMAIN m : Over(e, m)[t] = m[t]
  BY <1>1, <1>2
<1>4. StatesOf(Over(e, m)) = StatesOf(m)
  BY <1>3 DEF StatesOf
<1> QED
  BY <1>4 DEF Allowed, e

(* No other turn is busy, in terms of the states.                            *)
LEMMA OthersIs ==
  ASSUME NEW c \in Contents, NEW t, ~OthersBusy(c, t)
  PROVE  FreeIn(StatesOf(c.turns), t)
BY DEF OthersBusy, FreeIn, StatesOf

(* The state of a turn, in terms of the states.                              *)
LEMMA IsIs ==
  ASSUME NEW c \in Contents, NEW t, NEW S, Is(c, t, S)
  PROVE  t \in DOMAIN StatesOf(c.turns) /\ StatesOf(c.turns)[t] \in S
BY DEF Is, StatesOf

(* Starting an operation loads the value, computes the next one and writes   *)
(* nothing.                                                                  *)
LEMMA OperateKeeps == ASSUME JournalInv, Operate PROVE JournalInv' /\ Value' = Value
<1>0. JournalTypes /\ ValueInv
  BY DEF JournalInv
<1>1. PICK c \in Loaded({}) \cup Loaded(Unended(Conv.turns)) :
        \/ \E t \in Turn :
             \/ \E s \in {"queued", "active"} : BeginTurn(c, t, s)
             \/ ActivateTurn(c, t) \/ RequestCancellation(c, t) \/ PatchMessage(c, t) \/ CancelTurn(c, t)
             \/ \E o \in {"completed", "failed"} : FinalizeTurn(c, t, o)
        \/ PatchSession(c) \/ SetArchived(c)
  BY DEF Operate
<1>2. op = NoOp /\ nextRev <= MaxRev /\ Sound /\ c = Value
  <2>1. Ready /\ c = Conv /\ (Loads({}) \/ Loads(Unended(Conv.turns)))
    BY DEF Loaded
  <2>2. Sound
    BY <2>1 DEF Loads, FullyLoads, Shortcut
  <2> QED
    BY <2>1, <2>2, LoadsValue DEF Ready
<1>3. nextRev \in Revisions
  BY <1>0, <1>2, NumbersTyped, JournalAssumption DEF Revisions
<1>4. c \in Contents /\ c.turns \in TurnsMap
  BY <1>0, <1>2 DEF ValueInv, Contents
<1> DEFINE a == StatesOf(c.turns)
<1>5. ASSUME NEW t \in Turn, NEW st \in Terminal \cup Unsettled \cup {"paused"}, NEW kind \in Kinds, NEW compacts \in BOOLEAN,
             NEW texts \in SUBSET {t}, t \notin DOMAIN a \/ a[t] \notin Terminal,
             Start(c, kind, t, Becomes(t, st), texts, compacts),
             \A b : Sets(a, b, t, st) => Allowed(a, b)
      PROVE  JournalInv' /\ Value' = Value
  <2>1. Becomes(t, st) \in TurnsMap /\ Sets(a, StatesOf(Over(Becomes(t, st), c.turns)), t, st)
    BY <1>3, <1>4, BecomesIs
  <2>2. Allowed(StatesOf(Value.turns), StatesOf(Over(Becomes(t, st), Value.turns)))
    BY <2>1, <1>2, <1>5
  <2>3. t \in Keys /\ texts \in SUBSET Turn
    BY DEF Keys
  <2>4. t \in DOMAIN Over(Becomes(t, st), Value.turns)
    BY <2>1, <1>2 DEF Sets, StatesOf
  <2>5. t \in DOMAIN Value.turns => Value.turns[t].st \notin Terminal
    BY <1>2, <1>5 DEF StatesOf
  <2>6. \A u \in texts : /\ u \in DOMAIN Over(Becomes(t, st), Value.turns)
                         /\ u \in DOMAIN Value.turns => Value.turns[u].st \notin Terminal
    BY <2>4, <2>5
  <2> QED
    BY <2>1, <2>2, <2>3, <2>6, <1>2, <1>5, Starts
<1>6. ASSUME NEW kind \in Kinds, NEW key \in Keys, NEW compacts \in BOOLEAN,
             NEW texts \in SUBSET {u \in DOMAIN c.turns : c.turns[u].st \notin Terminal},
             Start(c, kind, key, <<>>, texts, compacts)
      PROVE  JournalInv' /\ Value' = Value
  <2>1. Allowed(StatesOf(Value.turns), StatesOf(Over(<<>>, Value.turns)))
    BY <1>2, <1>4, NothingBecomes
  <2>2. <<>> \in TurnsMap /\ texts \in SUBSET Turn
    BY <1>4, NoTurns, MapIs
  <2>3. DOMAIN Over(<<>>, Value.turns) = DOMAIN Value.turns
    <3> DEFINE e == <<>>
    <3>1. e \in TurnsMap /\ DOMAIN e = {}
      BY NoTurns
    <3> HIDE DEF e
    <3>2. DOMAIN Over(e, c.turns) = DOMAIN e \cup DOMAIN c.turns
      BY <3>1, <1>4, OverIs
    <3> QED
      BY <3>1, <3>2, <1>2 DEF e
  <2>4. \A t \in texts : /\ t \in DOMAIN Over(<<>>, Value.turns)
                         /\ t \in DOMAIN Value.turns => Value.turns[t].st \notin Terminal
    BY <2>3, <1>2
  <2> QED
    BY <2>1, <2>2, <2>4, <1>2, <1>6, Starts
<1>7. ASSUME NEW t \in Turn, NEW s \in {"queued", "active"}, BeginTurn(c, t, s)
      PROVE  JournalInv' /\ Value' = Value
  <2>1. t \in Turn \ DOMAIN a
    BY <1>7 DEF BeginTurn, StatesOf
  <2>2. s = "active" => FreeIn(a, t)
    BY <1>4, <1>7, OthersIs DEF BeginTurn
  <2>3. \A b : Sets(a, b, t, s) => Allowed(a, b)
    BY <2>1, <2>2 DEF Allowed
  <2>4. Start(c, "beginTurn", t, Becomes(t, s), {t}, FALSE) /\ "beginTurn" \in Kinds
        /\ s \in Terminal \cup Unsettled \cup {"paused"}
    BY <1>7 DEF BeginTurn, Kinds, Unsettled, Busy
  <2>5. {t} \in SUBSET {t} /\ t \notin DOMAIN a
    BY <2>1
  <2> QED
    BY <2>3, <2>4, <2>5, <1>5
<1>8. ASSUME NEW t \in Turn, ActivateTurn(c, t) PROVE JournalInv' /\ Value' = Value
  <2>1. t \in DOMAIN a /\ a[t] \in {"queued", "paused"} /\ FreeIn(a, t)
    BY <1>4, <1>8, IsIs, OthersIs DEF ActivateTurn
  <2>2. \A b : Sets(a, b, t, "active") => Allowed(a, b)
    BY <2>1 DEF Allowed
  <2>3. Start(c, "turnUpdate", t, Becomes(t, "active"), {}, FALSE) /\ "turnUpdate" \in Kinds
        /\ "active" \in Terminal \cup Unsettled \cup {"paused"}
    BY <1>8 DEF ActivateTurn, Kinds, Unsettled, Busy
  <2>4. a[t] \notin Terminal /\ {} \in SUBSET {t} /\ {t} \in SUBSET {t}
    BY <2>1 DEF Terminal
  <2> QED
    BY <2>2, <2>3, <2>4, <1>5
<1>9. ASSUME NEW t \in Turn, RequestCancellation(c, t) PROVE JournalInv' /\ Value' = Value
  <2>1. t \in DOMAIN a /\ a[t] \in {"queued", "active", "paused"}
    BY <1>4, <1>9, IsIs DEF RequestCancellation
  <2>2. \A b : Sets(a, b, t, "cancelRequested") => Allowed(a, b)
    BY <2>1 DEF Allowed
  <2>3. Start(c, "turnUpdate", t, Becomes(t, "cancelRequested"), {}, FALSE) /\ "turnUpdate" \in Kinds
        /\ "cancelRequested" \in Terminal \cup Unsettled \cup {"paused"}
    BY <1>9 DEF RequestCancellation, Kinds, Unsettled, Busy
  <2>4. a[t] \notin Terminal /\ {} \in SUBSET {t} /\ {t} \in SUBSET {t}
    BY <2>1 DEF Terminal
  <2> QED
    BY <2>2, <2>3, <2>4, <1>5
<1>10. ASSUME NEW t \in Turn, CancelTurn(c, t) PROVE JournalInv' /\ Value' = Value
  <2>1. t \in DOMAIN a /\ a[t] \in {"queued", "active", "paused", "cancelRequested"}
    BY <1>4, <1>10, IsIs DEF CancelTurn
  <2>2. \A b : Sets(a, b, t, "cancelled") => Allowed(a, b)
    BY <2>1 DEF Allowed, Terminal
  <2>3. Start(c, "turnUpdate", t, Becomes(t, "cancelled"), {t}, TRUE) /\ "turnUpdate" \in Kinds
        /\ "cancelled" \in Terminal \cup Unsettled \cup {"paused"}
    BY <1>10 DEF CancelTurn, Kinds, Terminal
  <2>4. a[t] \notin Terminal /\ {} \in SUBSET {t} /\ {t} \in SUBSET {t}
    BY <2>1 DEF Terminal
  <2> QED
    BY <2>2, <2>3, <2>4, <1>5
<1>11. ASSUME NEW t \in Turn, NEW o \in {"completed", "failed"}, FinalizeTurn(c, t, o)
       PROVE  JournalInv' /\ Value' = Value
  <2>1. t \in DOMAIN a /\ a[t] \in {"queued", "active", "paused"}
    BY <1>4, <1>11, IsIs DEF FinalizeTurn
  <2>2. \A b : Sets(a, b, t, o) => Allowed(a, b)
    BY <2>1 DEF Allowed, Terminal
  <2>3. Start(c, "turnUpdate", t, Becomes(t, o), {t}, TRUE) /\ "turnUpdate" \in Kinds
        /\ o \in Terminal \cup Unsettled \cup {"paused"}
    BY <1>11 DEF FinalizeTurn, Kinds, Terminal
  <2>4. a[t] \notin Terminal /\ {} \in SUBSET {t} /\ {t} \in SUBSET {t}
    BY <2>1 DEF Terminal
  <2> QED
    BY <2>2, <2>3, <2>4, <1>5
<1>12. ASSUME PatchSession(c) PROVE JournalInv' /\ Value' = Value
  <2>1. "patchSession" \in Kinds /\ "conversation" \in Keys /\ FALSE \in BOOLEAN
    BY DEF Kinds, Keys
  <2> QED
    BY <2>1, <1>12, <1>6 DEF PatchSession
<1>13. ASSUME SetArchived(c) PROVE JournalInv' /\ Value' = Value
  <2>1. (IF c.arch THEN "restore" ELSE "archive") \in Kinds /\ "conversation" \in Keys
    BY DEF Kinds, Keys
  <2> QED
    BY <2>1, <1>13, <1>6 DEF SetArchived
<1>14. ASSUME NEW t \in Turn, PatchMessage(c, t) PROVE JournalInv' /\ Value' = Value
  <2>1. "patchMessage" \in Kinds /\ t \in Keys /\ FALSE \in BOOLEAN
    BY DEF Kinds, Keys
  <2>2. {t} \in SUBSET {u \in DOMAIN c.turns : c.turns[u].st \notin Terminal}
    BY <1>14 DEF PatchMessage, Is, Terminal
  <2>3. Start(c, "patchMessage", t, <<>>, {t}, FALSE)
    BY <1>14 DEF PatchMessage
  <2> QED
    BY <2>1, <2>2, <2>3, <1>6
<1> QED
  BY <1>1, <1>7, <1>8, <1>9, <1>10, <1>11, <1>12, <1>13, <1>14

(* So does starting the recovery of the turns a restart finds open.          *)
LEMMA RecoverKeeps == ASSUME JournalInv, RecoverTurns PROVE JournalInv' /\ Value' = Value
<1>0. JournalTypes /\ FilesInv /\ HeadInv /\ ChainInv /\ ValueInv
  BY DEF JournalInv
<1> DEFINE settled(c, t) == IF c.turns[t].st = "queued" THEN "paused" ELSE "interrupted"
           cut == {t \in Loose(Value) : Value.turns[t].st # "queued"}
           turns == [t \in Loose(Value) |-> TurnValue(settled(Value, t), nextRev)]
<1>1. op = NoOp /\ Sound /\ Conv = Value
  BY LoadsValue DEF RecoverTurns, FullyLoads
<1>2. CASE UNCHANGED <<disk, op, nextRev, marked, acked, folded>> /\ mode' = "running"
  <2>1. /\ snap' = snap /\ run' = run /\ files' = files /\ nextRev' = nextRev /\ acked' = acked
        /\ op' = NoOp /\ marked' = marked /\ meta' = meta /\ folded' = folded
    BY <1>1, <1>2 DEF disk
  <2>2. Accounted(acked, Value) /\ nextRev \in Nat
    BY <1>0, NumbersTyped DEF ValueInv
  <2>3. FilesInv' /\ HeadInv' /\ ChainInv' /\ ValueInv'
    BY <2>1, <2>2, DiskKeeps
  <2>4. Value' = Value
    BY <2>1, DiskStays
  <2>5. JournalTypes'
    BY <1>0, <1>2, <2>1 DEF JournalTypes
  <2>6. OpInv'
    BY <2>1 DEF OpInv
  <2> QED
    BY <2>3, <2>4, <2>5, <2>6 DEF JournalInv
<1>3. CASE nextRev <= MaxRev /\ Start(Value, "recovery", "recovery", turns, cut, TRUE)
  <2>1. Value.turns \in TurnsMap
    BY <1>0 DEF ValueInv, Contents
  <2>2. nextRev \in Revisions
    BY <1>0, <1>3, NumbersTyped, JournalAssumption DEF Revisions
  <2>3. Loose(Value) \in SUBSET Turn /\ Loose(Value) \subseteq DOMAIN Value.turns
    BY <2>1, MapIs DEF Loose
  <2>4. \A t \in Loose(Value) : /\ TurnValue(settled(Value, t), nextRev) \in TurnState
                                /\ TurnValue(settled(Value, t), nextRev).st = settled(Value, t)
    BY <2>2 DEF TurnValue, TurnState, Terminal
  <2>5. turns \in [Loose(Value) -> TurnState]
    BY <2>4
  <2>6. turns \in TurnsMap /\ DOMAIN turns = Loose(Value)
    BY <2>3, <2>5, IsMap
  <2>7. \A t \in Loose(Value) : turns[t].st = settled(Value, t)
    BY <2>4
  <2> HIDE DEF turns
  <2>8. /\ DOMAIN Over(turns, Value.turns) = DOMAIN turns \cup DOMAIN Value.turns
        /\ \A t \in DOMAIN turns \cup DOMAIN Value.turns :
             Over(turns, Value.turns)[t] = IF t \in DOMAIN turns THEN turns[t] ELSE Value.turns[t]
    BY <2>1, <2>6, OverIs
  <2> DEFINE a == StatesOf(Value.turns)
  <2>9. DOMAIN a = DOMAIN Value.turns /\ \A t \in DOMAIN a : a[t] = Value.turns[t].st
    BY DEF StatesOf
  <2> HIDE DEF a
  <2>10. ASSUME NEW t \in DOMAIN a
         PROVE  Over(turns, Value.turns)[t].st =
                  CASE a[t] = "queued" -> "paused" [] a[t] \in Busy -> "interrupted" [] OTHER -> a[t]
    <3>1. t \in Loose(Value) <=> a[t] \in Busy \cup {"queued"}
      BY <2>9 DEF Loose, Unsettled
    <3>2. CASE t \in Loose(Value)
      BY <3>1, <3>2, <2>6, <2>7, <2>8, <2>9 DEF Busy
    <3>3. CASE t \notin Loose(Value)
      BY <3>1, <3>3, <2>6, <2>8, <2>9
    <3> QED
      BY <3>2, <3>3
  <2>11. DOMAIN Over(turns, Value.turns) = DOMAIN a
    BY <2>3, <2>6, <2>8, <2>9
  <2>12. StatesOf(Over(turns, Value.turns))
          = [t \in DOMAIN a |-> CASE a[t] = "queued" -> "paused" [] a[t] \in Busy -> "interrupted" [] OTHER -> a[t]]
    BY <2>10, <2>11 DEF StatesOf
  <2>13. Allowed(a, StatesOf(Over(turns, Value.turns)))
    BY <2>12 DEF Allowed
  <2>14. "recovery" \in Kinds /\ "recovery" \in Keys /\ TRUE \in BOOLEAN
    BY DEF Kinds, Keys
  <2>15. cut \in SUBSET Turn /\ \A t \in cut : /\ t \in DOMAIN Over(turns, Value.turns)
                                              /\ Value.turns[t].st \notin Terminal
    BY <2>3, <2>6, <2>8 DEF Loose, Unsettled, Busy, Terminal
  <2> HIDE DEF cut
  <2> QED
    BY <2>6, <2>13, <2>14, <2>15, <1>1, <1>3, Starts DEF a
<1> QED
  BY <1>1, <1>2, <1>3 DEF RecoverTurns, Ready

(***************************************************************************)
(* The invariant and what follows from it.                                 *)
(***************************************************************************)
(* A conversation that was just created satisfies the invariant.             *)
LEMMA JournalStarts == JournalInit => JournalInv
<1> SUFFICES ASSUME JournalInit PROVE JournalInv
  OBVIOUS
<1>1. 0 \in Revisions /\ MaxRev \in Nat /\ {} \in SUBSET Revisions
  BY JournalAssumption DEF Revisions
<1>2. Empty \in Contents
  BY <1>1, NoTurns, NoText DEF Empty, Contents
<1>3. /\ snap.rev = 0 /\ snap.seq = 0 /\ snap.chk = 0 /\ snap.conv = Empty
      /\ run.rev = 0 /\ run.head = 0 /\ run.chk = 0 /\ run.segs = {} /\ run.pending = None
      /\ run.path = NoPath /\ run.turns = <<>>
      /\ files = <<>> /\ op = NoOp /\ nextRev = 1 /\ acked = <<>> /\ folded = {}
  BY DEF JournalInit
<1>4. JournalTypes
  <2>1. snap \in Snapshot
    BY <1>1, <1>2 DEF JournalInit, Snapshot
  <2>2. run \in RunState
    BY <1>1, NoTurns DEF JournalInit, RunState
  <2>3. DOMAIN files = {}
    BY <1>3
  <2>4. meta \in [rev : Revisions, arch : BOOLEAN]
    BY <1>1 DEF JournalInit
  <2>5. nextRev \in 1..MaxRev + 1 /\ marked \in BOOLEAN /\ mode \in {"running", "recovering"}
    <3>1. 1 \in 1..MaxRev + 1
      BY <1>1
    <3> QED
      BY <1>3, <3>1 DEF JournalInit
  <2> QED
    BY <1>1, <1>3, <2>1, <2>2, <2>3, <2>4, <2>5, NoText DEF JournalTypes
<1>5. Records = {}
  BY <1>3 DEF Records
<1>6. ~Landed /\ Newest = 0 /\ Top = 0 /\ TopChk = 0
  BY <1>3 DEF Landed, Newest, Top, TopChk
<1>7. FilesInv
  BY <1>3, <1>6 DEF FilesInv
<1>8. HeadInv
  BY <1>3, <1>6 DEF HeadInv, Empty
<1>9. ChainInv
  <2>1. Numbered({}, 1, 0) /\ Linked({})
    BY DEF Numbered, Linked
  <2>2. Behind(1)
    BY <1>3, <1>5, <1>6 DEF Behind
  <2>3. ChainFrom(1)
    BY <1>3, <1>5, <1>6, <2>1, <2>2 DEF ChainFrom
  <2>4. 1 \in 1..MaxRev + 1
    BY <1>1
  <2> QED
    BY <2>3, <2>4 DEF ChainInv
<1>10. ValueInv
  <2>1. Value = Empty
    <3>1. Value = Replay(snap, Records)[0]
      BY <1>3, <1>6 DEF Value
    <3>2. Replay(snap, Records)[0] = snap.conv
      BY <1>3, ReplayAt
    <3> QED
      BY <3>1, <3>2, <1>3
  <2>2. /\ DOMAIN Empty.text = {} /\ DOMAIN acked = {} /\ snap.conv = Empty
    BY <1>3 DEF Empty
  <2>3. Materialize(snap.conv.turns, run.turns) = Empty.turns
    <3>1. snap.conv.turns = run.turns /\ Empty.turns = run.turns /\ run.turns \in TurnsMap
      BY <1>3, NoTurns DEF Empty
    <3> HIDE DEF JournalInit
    <3>2. Materialize(run.turns, TailOf(run.turns, run.turns)) = run.turns
      BY <3>1, TailMaterializes
    <3>3. DOMAIN run.turns = {}
      BY <1>3
    <3>4. DOMAIN Over(run.turns, run.turns) = DOMAIN run.turns /\ Over(run.turns, run.turns) \in TurnsMap
      <4>1. /\ Over(run.turns, run.turns) \in TurnsMap
            /\ DOMAIN Over(run.turns, run.turns) = DOMAIN run.turns \cup DOMAIN run.turns
        BY <3>1, OverIs
      <4> QED
        BY <4>1
    <3>5. Over(run.turns, run.turns) = run.turns
      BY <3>1, <3>3, <3>4, MapsEqual
    <3> QED
      BY <3>1, <3>5 DEF Materialize
  <2> QED
    <3>1. Settled(Value) /\ Accounted(acked, Value) /\ DOMAIN Value.text \subseteq DOMAIN Value.turns
      BY <2>1, <2>2 DEF Settled, Accounted
    <3>2. Value.rev = run.rev
      BY <1>3, <2>1 DEF Empty
    <3> QED
      BY <1>2, <2>1, <2>3, <3>1, <3>2 DEF ValueInv
<1>11. OpInv
  BY <1>3 DEF OpInv
<1> QED
  BY <1>4, <1>7, <1>8, <1>9, <1>10, <1>11 DEF JournalInv

(* Only the announcement changes what the conversation is.                  *)
LEMMA JournalSteps ==
  ASSUME JournalInv, [JournalNext]_journalVars
  PROVE  /\ JournalInv'
         /\ \/ Value'.turns = Value.turns /\ Value'.rev = Value.rev
            \/ OpAt("announce") /\ Value' = op.conv
<1>1. CASE UNCHANGED journalVars
  <2>1. /\ snap' = snap /\ run' = run /\ files' = files /\ meta' = meta /\ op' = op /\ nextRev' = nextRev
        /\ marked' = marked /\ acked' = acked /\ folded' = folded /\ mode' = mode
    BY <1>1 DEF journalVars, disk
  <2>2. /\ Records' = Records /\ (Landed' <=> Landed) /\ Newest' = Newest /\ Top' = Top /\ TopChk' = TopChk
        /\ Value' = Value /\ FilesInv'
    BY <2>1, DiskStays
  <2>3. JournalTypes'
    BY <2>1 DEF JournalInv, JournalTypes
  <2>4. HeadInv'
    BY <2>1, <2>2 DEF JournalInv, HeadInv
  <2>5. ChainInv'
    <3>1. PICK lo \in 1..MaxRev + 1 : ChainFrom(lo)
      BY DEF JournalInv, ChainInv
    <3>2. ChainFrom(lo)'
      BY <3>1, <2>1, <2>2 DEF ChainFrom, Numbered, Linked, Behind, Whole, Passed
    <3> QED
      BY <3>1, <3>2 DEF ChainInv
  <2>6. ValueInv'
    BY <2>1, <2>2 DEF JournalInv, ValueInv, Settled, Accounted
  <2>7. Prepared => Prepared'
    BY <2>1, <2>2 DEF Prepared
  <2>8. OpInv'
    BY <2>1, <2>2, <2>7 DEF JournalInv, OpInv, Accounted
  <2> QED
    BY <2>2, <2>3, <2>4, <2>5, <2>6, <2>8 DEF JournalInv
<1>2. CASE JournalNext
  <2>1. CASE Announce
    BY <2>1, AnnounceKeeps DEF Announce
  <2>2. CASE Operate \/ RecoverTurns
    BY <2>2, OperateKeeps, RecoverKeeps
  <2>3. CASE FinishAppend \/ FinishRun \/ AppendRecord \/ FinalizeRun
    BY <2>3, FinishAppendKeeps, FinishRunKeeps, AppendRecordKeeps, FinalizeRunKeeps
  <2>4. CASE WriteMeta \/ Publish \/ SwapSnapshot \/ TrimRun
    BY <2>4, WriteMetaKeeps, PublishKeeps, SwapSnapshotKeeps, TrimRunKeeps
  <2>5. CASE Repair \/ Throw \/ Crash
    BY <2>5, RestKeeps
  <2> QED
    BY <1>2, <2>1, <2>2, <2>3, <2>4, <2>5 DEF JournalNext
<1> QED
  BY <1>1, <1>2

(* In every state of the journal the files add up to one conversation,       *)
(* whatever operation has stopped after whichever of its writes              *)
(* (withConversationMutation and the repair of its loaders).                 *)
THEOREM JournalInvariant == JournalSpec => []JournalInv
<1>1. JournalInv /\ [JournalNext]_journalVars => JournalInv'
  BY JournalSteps
<1> QED
  BY <1>1, JournalStarts, PTL DEF JournalSpec

(* The types of the invariant are finer than those of the type invariant.    *)
LEMMA TypesImply == JournalInv => JournalTypeOK
<1> SUFFICES ASSUME JournalInv PROVE JournalTypeOK
  OBVIOUS
<1>1. JournalTypes /\ HeadInv
  BY DEF JournalInv
<1>2. (\A m \in TurnsMap : IsTurns(m)) /\ \A m \in TextMap : IsText(m)
  BY MapIs, TextIs DEF IsTurns, TurnState, IsText
<1>3. snap.rev \in Revisions /\ snap.seq \in Revisions /\ snap.chk \in Revisions
      /\ snap.conv.turns \in TurnsMap /\ snap.conv.text \in TextMap
  BY <1>1 DEF JournalTypes, Snapshot, Contents
<1>4. run.rev \in Revisions /\ run.head \in Revisions /\ run.chk \in Revisions /\ run.turns \in TurnsMap
  BY <1>1 DEF JournalTypes, RunState
<1>5. run.pending.seq \in Revisions
  <2>1. CASE run.pending = None
    BY <2>1, JournalAssumption DEF None, Revisions
  <2>2. CASE run.pending # None
    BY <2>2, <1>1 DEF JournalTypes, RunState, Entry
  <2> QED
    BY <2>1, <2>2
<1>6. run.pending = None <=> run.path = NoPath
  BY <1>1 DEF HeadInv
<1>7. \A p \in DOMAIN files : \A r \in ToSet(files[p]) : r.seq \in Revisions \ {0} /\ IsTurns(r.turns)
  <2>1. SUFFICES ASSUME NEW p \in DOMAIN files, NEW r \in ToSet(files[p]) PROVE r.seq \in Revisions \ {0} /\ IsTurns(r.turns)
    OBVIOUS
  <2>2. files[p] \in Seq(Entry)
    BY <1>1 DEF JournalTypes
  <2>3. r \in Entry
    BY <2>2 DEF ToSet
  <2> QED
    BY <2>3, <1>2 DEF Entry
<1>8. meta.rev \in Revisions /\ meta.arch \in BOOLEAN
  BY <1>1 DEF JournalTypes
<1> QED
  BY <1>1, <1>2, <1>3, <1>4, <1>5, <1>6, <1>7, <1>8 DEF JournalTypeOK, JournalTypes

(* Every file of the conversation keeps its type.                            *)
THEOREM JournalTypesHold == JournalSpec => []JournalTypeOK
BY TypesImply, JournalInvariant, PTL

(* Wherever an operation stops, the next reader can load the conversation in *)
(* full (loadConversationStateFromDirectory), except in two places: between  *)
(* an announcement and the first record of a new journal file (FileAhead),   *)
(* and between the two writes of a compaction that is not the conversation's *)
(* first (SnapshotAhead).                                                    *)
THEOREM JournalLoads == JournalSpec => []LoadsWhereverItStops
<1>1. JournalInv => LoadsWhereverItStops
  BY LoadsWhole DEF LoadsWhereverItStops
<1> QED
  BY <1>1, JournalInvariant, PTL

(* What was reported as written to an answer (an operation returns after its *)
(* last write) is in every conversation that a reader loads in full, unless  *)
(* its turn has ended and a compaction had met it open: then the next        *)
(* compaction may have put the old chunk in its place.                       *)
THEOREM ReportedIsKept == JournalSpec => []AckedSurvive
<1>1. JournalInv => AckedSurvive
  <2> SUFFICES ASSUME JournalInv, FullyLoads
               PROVE  \A t \in DOMAIN acked :
                        \/ t \in DOMAIN Conv.text /\ Conv.text[t] >= acked[t]
                        \/ t \in folded /\ Conv.turns[t].st \in Terminal
    BY DEF AckedSurvive
  <2>1. Conv = Value
    BY LoadsValue DEF FullyLoads
  <2> QED
    BY <2>1 DEF JournalInv, ValueInv, Accounted
<1> QED
  BY <1>1, JournalInvariant, PTL

(* The states a reader is shown are those of the value of the files.         *)
LEMMA StatesAre == JournalInv => States = StatesOf(Value.turns)
BY DEF JournalInv, ValueInv, States, StatesOf

(* What an operation may do to the states of the turns is a step of the      *)
(* abstract conversation.                                                    *)
LEMMA AllowedIsStep ==
  ASSUME Allowed(States, States')
  PROVE  Turns!Step
<1> USE DEF Turns!Step, Turns!Set, Turns!Free, Turns!Ended, Sets, FreeIn, Busy, Terminal
<1>1. ASSUME NEW t \in Turn \ DOMAIN States,
             Sets(States, States', t, "queued") \/ (FreeIn(States, t) /\ Sets(States, States', t, "active"))
      PROVE  Turns!Step
  <2>1. Turns!Begin(t)
    BY <1>1 DEF Turns!Begin
  <2> QED
    BY <2>1
<1>2. ASSUME NEW t \in DOMAIN States \cap Turn,
             States[t] \in {"queued", "paused"} /\ FreeIn(States, t) /\ Sets(States, States', t, "active")
      PROVE  Turns!Step
  <2>1. Turns!Activate(t)
    BY <1>2 DEF Turns!Activate
  <2> QED
    BY <2>1
<1>3. ASSUME NEW t \in DOMAIN States \cap Turn,
             States[t] \in {"queued", "paused", "active"} /\ Sets(States, States', t, "cancelRequested")
      PROVE  Turns!Step
  <2>1. Turns!Ask(t)
    BY <1>3 DEF Turns!Ask
  <2> QED
    BY <2>1
<1>4. ASSUME NEW t \in DOMAIN States \cap Turn,
             \/ States[t] \notin Terminal /\ Sets(States, States', t, "cancelled")
             \/ States[t] \notin Terminal \cup {"cancelRequested"}
                /\ (Sets(States, States', t, "completed") \/ Sets(States, States', t, "failed"))
      PROVE  Turns!Step
  <2>1. Turns!End(t)
    BY <1>4 DEF Turns!End
  <2> QED
    BY <2>1
<1>5. ASSUME States' = [t \in DOMAIN States |->
                          CASE States[t] = "queued" -> "paused" [] States[t] \in Busy -> "interrupted"
                            [] OTHER -> States[t]]
      PROVE  Turns!Step
  <2>1. Turns!Recover
    BY <1>5 DEF Turns!Recover
  <2> QED
    BY <2>1
<1> QED
  BY <1>1, <1>2, <1>3, <1>4, <1>5 DEF Allowed

(* The journal implements the abstract conversation: each operation takes    *)
(* effect in one step, at the announcement of its record, as the one step    *)
(* its turns may take, and no other write and no stop, repair or restart     *)
(* changes what the conversation is.                                         *)
THEOREM JournalIsConversation == JournalSpec => ImplementsTurns
<1>1. JournalInit => Turns!Init
  <2> SUFFICES ASSUME JournalInit PROVE run.rev = 0 /\ States = <<>>
    BY DEF Turns!Init
  <2>1. run.rev = 0
    BY DEF JournalInit
  <2>2. DOMAIN Materialize(snap.conv.turns, run.turns) = {}
    BY DEF JournalInit, Empty, Materialize, Over
  <2>3. States = <<>>
    BY <2>2 DEF States
  <2> QED
    BY <2>1, <2>3
<1>2. JournalInv /\ JournalInv' /\ [JournalNext]_journalVars => [Turns!Next]_(Turns!vars)
  <2> SUFFICES ASSUME JournalInv, JournalInv', [JournalNext]_journalVars 
               PROVE  Turns!Next \/ (run'.rev = run.rev /\ States' = States)
    BY DEF Turns!vars
  <2>1. States = StatesOf(Value.turns) /\ States' = StatesOf(Value'.turns)
    <3>1. States = StatesOf(Value.turns)
      BY StatesAre
    <3>2. Value'.turns = Materialize(snap.conv.turns, run.turns)'
      BY DEF JournalInv, ValueInv
    <3>3. States' = StatesOf(Value'.turns)
      BY <3>2 DEF States, StatesOf
    <3> QED
      BY <3>1, <3>3
  <2>4. Value.rev = run.rev /\ Value'.rev = run'.rev
    BY DEF JournalInv, ValueInv
  <2>2. CASE Value'.turns = Value.turns /\ Value'.rev = Value.rev
    BY <2>1, <2>2, <2>4
  <2>3. CASE OpAt("announce") /\ Value' = op.conv
    <3>1. op # NoOp /\ Prepared /\ op.rec \in Entry
      BY <2>3, OpTyped DEF JournalInv, OpInv, OpAt
    <3>2. Allowed(States, States')
      BY <2>1, <2>3, <3>1 DEF Prepared
    <3>3. Turns!Step
      BY <3>2, AllowedIsStep
    <3>4. op.rec.rev \in 1..MaxRev /\ op.rec.rev > run.rev
      BY <3>1, JournalAssumption DEF Entry, Revisions, Prepared
    <3>5. run'.rev = op.rec.rev
      BY <2>3, <2>4, <3>1, ApplyIs DEF Prepared, JournalInv, ValueInv
    <3>6. Turns!Commit(op.rec.rev)
      BY <3>4, <3>5 DEF Turns!Commit
    <3> QED
      BY <3>3, <3>4, <3>6 DEF Turns!Next
  <2> QED
    BY <2>2, <2>3, JournalSteps
<1> QED
  BY <1>1, <1>2, JournalInvariant, PTL DEF JournalSpec, ImplementsTurns, Turns!Spec
=============================================================================
