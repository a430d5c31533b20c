------------------------- MODULE MemoryWriteProofs -------------------------
(***************************************************************************)
(* Proofs about MemoryWrite, for any set of proposals: its types, the       *)
(* serialisation of the operations, what is remembered of a half-done       *)
(* write, what a finished shutdown leaves, and the refinement of            *)
(* ShutdownBarrier.                                                        *)
(***************************************************************************)
EXTENDS MemoryWrite, FiniteSetTheorems, TLAPS

(* The entries of a queue.                                                 *)
In(q) == {q[i] : i \in DOMAIN q}

(* What an Append and a Tail do to a queue of entries.                     *)
LEMMA Appended ==
  ASSUME NEW S, NEW q \in Seq(S), NEW e \in S
  PROVE  /\ Append(q, e) \in Seq(S) /\ Append(q, e) # <<>>
         /\ In(Append(q, e)) = In(q) \cup {e}
         /\ q # <<>> => Head(Append(q, e)) = Head(q)
<1>1. Append(q, e) \in Seq(S) /\ Append(q, e) # <<>>
  <2>1. Append(q, e) \in Seq(S) /\ Len(Append(q, e)) = Len(q) + 1 /\ Len(q) \in Nat
    OBVIOUS
  <2>2. Len(<<>>) = 0
    OBVIOUS
  <2> QED
    BY <2>1, <2>2
<1>2. In(Append(q, e)) = In(q) \cup {e}
  <2>1. Len(Append(q, e)) = Len(q) + 1 /\ Append(q, e)[Len(q) + 1] = e
    OBVIOUS
  <2>2. \A i \in DOMAIN q : i \in DOMAIN Append(q, e) /\ Append(q, e)[i] = q[i]
    OBVIOUS
  <2>3. \A i \in DOMAIN Append(q, e) : i \in DOMAIN q \/ i = Len(q) + 1
    OBVIOUS
  <2>4. Len(q) + 1 \in DOMAIN Append(q, e)
    OBVIOUS
  <2> QED
    BY <2>1, <2>2, <2>3, <2>4 DEF In
<1>3. q # <<>> => Head(Append(q, e)) = Head(q)
  OBVIOUS
<1> QED
  BY <1>1, <1>2, <1>3

(* The queue without its current operation.                                *)
LEMMA Removed ==
  ASSUME NEW S, NEW q \in Seq(S), q # <<>>
  PROVE  /\ Tail(q) \in Seq(S)
         /\ In(Tail(q)) \subseteq In(q)
         /\ Head(q) \in In(q) /\ Head(q) \in S
<1>1. Tail(q) \in Seq(S)
  OBVIOUS
<1>2. \A i \in DOMAIN Tail(q) : i + 1 \in DOMAIN q /\ Tail(q)[i] = q[i + 1]
  OBVIOUS
<1>3. 1 \in DOMAIN q /\ Head(q) = q[1] /\ Head(q) \in S
  OBVIOUS
<1> QED
  BY <1>1, <1>2, <1>3 DEF In

(* The queue behind the current operation, perhaps with a new entry.        *)
LEMMA Replaced ==
  ASSUME NEW S, NEW q \in Seq(S), q # <<>>, NEW e \in S
  PROVE  /\ Tail(Append(q, e)) \in Seq(S) /\ Tail(Append(q, e)) # <<>>
         /\ In(Tail(Append(q, e))) \subseteq In(q) \cup {e}
<1>1. Append(q, e) \in Seq(S) /\ Append(q, e) # <<>> /\ In(Append(q, e)) = In(q) \cup {e}
  BY Appended
<1>2. Len(Append(q, e)) = Len(q) + 1 /\ Len(q) > 0
  OBVIOUS
<1>3. Tail(Append(q, e)) # <<>>
  <2>1. Len(Tail(Append(q, e))) = Len(Append(q, e)) - 1
    BY <1>1
  <2>2. Len(Tail(Append(q, e))) > 0
    BY <1>2, <2>1
  <2>3. ASSUME Tail(Append(q, e)) = <<>> PROVE FALSE
    <3>1. Len(<<>>) > 0
      BY <2>2, <2>3
    <3> QED
      BY <3>1
  <2> QED
    BY <2>3
<1> QED
  BY <1>1, <1>3, Removed

(* The stages of a modal, and what an operation may be answered.            *)
Stage == {"target", "edit", "prepared", "result"}
Reply == {"failed", "ok", "noop", "recoveryRequired", "notCancellable"}

(* What is put into the queue is an operation with a caller.                *)
LEMMA EntryIsTyped ==
  ASSUME NEW op \in Operation, NEW p \in Proposal, NEW by \in {"modal", "close", "shutdown"}
  PROVE  [op |-> op, p |-> p, by |-> by] \in Entry
BY DEF Entry

(* What an answer changes keeps its type.                                  *)
LEMMA SettleKeepsTypes ==
  ASSUME TypeOK, queue # <<>>, NEW reply \in Reply, Settle(reply), UNCHANGED store,
         group' \subseteq group, pipes' = "closed"
  PROVE  TypeOK'
<1> DEFINE e == current
<1>1. e \in Entry /\ Tail(queue) \in Seq(Entry)
  BY Removed DEF TypeOK, current
<1>2. e.op \in Operation /\ e.p \in Proposal /\ e.by \in {"modal", "close", "shutdown"}
  BY <1>1 DEF Entry
<1>3. \A op \in Operation, by \in {"modal", "close", "shutdown"} :
        Tail(Enqueue(op, e.p, by)) \in Seq(Entry)
  <2> TAKE op \in Operation, by \in {"modal", "close", "shutdown"}
  <2>1. [op |-> op, p |-> e.p, by |-> by] \in Entry
    BY <1>2, EntryIsTyped
  <2> QED
    BY <2>1, Replaced DEF TypeOK, Enqueue
<1> HIDE DEF e
<1>4. queue' \in Seq(Entry) /\ proc' = "idle"
  <2>1. CASE ReadSettles(e, reply)
    BY <2>1, <1>1 DEF ReadSettles, Settle
  <2>2. CASE PrepareSettles(e, reply)
    BY <2>2, <1>1, <1>3 DEF PrepareSettles, Settle, Operation
  <2>3. CASE ApplySettles(e, reply)
    BY <2>3, <1>1 DEF ApplySettles, Settle
  <2>4. CASE CancelSettles(e, reply)
    BY <2>4, <1>1 DEF CancelSettles, Settle
  <2>5. CASE ShutdownHears(e, reply)
    BY <2>5, <1>1, <1>3 DEF ShutdownHears, Settle, Operation
  <2> QED
    BY <2>1, <2>2, <2>3, <2>4, <2>5 DEF Settle, e
<1>5. /\ recovery' \subseteq tracked' /\ tracked' \subseteq Proposal
      /\ phase' \in Closing \cup {"open", "failed", "done"}
      /\ todo' \subseteq Proposal /\ known' \subseteq Proposal
  <2> USE DEF TypeOK, service, clearProposalTracking
  <2>1. CASE ReadSettles(e, reply)
    BY <2>1 DEF ReadSettles
  <2>2. CASE PrepareSettles(e, reply)
    BY <2>2, <1>2 DEF PrepareSettles
  <2>3. CASE ApplySettles(e, reply)
    BY <2>3 DEF ApplySettles
  <2>4. CASE CancelSettles(e, reply)
    BY <2>4 DEF CancelSettles
  <2>5. CASE ShutdownHears(e, reply)
    BY <2>5 DEF ShutdownHears
  <2> QED
    BY <2>1, <2>2, <2>3, <2>4, <2>5 DEF Settle, e
<1>6. modal' \in [Proposal -> [stage: Stage, attempted: BOOLEAN, closed: BOOLEAN]]
  <2>1. \A s \in Stage : [modal EXCEPT ![e.p].stage = s]
                          \in [Proposal -> [stage: Stage, attempted: BOOLEAN, closed: BOOLEAN]]
    BY <1>2 DEF TypeOK, Stage
  <2>2. modal' = modal \/ \E s \in Stage : modal' = [modal EXCEPT ![e.p].stage = s]
    BY DEF Settle, ReadSettles, PrepareSettles, ApplySettles, CancelSettles, ShutdownHears,
           Stage, e
  <2> QED
    BY <2>1, <2>2 DEF TypeOK, Stage
<1>7. store' = store /\ group' \subseteq [op: Operation, p: Proposal]
  BY DEF TypeOK
<1> QED
  BY <1>4, <1>5, <1>6, <1>7 DEF TypeOK, Stage

(* Answers that may be believed.                                           *)
LEMMA AnswersAreTyped ==
  ASSUME NEW op \in Operation, NEW s, NEW bound, NEW r \in Replies(op, s)
  PROVE  /\ Believed(r, bound) \in Reply
         /\ Believed(r, bound) # "failed" => Believed(r, bound) = r
BY DEF Replies, Believed, Reply, Operation

(* What a step of the child is: the operation goes on, or it ends with an    *)
(* answer that is true of the store, with nothing left of its group.        *)
ChildStep == Strays \/ StrayEnds \/ Closes \/ Terminate \/ finishAfterGroupExit

Continues ==
  /\ UNCHANGED <<store, group, queue, modal, service>>
  /\ proc # "idle" /\ proc' \in {proc, "dying"} /\ pipes' \in {"inside", "outside", "closed"}

(* An answer the service believes says what the store holds.                *)
Truthful(reply) == reply # "failed" => reply \in Replies(current.op, store[current.p])

Ends(reply) ==
  /\ queue # <<>> /\ group = {} /\ UNCHANGED <<store, group>> /\ pipes' = "closed"
  /\ Settle(reply) /\ Truthful(reply)

LEMMA ChildGoesOnOrEnds ==
  ASSUME TypeOK, ChildStep
  PROVE  Continues \/ \E reply \in Reply : Ends(reply)
<1>1. CASE Strays \/ StrayEnds \/ Terminate
  BY <1>1 DEF Strays, StrayEnds, Terminate, Continues, TypeOK, service
<1>2. CASE finishAfterGroupExit
  <2>1. Ends("failed")
    BY <1>2 DEF finishAfterGroupExit, processGroupAlive, Ends, Truthful, TypeOK
  <2> QED
    BY <2>1 DEF Reply
<1>3. CASE Closes /\ processGroupAlive
  BY <1>3 DEF Closes, Continues, service
<1>4. CASE Closes /\ ~processGroupAlive
  <2>1. queue # <<>> /\ group = {} /\ UNCHANGED <<store, group>> /\ pipes' = "closed"
    BY <1>4 DEF Closes, processGroupAlive, TypeOK
  <2>2. current \in Entry
    BY <2>1, Removed DEF TypeOK, current
  <2>3. current.op \in Operation
    BY <2>2 DEF Entry
  <2>4. PICK reply \in Replies(current.op, store[current.p]), bound \in BOOLEAN :
           Settle(Believed(reply, bound))
    <3>1. "failed" \in Replies(current.op, store[current.p])
      BY DEF Replies
    <3> QED
      BY <1>4, <3>1 DEF Closes
  <2>5. Believed(reply, bound) \in Reply /\ Truthful(Believed(reply, bound))
    BY <2>3, AnswersAreTyped DEF Truthful
  <2> QED
    BY <2>1, <2>4, <2>5 DEF Ends
<1> QED
  BY <1>1, <1>2, <1>3, <1>4 DEF ChildStep

(* Every variable keeps its type, whatever is clicked, answered or lost.    *)
THEOREM TypeCorrect == Spec => []TypeOK
<1>1. Init => TypeOK
  BY DEF Init, TypeOK, Entry
<1>2. TypeOK /\ [Next]_vars => TypeOK'
  <2> SUFFICES ASSUME TypeOK, [Next]_vars PROVE TypeOK'
    OBVIOUS
  <2> USE DEF service, child
  <2>0. \A op \in Operation, p \in Proposal, by \in {"modal", "close", "shutdown"} :
          Enqueue(op, p, by) \in Seq(Entry) /\ Enqueue(op, p, by) # <<>>
    <3> TAKE op \in Operation, p \in Proposal, by \in {"modal", "close", "shutdown"}
    <3>1. [op |-> op, p |-> p, by |-> by] \in Entry
      BY EntryIsTyped
    <3> QED
      BY <3>1, Appended DEF TypeOK, Enqueue
  <2>1. ASSUME NEW p \in Proposal, ReadTarget(p) PROVE TypeOK'
    BY <2>0, <2>1 DEF ReadTarget, TypeOK, Operation
  <2>2. ASSUME NEW p \in Proposal, ChangeTarget(p) PROVE TypeOK'
    BY <2>2 DEF ChangeTarget, TypeOK, To
  <2>3. ASSUME NEW p \in Proposal, Prepare(p) PROVE TypeOK'
    BY <2>0, <2>3 DEF Prepare, TypeOK, Operation
  <2>4. ASSUME NEW p \in Proposal, Apply(p) PROVE TypeOK'
    BY <2>0, <2>4 DEF Apply, TypeOK, Operation
  <2>5. ASSUME NEW p \in Proposal, CancelAndReturn(p) PROVE TypeOK'
    BY <2>0, <2>5 DEF CancelAndReturn, TypeOK, Operation
  <2>6. ASSUME NEW p \in Proposal, Close(p) PROVE TypeOK'
    BY <2>0, <2>6 DEF Close, TypeOK, Operation
  <2>7. ASSUME NEW g \in group, Effect(g) PROVE TypeOK'
    BY <2>7 DEF Effect, TypeOK
  <2>8. ASSUME NEW g \in group, GroupExits(g) PROVE TypeOK'
    BY <2>8 DEF GroupExits, TypeOK
  <2>9. CASE GateFails
    BY <2>9, SettleKeepsTypes DEF GateFails, Reply, TypeOK
  <2>10. CASE Spawn
    <3>1. current \in Entry
      BY <2>10, Removed DEF Spawn, TypeOK, current
    <3> QED
      BY <2>10, <3>1 DEF Spawn, TypeOK, Entry
  <2>11. CASE ChildStep
    <3>1. CASE Continues
      BY <3>1 DEF Continues, TypeOK
    <3>2. ASSUME NEW reply \in Reply, Ends(reply) PROVE TypeOK'
      BY <3>2, SettleKeepsTypes DEF Ends
    <3> QED
      BY <2>11, <3>1, <3>2, ChildGoesOnOrEnds
  <2>14. CASE Shutdown
    BY <2>14 DEF Shutdown, TypeOK, Closing
  <2>15. CASE BarrierPasses
    BY <2>15 DEF BarrierPasses, TypeOK, Closing
  <2>16. ASSUME NEW p \in Proposal, ShutdownCancels(p) PROVE TypeOK'
    BY <2>0, <2>16 DEF ShutdownCancels, TypeOK, Operation
  <2>17. CASE UNCHANGED vars
    BY <2>17 DEF vars, child, service, TypeOK
  <2> QED
    BY <2>1, <2>2, <2>3, <2>4, <2>5, <2>6, <2>7, <2>8, <2>9, <2>10, <2>11, <2>14,
       <2>15, <2>16, <2>17
    DEF Next, ModalStep, ChildStep
<1> QED
  BY <1>1, <1>2, PTL DEF Spec

-----------------------------------------------------------------------------
(* Who works: the processes at work belong to the operation at the head of  *)
(* the queue, which goes on to be the head until it settles; and where the  *)
(* shutdown stands still, the queue is empty.                              *)
WorkInv ==
  /\ proc = "idle" => group = {}
  /\ proc # "idle" => group \subseteq {[op |-> current.op, p |-> current.p]}
  /\ phase \in {"failed", "done"} => queue = <<>>

(* A settled operation leaves an idle queue, and it is empty when the       *)
(* shutdown gives up.                                                      *)
LEMMA SettleStandsStill ==
  ASSUME TypeOK, WorkInv, queue # <<>>, NEW reply, Settle(reply), group' = {}
  PROVE  WorkInv'
<1>1. proc' = "idle"
  BY DEF Settle
<1>2. phase \notin {"failed", "done"}
  BY DEF WorkInv
<1>3. phase' \in {"failed", "done"} => queue' = <<>>
  BY <1>2 DEF Settle, ReadSettles, PrepareSettles, ApplySettles, CancelSettles, ShutdownHears,
              service
<1> QED
  BY <1>1, <1>3 DEF WorkInv

(* The processes at work are those of the current operation, always.        *)
THEOREM WorkInvariant == Spec => []WorkInv
<1>1. Init => WorkInv
  BY DEF Init, WorkInv
<1>2. TypeOK /\ WorkInv /\ [Next]_vars => WorkInv'
  <2> SUFFICES ASSUME TypeOK, WorkInv, [Next]_vars PROVE WorkInv'
    OBVIOUS
  <2> USE DEF service, child, accepting
  <2>0. \A op \in Operation, p \in Proposal, by \in {"modal", "close", "shutdown"} :
          queue # <<>> => Head(Enqueue(op, p, by)) = Head(queue)
    <3> TAKE op \in Operation, p \in Proposal, by \in {"modal", "close", "shutdown"}
    <3>1. [op |-> op, p |-> p, by |-> by] \in Entry
      BY EntryIsTyped
    <3> QED
      BY <3>1, Appended DEF TypeOK, Enqueue
  <2>01. queue = <<>> => proc = "idle"
    BY DEF TypeOK
  <2>1. ASSUME NEW p \in Proposal, ReadTarget(p) PROVE WorkInv'
    BY <2>0, <2>01, <2>1 DEF ReadTarget, WorkInv, Operation, current
  <2>2. ASSUME NEW p \in Proposal, ChangeTarget(p) PROVE WorkInv'
    BY <2>2 DEF ChangeTarget, WorkInv, current
  <2>3. ASSUME NEW p \in Proposal, Prepare(p) PROVE WorkInv'
    BY <2>0, <2>01, <2>3 DEF Prepare, WorkInv, Operation, current
  <2>4. ASSUME NEW p \in Proposal, Apply(p) PROVE WorkInv'
    BY <2>0, <2>01, <2>4 DEF Apply, WorkInv, Operation, current
  <2>5. ASSUME NEW p \in Proposal, CancelAndReturn(p) PROVE WorkInv'
    BY <2>0, <2>01, <2>5 DEF CancelAndReturn, WorkInv, Operation, current
  <2>6. ASSUME NEW p \in Proposal, Close(p) PROVE WorkInv'
    BY <2>0, <2>01, <2>6 DEF Close, WorkInv, Operation, current
  <2>7. ASSUME NEW g \in group, Effect(g) PROVE WorkInv'
    BY <2>7 DEF Effect, WorkInv, current
  <2>8. ASSUME NEW g \in group, GroupExits(g) PROVE WorkInv'
    BY <2>8 DEF GroupExits, WorkInv, current
  <2>9. CASE GateFails
    BY <2>9, SettleStandsStill DEF GateFails, WorkInv
  <2>10. CASE Spawn
    BY <2>10 DEF Spawn, WorkInv, current
  <2>11. CASE ChildStep
    <3>1. CASE Continues
      BY <3>1 DEF Continues, WorkInv, current
    <3>2. ASSUME NEW reply \in Reply, Ends(reply) PROVE WorkInv'
      BY <3>2, SettleStandsStill DEF Ends
    <3> QED
      BY <2>11, <3>1, <3>2, ChildGoesOnOrEnds
  <2>14. CASE Shutdown
    BY <2>14 DEF Shutdown, WorkInv, current
  <2>15. CASE BarrierPasses
    BY <2>15 DEF BarrierPasses, WorkInv, current
  <2>16. ASSUME NEW p \in Proposal, ShutdownCancels(p) PROVE WorkInv'
    BY <2>01, <2>16 DEF ShutdownCancels, WorkInv
  <2>17. CASE UNCHANGED vars
    BY <2>17 DEF vars, child, service, WorkInv, current
  <2> QED
    BY <2>1, <2>2, <2>3, <2>4, <2>5, <2>6, <2>7, <2>8, <2>9, <2>10, <2>11, <2>14,
       <2>15, <2>16, <2>17
    DEF Next, ModalStep, ChildStep
<1> QED
  BY <1>1, <1>2, TypeCorrect, PTL DEF Spec

(* Two memory operations never work on the files at once, for any number of *)
(* proposals (runMemoryWriteProcess finishes after the process group).      *)
THEOREM OperationsAreSerial == Spec => []OneOperationAtATime
<1>1. WorkInv => OneOperationAtATime
  <2> SUFFICES ASSUME WorkInv PROVE Cardinality(group) <= 1
    BY DEF OneOperationAtATime
  <2>1. \E g : group \subseteq {g}
    BY DEF WorkInv
  <2>2. PICK g : group \subseteq {g}
    BY <2>1
  <2>3. IsFiniteSet({g}) /\ Cardinality({g}) = 1
    BY FS_Singleton
  <2>4. Cardinality(group) <= Cardinality({g})
    BY <2>2, <2>3, FS_Subset
  <2> QED
    BY <2>3, <2>4
<1> QED
  BY <1>1, WorkInvariant, PTL

-----------------------------------------------------------------------------
(* Who asked: what waits in the queue was asked for by the shutdown exactly *)
(* in its two loops, and those ask to apply and to cancel.                  *)
QueueInv ==
  \A e \in In(queue) :
    /\ e.by = "shutdown" <=> phase \in {"recover", "cancel"}
    /\ e.by = "shutdown" => e.op \in {"apply", "cancel"}

(* What waits after an operation has settled: what waited before, a cancel  *)
(* of a closed modal, or the apply with which the shutdown finishes a write. *)
ClosingCancel(f) == f.op = "cancel" /\ f.by = "close" /\ phase = "open"
FinishingApply(f, e) == f.op = "apply" /\ f.by = "shutdown" /\ f.p = e.p /\ phase = "recover"

LEMMA QueueAfterSettling ==
  ASSUME TypeOK, queue # <<>>, NEW reply, Settle(reply)
  PROVE  \A f \in In(queue') :
            \/ f \in In(queue)
            \/ ClosingCancel(f)
            \/ /\ FinishingApply(f, current) /\ reply = "recoveryRequired"
               /\ current.op = "cancel" /\ current.by = "shutdown"
<1> DEFINE e == current
           closed == [op |-> "cancel", p |-> e.p, by |-> "close"]
           apply == [op |-> "apply", p |-> e.p, by |-> "shutdown"]
<1>1. e \in Entry /\ In(Tail(queue)) \subseteq In(queue)
  BY Removed DEF TypeOK, current
<1>2. closed \in Entry /\ apply \in Entry
  BY <1>1 DEF Entry, Operation
<1>3. /\ In(Tail(Append(queue, closed))) \subseteq In(queue) \cup {closed}
      /\ In(Tail(Append(queue, apply))) \subseteq In(queue) \cup {apply}
  BY <1>2, Replaced DEF TypeOK
<1>4. \/ queue' = Tail(queue)
      \/ queue' = Tail(Append(queue, closed)) /\ phase = "open"
      \/ /\ queue' = Tail(Append(queue, apply)) /\ phase = "recover"
         /\ reply = "recoveryRequired" /\ e.op = "cancel" /\ e.by = "shutdown"
  BY DEF Settle, ReadSettles, PrepareSettles, ApplySettles, CancelSettles, ShutdownHears,
         Enqueue, accepting
<1>5. ClosingCancel(closed) <=> phase = "open"
  BY DEF ClosingCancel
<1>6. FinishingApply(apply, current) <=> phase = "recover"
  BY DEF FinishingApply
<1> HIDE DEF closed, apply
<1>7. CASE queue' = Tail(queue)
  BY <1>1, <1>7
<1>8. CASE queue' = Tail(Append(queue, closed)) /\ phase = "open"
  BY <1>3, <1>5, <1>8
<1>9. CASE /\ queue' = Tail(Append(queue, apply)) /\ phase = "recover"
           /\ reply = "recoveryRequired" /\ e.op = "cancel" /\ e.by = "shutdown"
  BY <1>3, <1>6, <1>9
<1> QED
  BY <1>4, <1>7, <1>8, <1>9

(* The stage of the shutdown only changes by an answer when it gives up.    *)
LEMMA PhaseAfterSettling ==
  ASSUME TypeOK, WorkInv, QueueInv, queue # <<>>, NEW reply, Settle(reply)
  PROVE  \/ phase' = phase
         \/ phase \in {"recover", "cancel"} /\ phase' = "failed" /\ queue' = <<>>
<1>1. current \in In(queue)
  BY Removed DEF TypeOK, current
<1>2. current.by = "shutdown" => phase \in {"recover", "cancel"}
  BY <1>1 DEF QueueInv
<1> QED
  BY <1>2 DEF Settle, ReadSettles, PrepareSettles, ApplySettles, CancelSettles, ShutdownHears,
              service

(* Nothing waits in an empty queue.                                        *)
LEMMA EmptyQueue == In(<<>>) = {}
BY DEF In

(* An answer leaves in the queue what its stage may have there.             *)
LEMMA SettleKeepsQueueInv ==
  ASSUME TypeOK, WorkInv, QueueInv, queue # <<>>, NEW reply, Settle(reply)
  PROVE  QueueInv'
<1>1. CASE phase' = phase
  BY <1>1, QueueAfterSettling DEF QueueInv, ClosingCancel, FinishingApply
<1>2. CASE queue' = <<>>
  BY <1>2, EmptyQueue DEF QueueInv
<1> QED
  BY <1>1, <1>2, PhaseAfterSettling

(* While the shutdown works off its lists nobody else's operation waits,    *)
(* and outside of them none of its own does.                               *)
THEOREM QueueInvariant == Spec => []QueueInv
<1>1. Init => QueueInv
  BY EmptyQueue DEF Init, QueueInv
<1>2. TypeOK /\ WorkInv /\ QueueInv /\ [Next]_vars => QueueInv'
  <2> SUFFICES ASSUME TypeOK, WorkInv, QueueInv, [Next]_vars PROVE QueueInv'
    OBVIOUS
  <2> USE DEF service, child, accepting
  <2>0. \A op \in Operation, p \in Proposal, by \in {"modal", "close", "shutdown"} :
          In(Enqueue(op, p, by)) = In(queue) \cup {[op |-> op, p |-> p, by |-> by]}
    <3> TAKE op \in Operation, p \in Proposal, by \in {"modal", "close", "shutdown"}
    <3>1. [op |-> op, p |-> p, by |-> by] \in Entry
      BY EntryIsTyped
    <3> QED
      BY <3>1, Appended DEF TypeOK, Enqueue
  <2>1. ASSUME NEW p \in Proposal, ReadTarget(p) PROVE QueueInv'
    BY <2>0, <2>1 DEF ReadTarget, QueueInv, Operation
  <2>2. ASSUME NEW p \in Proposal, ChangeTarget(p) PROVE QueueInv'
    BY <2>2 DEF ChangeTarget, QueueInv
  <2>3. ASSUME NEW p \in Proposal, Prepare(p) PROVE QueueInv'
    BY <2>0, <2>3 DEF Prepare, QueueInv, Operation
  <2>4. ASSUME NEW p \in Proposal, Apply(p) PROVE QueueInv'
    BY <2>0, <2>4 DEF Apply, QueueInv, Operation
  <2>5. ASSUME NEW p \in Proposal, CancelAndReturn(p) PROVE QueueInv'
    BY <2>0, <2>5 DEF CancelAndReturn, QueueInv, Operation
  <2>6. ASSUME NEW p \in Proposal, Close(p) PROVE QueueInv'
    BY <2>0, <2>6 DEF Close, QueueInv, Operation
  <2>7. ASSUME NEW g \in group, Effect(g) PROVE QueueInv'
    BY <2>7 DEF Effect, QueueInv
  <2>8. ASSUME NEW g \in group, GroupExits(g) PROVE QueueInv'
    BY <2>8 DEF GroupExits, QueueInv
  <2>9. ASSUME NEW reply, Settle(reply), queue # <<>> PROVE QueueInv'
    BY <2>9, SettleKeepsQueueInv
  <2>10. CASE GateFails
    BY <2>9, <2>10 DEF GateFails
  <2>11. CASE Spawn \/ Continues
    BY <2>11 DEF Spawn, Continues, QueueInv
  <2>16. CASE ChildStep
    BY <2>9, <2>11, <2>16, ChildGoesOnOrEnds DEF Ends
  <2>12. CASE Shutdown
    BY <2>12, EmptyQueue DEF Shutdown, QueueInv, WorkInv
  <2>13. CASE BarrierPasses
    BY <2>13, EmptyQueue DEF BarrierPasses, QueueInv
  <2>14. ASSUME NEW p \in Proposal, ShutdownCancels(p) PROVE QueueInv'
    BY <2>0, <2>14, EmptyQueue DEF ShutdownCancels, QueueInv, Operation
  <2>15. CASE UNCHANGED vars
    BY <2>15 DEF vars, child, service, QueueInv
  <2> QED
    BY <2>1, <2>2, <2>3, <2>4, <2>5, <2>6, <2>7, <2>8, <2>10, <2>11, <2>12, <2>13,
       <2>14, <2>15, <2>16
    DEF Next, ModalStep, ChildStep
<1> QED
  BY <1>1, <1>2, TypeCorrect, WorkInvariant, PTL DEF Spec

(* The service is a ShutdownBarrier: the operation at work keeps the queue  *)
(* from being empty, and an empty queue is what each stage of the shutdown  *)
(* waits for.                                                              *)
THEOREM ServiceIsBarrier == Spec => ImplementsBarrier
<1>1. Init => Barrier!Init
  BY DEF Init, Barrier!Init
<1>2. TypeOK /\ WorkInv /\ WorkInv' /\ QueueInv /\ [Next]_vars => [Barrier!Next]_(Barrier!vars)
  <2> SUFFICES ASSUME TypeOK, WorkInv, WorkInv', QueueInv, [Next]_vars
               PROVE  [Barrier!Next]_(Barrier!vars)
    OBVIOUS
  <2> USE DEF Barrier!Next, Barrier!Work, Barrier!Close, Barrier!Finish, Barrier!vars
  <2>1. CASE Shutdown
    BY <2>1 DEF Shutdown, child
  <2>2. CASE BarrierPasses
    BY <2>2 DEF BarrierPasses, child, TypeOK, WorkInv
  <2>3. CASE phase' = phase /\ (phase # "done" \/ group' = group)
    BY <2>3
  <2>4. ASSUME NEW reply, Settle(reply), queue # <<>>
        PROVE  [Barrier!Next]_(Barrier!vars)
    <3>1. phase' = phase \/ (phase \in {"recover", "cancel"} /\ phase' = "failed")
      BY <2>4, PhaseAfterSettling
    <3>2. phase # "done"
      BY <2>4 DEF WorkInv
    <3>3. CASE phase' = phase
      BY <2>3, <3>2, <3>3
    <3>4. CASE phase = "recover" /\ phase' = "failed"
      BY <3>4
    <3>5. CASE phase = "cancel" /\ phase' = "failed"
      BY <3>5
    <3> QED
      BY <3>1, <3>3, <3>4, <3>5
  <2>5. CASE GateFails \/ ChildStep
    <3>1. CASE GateFails
      BY <2>4, <3>1 DEF GateFails
    <3>2. CASE Continues
      BY <2>3, <3>2 DEF Continues, service
    <3>3. ASSUME NEW reply \in Reply, Ends(reply) PROVE [Barrier!Next]_(Barrier!vars)
      BY <2>4, <3>3 DEF Ends
    <3> QED
      BY <2>5, <3>1, <3>2, <3>3, ChildGoesOnOrEnds
  <2>6. ASSUME NEW p \in Proposal, ModalStep(p) \/ ShutdownCancels(p)
        PROVE  [Barrier!Next]_(Barrier!vars)
    BY <2>3, <2>6 DEF ModalStep, ReadTarget, ChangeTarget, Prepare, Apply, CancelAndReturn,
                      Close, ShutdownCancels, service, child
  <2>7. ASSUME NEW g \in group, Effect(g) \/ GroupExits(g)
        PROVE  [Barrier!Next]_(Barrier!vars)
    <3>1. phase # "done"
      BY <2>7 DEF WorkInv, TypeOK
    <3> QED
      BY <2>3, <2>7, <3>1 DEF Effect, GroupExits, service, child
  <2>8. CASE Spawn
    BY <2>3, <2>8 DEF Spawn, service, WorkInv
  <2>9. CASE UNCHANGED vars
    BY <2>3, <2>9 DEF child, service, vars
  <2> QED
    BY <2>1, <2>2, <2>5, <2>6, <2>7, <2>8, <2>9 DEF Next, ChildStep
<1> QED
  BY <1>1, <1>2, TypeCorrect, WorkInvariant, QueueInvariant, PTL DEF Spec, ImplementsBarrier, Barrier!Spec
-----------------------------------------------------------------------------
(* What is remembered: a write that is half done, and whose apply waits and  *)
(* could begin, is in recovery; a proposal that was reported is tracked     *)
(* until the runtime has settled it.                                       *)
Settled == {"applied", "cancelled"}

MemoryInv ==
  /\ HalfDoneIsTracked
  /\ \A e \in In(queue) : e.op = "apply" => e.p \in recovery \/ store[e.p] \in Settled
  /\ \A p \in known : p \in tracked \/ store[p] \in Settled

(* Only what the store has settled is forgotten.                            *)
LEMMA ForgetsTheSettled ==
  ASSUME TypeOK, QueueInv, queue # <<>>, NEW reply, Settle(reply), Truthful(reply)
  PROVE  /\ \/ tracked \subseteq tracked' /\ recovery \subseteq recovery'
            \/ /\ store[current.p] \in Settled
               /\ tracked \ {current.p} \subseteq tracked'
               /\ recovery \ {current.p} \subseteq recovery'
         /\ known' = known \/ (known' = known \cup {current.p} /\ current.p \in tracked')
<1>1. current \in In(queue)
  BY Removed DEF TypeOK, current
<1>2. current.by = "shutdown" => current.op \in {"apply", "cancel"}
  BY <1>1 DEF QueueInv
<1>3. ASSUME reply = "ok", current.op \in {"apply", "cancel"}
      PROVE  store[current.p] \in Settled
  BY <1>3 DEF Truthful, Replies, Settled
<1>4. ASSUME reply = "notCancellable", current.op = "cancel"
      PROVE  store[current.p] \in Settled
  BY <1>4 DEF Truthful, Replies, Settled
<1> USE DEF service, clearProposalTracking
<1>5. CASE current.op = "read" /\ ReadSettles(current, reply)
  BY <1>5 DEF ReadSettles
<1>6. CASE current.op = "prepare" /\ PrepareSettles(current, reply)
  BY <1>6 DEF PrepareSettles
<1>7. CASE current.op = "apply" /\ ApplySettles(current, reply)
  BY <1>3, <1>7 DEF ApplySettles
<1>8. CASE current.op = "cancel" /\ CancelSettles(current, reply)
  BY <1>3, <1>8 DEF CancelSettles
<1>9. CASE current.by = "shutdown" /\ ShutdownHears(current, reply)
  BY <1>2, <1>3, <1>4, <1>9 DEF ShutdownHears
<1> QED
  BY <1>5, <1>6, <1>7, <1>8, <1>9 DEF Settle

(* An answer that is true of the store makes the service forget nothing it  *)
(* still needs.                                                            *)
LEMMA SettleKeepsMemory ==
  ASSUME TypeOK, QueueInv, MemoryInv, queue # <<>>, NEW reply, Settle(reply), Truthful(reply),
         UNCHANGED store
  PROVE  MemoryInv'
<1>1. \A p : store[p] \notin Settled =>
        (p \in tracked => p \in tracked') /\ (p \in recovery => p \in recovery')
  BY ForgetsTheSettled
<1>2. HalfDoneIsTracked'
  BY <1>1 DEF MemoryInv, HalfDoneIsTracked, Settled
<1>3. \A f \in In(queue') : f.op = "apply" => f.p \in recovery' \/ store[f.p] \in Settled
  <2> SUFFICES ASSUME NEW f \in In(queue'), f.op = "apply", store[f.p] \notin Settled
               PROVE  f.p \in recovery'
    OBVIOUS
  <2>1. CASE f \in In(queue)
    BY <1>1, <2>1 DEF MemoryInv
  <2>2. CASE /\ FinishingApply(f, current) /\ reply = "recoveryRequired"
             /\ current.op = "cancel"
    <3>1. store[current.p] = "half" /\ f.p = current.p
      BY <2>2 DEF Truthful, Replies, FinishingApply
    <3>2. current \in Entry
      BY Removed DEF TypeOK, current
    <3>3. current.p \in Proposal
      BY <3>2 DEF Entry
    <3> QED
      BY <1>2, <3>1, <3>3 DEF HalfDoneIsTracked
  <2> QED
    BY <2>1, <2>2, QueueAfterSettling DEF ClosingCancel
<1>4. \A p \in known' : p \in tracked' \/ store[p] \in Settled
  BY <1>1, ForgetsTheSettled DEF MemoryInv
<1> QED
  BY <1>2, <1>3, <1>4 DEF MemoryInv

(* Nothing the service may still have to finish is ever forgotten, whatever *)
(* the runtime answers or fails to answer.                                 *)
THEOREM MemoryInvariant == Spec => []MemoryInv
<1>1. Init => MemoryInv
  BY EmptyQueue DEF Init, MemoryInv, HalfDoneIsTracked
<1>2. TypeOK /\ WorkInv /\ QueueInv /\ MemoryInv /\ [Next]_vars => MemoryInv'
  <2> SUFFICES ASSUME TypeOK, WorkInv, QueueInv, MemoryInv, [Next]_vars PROVE MemoryInv'
    OBVIOUS
  <2> USE DEF service, child, accepting
  <2>0. \A op \in Operation, p \in Proposal, by \in {"modal", "close", "shutdown"} :
          In(Enqueue(op, p, by)) = In(queue) \cup {[op |-> op, p |-> p, by |-> by]}
    <3> TAKE op \in Operation, p \in Proposal, by \in {"modal", "close", "shutdown"}
    <3>1. [op |-> op, p |-> p, by |-> by] \in Entry
      BY EntryIsTyped
    <3> QED
      BY <3>1, Appended DEF TypeOK, Enqueue
  <2>1. ASSUME NEW p \in Proposal, ReadTarget(p) PROVE MemoryInv'
    BY <2>0, <2>1 DEF ReadTarget, MemoryInv, HalfDoneIsTracked, Operation
  <2>2. ASSUME NEW p \in Proposal, ChangeTarget(p) PROVE MemoryInv'
    BY <2>2 DEF ChangeTarget, MemoryInv, HalfDoneIsTracked
  <2>3. ASSUME NEW p \in Proposal, Prepare(p) PROVE MemoryInv'
    BY <2>0, <2>3 DEF Prepare, MemoryInv, HalfDoneIsTracked, Operation
  <2>4. ASSUME NEW p \in Proposal, Apply(p) PROVE MemoryInv'
    BY <2>0, <2>4 DEF Apply, MemoryInv, HalfDoneIsTracked, Operation
  <2>5. ASSUME NEW p \in Proposal, CancelAndReturn(p) PROVE MemoryInv'
    BY <2>0, <2>5 DEF CancelAndReturn, MemoryInv, HalfDoneIsTracked, Operation
  <2>6. ASSUME NEW p \in Proposal, Close(p) PROVE MemoryInv'
    BY <2>0, <2>6 DEF Close, MemoryInv, HalfDoneIsTracked, Operation
  <2>7. ASSUME NEW g \in group, Effect(g) PROVE MemoryInv'
    <3>1. queue # <<>> /\ g.op = current.op /\ g.p = current.p
      BY DEF WorkInv, TypeOK
    <3>2. current \in In(queue) /\ g.p \in Proposal
      BY <3>1, Removed DEF TypeOK, current, Entry
    <3>3. /\ \A p \in Proposal : store[p] \in Settled => store'[p] \in Settled
          /\ \A p \in Proposal : store'[p] = "half" => p \in recovery
      BY <2>7, <3>1, <3>2 DEF Effect, TypeOK, MemoryInv, HalfDoneIsTracked, Settled
    <3>4. \A e \in In(queue) : e.p \in Proposal
      <4>1. In(queue) \subseteq Entry
        BY DEF In, TypeOK
      <4> QED
        BY <4>1 DEF Entry
    <3>5. UNCHANGED <<queue, tracked, recovery, known>> /\ known \subseteq Proposal
      BY <2>7 DEF Effect, TypeOK
    <3> QED
      BY <3>3, <3>4, <3>5 DEF MemoryInv, HalfDoneIsTracked
  <2>8. ASSUME NEW g \in group, GroupExits(g) PROVE MemoryInv'
    BY <2>8 DEF GroupExits, MemoryInv, HalfDoneIsTracked
  <2>9. CASE GateFails
    <3>1. queue # <<>> /\ Settle("failed") /\ UNCHANGED store
      BY <2>9 DEF GateFails
    <3>2. Truthful("failed")
      BY DEF Truthful
    <3> QED
      BY <3>1, <3>2, SettleKeepsMemory
  <2>10. CASE ChildStep
    <3>1. CASE Continues
      BY <3>1 DEF Continues, MemoryInv, HalfDoneIsTracked
    <3>2. ASSUME NEW reply \in Reply, Ends(reply) PROVE MemoryInv'
      BY <3>2, SettleKeepsMemory DEF Ends
    <3> QED
      BY <2>10, <3>1, <3>2, ChildGoesOnOrEnds
  <2>11. CASE Spawn
    BY <2>11 DEF Spawn, MemoryInv, HalfDoneIsTracked
  <2>12. CASE Shutdown \/ BarrierPasses
    BY <2>12 DEF Shutdown, BarrierPasses, MemoryInv, HalfDoneIsTracked
  <2>13. ASSUME NEW p \in Proposal, ShutdownCancels(p) PROVE MemoryInv'
    BY <2>0, <2>13 DEF ShutdownCancels, MemoryInv, HalfDoneIsTracked, Operation
  <2>14. CASE UNCHANGED vars
    BY <2>14 DEF vars, child, service, MemoryInv, HalfDoneIsTracked
  <2> QED
    BY <2>1, <2>2, <2>3, <2>4, <2>5, <2>6, <2>7, <2>8, <2>9, <2>10, <2>11, <2>12,
       <2>13, <2>14
    DEF Next, ModalStep, ChildStep
<1> QED
  BY <1>1, <1>2, TypeCorrect, WorkInvariant, QueueInvariant, PTL DEF Spec

(* A formal memory file that may be half written is never forgotten.        *)
THEOREM HalfDoneIsRemembered == Spec => []HalfDoneIsTracked
BY MemoryInvariant, PTL DEF MemoryInv

-----------------------------------------------------------------------------
(* What the shutdown has left to do: each of its loops holds everything it  *)
(* was started for and has not settled.                                    *)
StageInv ==
  /\ phase = "recover" => recovery \subseteq todo
  /\ phase = "cancel" => recovery = {} /\ tracked \subseteq todo
  /\ phase = "done" => tracked = {}

(* In a loop of the shutdown every answer is to its own question; only what *)
(* it settled leaves its list.                                             *)
LEMMA SettleKeepsStage ==
  ASSUME TypeOK, WorkInv, QueueInv, StageInv, queue # <<>>, NEW reply, Settle(reply)
  PROVE  StageInv'
<1>1. current \in In(queue)
  BY Removed DEF TypeOK, current
<1>2. phase \in {"recover", "cancel"} => /\ current.by = "shutdown"
                                         /\ current.op \in {"apply", "cancel"}
  BY <1>1 DEF QueueInv
<1>3. phase # "done"
  BY DEF WorkInv
<1>4. CASE phase \in {"recover", "cancel"}
  <2>1. ShutdownHears(current, reply)
    BY <1>2, <1>4 DEF Settle, ApplySettles, CancelSettles
  <2> QED
    BY <1>4, <2>1 DEF ShutdownHears, clearProposalTracking, StageInv
<1>5. CASE phase \notin {"recover", "cancel"}
  <2>1. phase' = phase
    BY <1>5, PhaseAfterSettling
  <2> QED
    BY <1>3, <1>5, <2>1 DEF StageInv
<1> QED
  BY <1>4, <1>5

(* The loops of the shutdown lose none of what they have to settle.         *)
THEOREM StageInvariant == Spec => []StageInv
<1>1. Init => StageInv
  BY DEF Init, StageInv
<1>2. TypeOK /\ WorkInv /\ QueueInv /\ StageInv /\ [Next]_vars => StageInv'
  <2> SUFFICES ASSUME TypeOK, WorkInv, QueueInv, StageInv, [Next]_vars PROVE StageInv'
    OBVIOUS
  <2> USE DEF service, child, accepting
  <2>1. CASE UNCHANGED service
    BY <2>1 DEF StageInv
  <2>2. ASSUME NEW p \in Proposal, Apply(p) PROVE StageInv'
    BY <2>2 DEF Apply, StageInv
  <2>3. ASSUME NEW p \in Proposal,
               ReadTarget(p) \/ ChangeTarget(p) \/ Prepare(p) \/ CancelAndReturn(p)
               \/ Close(p) \/ ShutdownCancels(p)
        PROVE  StageInv'
    BY <2>1, <2>3 DEF ReadTarget, ChangeTarget, Prepare, CancelAndReturn, Close, ShutdownCancels
  <2>4. ASSUME NEW g \in group, Effect(g) \/ GroupExits(g) PROVE StageInv'
    BY <2>1, <2>4 DEF Effect, GroupExits
  <2>5. CASE GateFails \/ ChildStep
    <3>1. CASE GateFails
      BY <3>1, SettleKeepsStage DEF GateFails
    <3>2. CASE Continues
      BY <2>1, <3>2 DEF Continues
    <3>3. ASSUME NEW reply \in Reply, Ends(reply) PROVE StageInv'
      BY <3>3, SettleKeepsStage DEF Ends
    <3> QED
      BY <2>5, <3>1, <3>2, <3>3, ChildGoesOnOrEnds
  <2>6. CASE Spawn
    BY <2>1, <2>6 DEF Spawn
  <2>7. CASE Shutdown
    BY <2>7 DEF Shutdown, StageInv
  <2>8. CASE BarrierPasses
    <3>1. CASE phase = "barrier"
      BY <2>8, <3>1 DEF BarrierPasses, StageInv
    <3>2. CASE phase = "recover"
      BY <2>8, <3>2 DEF BarrierPasses, StageInv
    <3>3. CASE phase = "cancel"
      BY <2>8, <3>3 DEF BarrierPasses, StageInv
    <3> QED
      BY <2>8, <3>1, <3>2, <3>3 DEF BarrierPasses
  <2>9. CASE UNCHANGED vars
    BY <2>1, <2>9 DEF vars, child, service
  <2> QED
    BY <2>2, <2>3, <2>4, <2>5, <2>6, <2>7, <2>8, <2>9 DEF Next, ModalStep, ChildStep
<1> QED
  BY <1>1, <1>2, TypeCorrect, WorkInvariant, QueueInvariant, PTL DEF Spec

(* A shutdown that reports success leaves nothing to settle: every proposal *)
(* the service was told of is written whole or cancelled in the store.      *)
THEOREM ShutdownLeavesNothing == Spec => []ShutdownSettles
<1>1. StageInv /\ MemoryInv => ShutdownSettles
  BY DEF StageInv, MemoryInv, Settled, ShutdownSettles
<1> QED
  BY <1>1, StageInvariant, MemoryInvariant, PTL
=============================================================================
