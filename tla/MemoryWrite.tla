---------------------------- MODULE MemoryWrite ----------------------------
(***************************************************************************)
(* Confirmed writes to the Agent Memory: the modal in which the user        *)
(* prepares and confirms one proposal, the service that queues the          *)
(* operations and remembers what it must clean up, the process of each      *)
(* operation, and the store of the external runtime.                        *)
(*                                                                         *)
(* A proposal stands for one `prepare`; a modal that goes back to editing   *)
(* and prepares anew is another member of Proposal.  The runtime answers    *)
(* by what its store holds, or fails; everything the service refuses to     *)
(* believe (unreadable, for another proposal, a bad exit code) is "failed". *)
(***************************************************************************)
EXTENDS Naturals, Sequences, FiniteSets

CONSTANT Proposal

VARIABLES
    store,     \* the runtime's record of each proposal (external)
    group,     \* operations whose process group still has a live process
    proc,      \* the operation at the head of the queue: "idle" while its
               \* gate is awaited, then "running", then "dying"
    pipes,     \* who holds its pipes: "inside" its group, a process "outside"
               \* it, or they are "closed" (childClosed)
    queue,     \* instanceQueue: operations not yet settled, first one current
    tracked,   \* pendingPreparedIds, with their fencing tokens
    recovery,  \* pendingApplyRecovery and attemptedProposalIds
    modal,     \* the modal of each proposal
    phase,     \* of the service: "open", or how far its shutdown has come
    todo,      \* what the current loop of the shutdown has left
    known      \* proposals whose preparation was reported (history)

child == <<group, proc, pipes>>
service == <<tracked, recovery, phase, todo, known>>
vars == <<store, child, queue, modal, service>>

Operation == {"read", "prepare", "apply", "cancel"}

(* Who waits for an operation: the modal's button, the closing of a modal,  *)
(* or the shutdown.                                                        *)
Entry == [op: Operation, p: Proposal, by: {"modal", "close", "shutdown"}]

Closing == {"barrier", "recover", "cancel"}

Init ==
    /\ store = [p \in Proposal |-> "none"]
    /\ group = {}
    /\ proc = "idle"
    /\ pipes = "closed"
    /\ queue = <<>>
    /\ tracked = {}
    /\ recovery = {}
    /\ modal = [p \in Proposal |-> [stage |-> "target", attempted |-> FALSE, closed |-> FALSE]]
    /\ phase = "open"
    /\ todo = {}
    /\ known = {}

accepting == phase = "open"

current == Head(queue)

Busy(p) == \E i \in DOMAIN queue : queue[i].p = p /\ queue[i].by = "modal"

Open(p, stage) == modal[p].stage = stage /\ ~modal[p].closed

To(p, stage) == modal' = [modal EXCEPT ![p].stage = stage]

Enqueue(op, p, by) == Append(queue, [op |-> op, p |-> p, by |-> by])

-----------------------------------------------------------------------------
(* The modal.  Its buttons are disabled while it waits, except "change the  *)
(* target"; it can be closed at any time.                                  *)

(* A click that a service which is shutting down refuses leaves the modal   *)
(* as it was.                                                              *)
ReadTarget(p) ==
    /\ Open(p, "target") /\ ~Busy(p) /\ accepting
    /\ queue' = Enqueue("read", p, "modal")
    /\ UNCHANGED <<store, child, modal, service>>

ChangeTarget(p) ==
    /\ Open(p, "edit")
    /\ To(p, "target")
    /\ UNCHANGED <<store, child, queue, service>>

Prepare(p) ==
    /\ Open(p, "edit") /\ ~Busy(p) /\ accepting
    /\ store[p] = "none"                  \* otherwise: another proposal
    /\ queue' = Enqueue("prepare", p, "modal")
    /\ UNCHANGED <<store, child, modal, service>>

(* Confirming.  From here on closing the modal no longer cancels: whether   *)
(* the file was changed is for the runtime to say.                         *)
Apply(p) ==
    /\ Open(p, "prepared") /\ ~Busy(p)
    /\ modal' = [modal EXCEPT ![p].attempted = TRUE]
    /\ IF accepting
       THEN /\ tracked' = tracked \cup {p}
            /\ recovery' = recovery \cup {p}
            /\ queue' = Enqueue("apply", p, "modal")
       ELSE UNCHANGED <<tracked, recovery, queue>>
    /\ UNCHANGED <<store, child, phase, todo, known>>

CancelAndReturn(p) ==
    /\ Open(p, "prepared") /\ ~Busy(p) /\ ~modal[p].attempted
    /\ accepting /\ p \in tracked
    /\ queue' = Enqueue("cancel", p, "modal")
    /\ UNCHANGED <<store, child, modal, service>>

Close(p) ==
    /\ ~modal[p].closed
    /\ modal' = [modal EXCEPT ![p].closed = TRUE]
    /\ queue' = IF Open(p, "prepared") /\ ~modal[p].attempted /\ accepting /\ p \in tracked
                THEN Enqueue("cancel", p, "close") ELSE queue
    /\ UNCHANGED <<store, child, service>>

-----------------------------------------------------------------------------
(* The process of the current operation, and what it does to the store.     *)

(* The operation ends with the child, whatever it leaves behind.            *)
OnlyTheChildCounts == FALSE

processGroupAlive == group # {}

(* The runtime's store.  An apply has two halves, and one that stopped      *)
(* between them is completed by the next; a cancel refuses both a half-done *)
(* and a done apply.                                                       *)
Effect(g) ==
    /\ \/ g.op = "prepare" /\ store[g.p] = "none" /\ store' = [store EXCEPT ![g.p] = "prepared"]
       \/ g.op = "apply" /\ store[g.p] = "prepared" /\ store' = [store EXCEPT ![g.p] = "half"]
       \/ g.op = "apply" /\ store[g.p] = "half" /\ store' = [store EXCEPT ![g.p] = "applied"]
       \/ g.op = "cancel" /\ store[g.p] = "prepared" /\ store' = [store EXCEPT ![g.p] = "cancelled"]
    /\ UNCHANGED <<child, queue, modal, service>>

(* What the runtime may say at the end of an operation on a proposal whose  *)
(* record is s.  "noop" stands for merge_required as well.                 *)
Replies(op, s) ==
    {"failed"} \cup
    CASE op = "read" -> {"ok"}
      [] op = "prepare" /\ s = "prepared" -> {"ok"}
      [] op = "prepare" /\ s = "none" -> {"noop"}
      [] op = "apply" /\ s = "applied" -> {"ok"}
      [] op = "cancel" /\ s = "cancelled" -> {"ok"}
      [] op = "cancel" /\ s = "half" -> {"recoveryRequired"}
      [] op = "cancel" /\ s = "applied" -> {"notCancellable"}
      [] OTHER -> {}

(* The answer is the service's only when it parses and is bound to what was *)
(* asked: the proposal, its token, the target that was read, the text.      *)
Believed(reply, bound) == IF bound \/ reply = "failed" THEN reply ELSE "failed"

ReadSettles(e, reply) ==
    /\ modal' = IF reply = "ok" /\ ~modal[e.p].closed
                THEN [modal EXCEPT ![e.p].stage = "edit"] ELSE modal
    /\ queue' = Tail(queue)
    /\ UNCHANGED service

(* A modal that was closed meanwhile cancels the proposal at once, unless   *)
(* the service no longer accepts it: then its shutdown does.               *)
PrepareSettles(e, reply) ==
    /\ IF reply = "ok"
       THEN tracked' = tracked \cup {e.p} /\ known' = known \cup {e.p}
       ELSE UNCHANGED <<tracked, known>>
    /\ IF modal[e.p].closed
       THEN /\ queue' = IF reply = "ok" /\ accepting
                        THEN Tail(Enqueue("cancel", e.p, "close")) ELSE Tail(queue)
            /\ UNCHANGED modal
       ELSE /\ queue' = Tail(queue)
            /\ modal' = CASE reply = "ok" -> [modal EXCEPT ![e.p].stage = "prepared"]
                          [] reply = "noop" -> [modal EXCEPT ![e.p].stage = "result"]
                          [] OTHER -> modal
    /\ UNCHANGED <<recovery, phase, todo>>

clearProposalTracking(p) == tracked' = tracked \ {p} /\ recovery' = recovery \ {p}

(* The shutdown asks again after every failure.                             *)
AsksForEver(e, reply) ==
    /\ IF reply = "ok"
       THEN clearProposalTracking(e.p) /\ todo' = todo \ {e.p} /\ queue' = Tail(queue)
       ELSE queue' = Tail(Append(queue, e)) /\ UNCHANGED <<tracked, recovery, todo>>
    /\ UNCHANGED <<modal, known, phase>>

(* How the two loops of the shutdown take the end of what they asked for.   *)
ShutdownHears(e, reply) ==
    /\ queue' = IF e.op = "cancel" /\ phase = "recover" /\ reply = "recoveryRequired"
                THEN Tail(Enqueue("apply", e.p, "shutdown")) ELSE Tail(queue)
    /\ IF \/ reply = "ok"
          \/ e.op = "cancel" /\ phase = "recover" /\ reply = "notCancellable"
       THEN clearProposalTracking(e.p) /\ todo' = todo \ {e.p} /\ UNCHANGED phase
       ELSE /\ phase' = IF queue' = <<>> THEN "failed" ELSE phase
            /\ UNCHANGED <<tracked, recovery, todo>>
    /\ UNCHANGED <<modal, known>>

(* A failed apply is forgotten like a successful one.                       *)
ForgetsFailedApply(e, reply) ==
    /\ e.by = "modal"
    /\ clearProposalTracking(e.p)
    /\ modal' = IF reply = "ok" /\ ~modal[e.p].closed
                THEN [modal EXCEPT ![e.p].stage = "result"] ELSE modal
    /\ queue' = Tail(queue)
    /\ UNCHANGED <<phase, todo, known>>

ApplySettles(e, reply) ==
    /\ e.by = "modal"
    /\ IF reply = "ok" THEN clearProposalTracking(e.p) ELSE UNCHANGED <<tracked, recovery>>
    /\ modal' = IF reply = "ok" /\ ~modal[e.p].closed
                THEN [modal EXCEPT ![e.p].stage = "result"] ELSE modal
    /\ queue' = Tail(queue)
    /\ UNCHANGED <<phase, todo, known>>

CancelSettles(e, reply) ==
    /\ e.by # "shutdown"
    /\ IF reply = "ok" THEN clearProposalTracking(e.p) ELSE UNCHANGED <<tracked, recovery>>
    /\ modal' = IF reply = "ok" /\ e.by = "modal" /\ ~modal[e.p].closed
                THEN [modal EXCEPT ![e.p].stage = "edit"] ELSE modal
    /\ queue' = Tail(queue)
    /\ UNCHANGED <<phase, todo, known>>

Settle(reply) ==
    /\ proc' = "idle"
    /\ \/ current.op = "read" /\ ReadSettles(current, reply)
       \/ current.op = "prepare" /\ PrepareSettles(current, reply)
       \/ current.op = "apply" /\ ApplySettles(current, reply)
       \/ current.op = "cancel" /\ CancelSettles(current, reply)
       \/ current.by = "shutdown" /\ ShutdownHears(current, reply)

(* The runtime is not the one the plugin was checked with, or its program   *)
(* is missing or cannot be started.                                        *)
GateFails ==
    /\ queue # <<>> /\ proc = "idle"
    /\ Settle("failed")
    /\ UNCHANGED <<store, group, pipes>>

Spawn ==
    /\ queue # <<>> /\ proc = "idle"
    /\ proc' = "running" /\ pipes' = "inside"
    /\ group' = group \cup {[op |-> current.op, p |-> current.p]}
    /\ UNCHANGED <<store, queue, modal, service>>

(* The runtime's processes end, by themselves or killed.  One that has left  *)
(* the group is not, and may hold a pipe for as long as it likes.           *)
GroupExits(g) ==
    /\ group' = group \ {g}
    /\ UNCHANGED <<store, proc, pipes, queue, modal, service>>

Strays ==
    /\ pipes = "inside" /\ processGroupAlive
    /\ pipes' = "outside"
    /\ UNCHANGED <<store, group, proc, queue, modal, service>>

StrayEnds ==
    /\ pipes = "outside"
    /\ pipes' = "inside"
    /\ UNCHANGED <<store, group, proc, queue, modal, service>>

(* The child's 'close': it has ended and nobody holds its pipes.  What is    *)
(* left of its group is told to stop.                                      *)
Closes ==
    /\ proc # "idle" /\ pipes = "inside" /\ pipes' = "closed"
    /\ \/ processGroupAlive /\ proc' = "dying" /\ UNCHANGED <<queue, modal, service>>
       \/ /\ ~processGroupAlive
          /\ \E reply \in IF proc = "running" THEN Replies(current.op, store[current.p])
                                            ELSE {"failed"}, bound \in BOOLEAN :
                Settle(Believed(reply, bound))
    /\ UNCHANGED <<store, group>>

(* The time-out rejects the operation at once.                              *)
RejectsAtOnce ==
    /\ proc = "running"
    /\ Settle("failed")
    /\ UNCHANGED <<store, group, pipes>>

(* It ran out of time or said too much: the group is told to stop, and the  *)
(* operation is not over yet.                                              *)
Terminate ==
    /\ proc = "running"
    /\ proc' = "dying"
    /\ UNCHANGED <<store, group, pipes, queue, modal, service>>

(* The poll after the 'close'.                                             *)
finishAfterGroupExit ==
    /\ proc = "dying" /\ pipes = "closed" /\ ~processGroupAlive
    /\ Settle("failed")
    /\ UNCHANGED <<store, group, pipes>>

-----------------------------------------------------------------------------
(* The shutdown.  From its first step on nothing new is accepted.           *)

Shutdown ==
    /\ phase \in {"open", "failed"}
    /\ phase' = "barrier"
    /\ todo' = {}
    /\ UNCHANGED <<store, child, queue, modal, tracked, recovery, known>>

(* Only what was never confirmed is cleaned up.                             *)
SkipsRecovery ==
    /\ queue = <<>> /\ todo = {}
    /\ \/ phase = "barrier" /\ phase' = "cancel" /\ todo' = tracked \ recovery
       \/ phase = "cancel" /\ phase' = "done" /\ UNCHANGED todo
    /\ UNCHANGED <<store, child, queue, modal, tracked, recovery, known>>

(* Everything that was queued has ended: first the applies whose end is     *)
(* unknown, then what was prepared and never confirmed.                    *)
BarrierPasses ==
    /\ queue = <<>> /\ todo = {}
    /\ \/ phase = "barrier" /\ phase' = "recover" /\ todo' = recovery
       \/ phase = "recover" /\ phase' = "cancel" /\ todo' = tracked \ recovery
       \/ phase = "cancel" /\ phase' = "done" /\ UNCHANGED todo
    /\ UNCHANGED <<store, child, queue, modal, tracked, recovery, known>>

ShutdownCancels(p) ==
    /\ queue = <<>> /\ phase \in {"recover", "cancel"} /\ p \in todo
    /\ queue' = Enqueue("cancel", p, "shutdown")
    /\ UNCHANGED <<store, child, modal, service>>

-----------------------------------------------------------------------------
ModalStep(p) ==
    \/ ReadTarget(p) \/ ChangeTarget(p) \/ Prepare(p)
    \/ Apply(p) \/ CancelAndReturn(p) \/ Close(p)

Next ==
    \/ \E p \in Proposal : ModalStep(p)
    \/ \E g \in group : Effect(g) \/ GroupExits(g)
    \/ GateFails \/ Spawn \/ Strays \/ StrayEnds
    \/ Closes \/ Terminate \/ finishAfterGroupExit
    \/ Shutdown \/ BarrierPasses
    \/ \E p \in Proposal : ShutdownCancels(p)

(* The gate answers, a time-out comes, SIGKILL kills what is in the group,   *)
(* 'close' follows when nobody holds a pipe, and the continuations of the    *)
(* shutdown run.  The user, the calls of shutdown, the runtime's progress   *)
(* and what left its group are left to chance.                             *)
Fairness ==
    /\ WF_vars(GateFails \/ Spawn)
    /\ WF_vars(Terminate)
    /\ WF_vars(proc = "dying" /\ \E g \in group : GroupExits(g))
    /\ WF_vars(~processGroupAlive /\ Closes)
    /\ WF_vars(finishAfterGroupExit)
    /\ WF_vars(BarrierPasses \/ \E p \in Proposal : ShutdownCancels(p))

Spec == Init /\ [][Next]_vars /\ Fairness

-----------------------------------------------------------------------------
(* Properties.                                                             *)

(* Every variable holds a value of its kind, what may be half done is       *)
(* tracked, and the shutdown works only with an accepted barrier behind it. *)
TypeOK ==
    /\ store \in [Proposal -> {"none", "prepared", "half", "applied", "cancelled"}]
    /\ group \subseteq [op: Operation, p: Proposal]
    /\ proc \in {"idle", "running", "dying"}
    /\ pipes \in {"inside", "outside", "closed"} /\ (proc = "idle" => pipes = "closed")
    /\ queue \in Seq(Entry) /\ (queue = <<>> => proc = "idle")
    /\ recovery \subseteq tracked /\ tracked \subseteq Proposal
    /\ modal \in [Proposal -> [stage: {"target", "edit", "prepared", "result"},
                               attempted: BOOLEAN, closed: BOOLEAN]]
    /\ phase \in Closing \cup {"open", "failed", "done"}
    /\ todo \subseteq Proposal /\ known \subseteq Proposal

(* Two memory operations never work on the files at once: an operation      *)
(* starts when every process of the former one is gone, however it ended    *)
(* (runMemoryWriteProcess finishes after the group, not after the child).   *)
OneOperationAtATime == Cardinality(group) <= 1

(* A formal memory file that may be half written is never forgotten: the    *)
(* service holds what it needs to finish it, after a time-out, a crash of   *)
(* the process, an answer it could not read, and whoever closed the modal.  *)
HalfDoneIsTracked == \A p \in Proposal : store[p] = "half" => p \in recovery

(* When the shutdown reports that it is done, every proposal the service    *)
(* was told of is settled in the runtime's store, written whole or          *)
(* cancelled, and none waits to be settled.                                *)
ShutdownSettles ==
    phase = "done" =>
        /\ tracked = {}
        /\ \A p \in known : store[p] \in {"applied", "cancelled"}

(* The service is a barrier: no process of it outlives a finished shutdown, *)
(* and none is started after it.                                           *)
Barrier == INSTANCE ShutdownBarrier WITH
    state <- CASE phase = "open" -> "open" [] phase = "done" -> "done" [] OTHER -> "closing",
    busy <- group # {}

ImplementsBarrier == Barrier!Spec

(* A shutdown ends, in success or in failure, whatever the runtime answers   *)
(* or fails to answer, unless a process that left its group, where no signal *)
(* of the service reaches it, keeps a pipe of its operation for ever.        *)
ShutdownEnds ==
    (phase \in Closing) ~> (phase \notin Closing \/ [](pipes = "outside"))
=============================================================================
