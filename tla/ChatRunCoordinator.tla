------------------------- MODULE ChatRunCoordinator -------------------------
(***************************************************************************)
(* ChatRunCoordinator (chat/chatRunCoordinator.ts) as the plugin wires it   *)
(* to the conversation store: a lane for every conversation, in which runs  *)
(* are admitted, activated, executed and made final one after the other;    *)
(* writes of every kind that may fail; the circuits failed writes open; and *)
(* stops, shutdown and pruning at any moment.                               *)
(* Every await of a run is a value of "at": the synchronous code between    *)
(* two awaits is one action.  A store call takes effect when it answers;    *)
(* one that fails may have taken effect.                                    *)
(***************************************************************************)
EXTENDS Naturals, Sequences, FiniteSets, SequencesExt

CONSTANTS Run, Lane,
          NoRun, NoLane,
          MaxWrites,   \* CHAT_MAX_CHECKPOINT_WRITES_PER_TURN
          MaxClaims,   \* bound on session claims of one run in flight
          MaxArts,     \* bound on images of one run being saved
          FaultKind,   \* the store calls that may fail
          MaxFaults    \* bound on failing store calls

ASSUME ChatAssumption ==
  /\ NoRun \notin Run /\ NoLane \notin Lane
  /\ MaxWrites \in Nat /\ MaxClaims \in Nat /\ MaxArts \in Nat /\ MaxFaults \in Nat

VARIABLES
  laneOf,     \* the conversation a run was submitted to
  queue,      \* lane.active and lane.queue behind it
  loaded,     \* lane.loaded and lane.loadError
  marker,     \* lane.unpersistedFailure
  window,     \* the runs whose output only the lane's memory has
  tail,       \* persistenceAdmissionTail
  shutting,   \* shuttingDown
  circuits,   \* persistenceCircuits
  at,         \* what a run waits for
  initial,    \* initialState
  cancelled,  \* the runs with a cancellationReason
  open,       \* the runs with acceptingRuntimeEvents
  failed,     \* the runs with an error
  activated,  \* activationPersisted
  blocked,    \* runtimeBlockedByPersistenceCircuit
  asking,     \* the cancellation task among the sideEffects
  claims,     \* session claims among the sideEffects
  arts,       \* images among the sideEffects
  dirty,      \* the runs with checkpointRevision > checkpointQueuedRevision
  ckpt,       \* the checkpoint task: draining, stopped, writes so far
  status,     \* terminalStatus
  final,      \* the runs with finalPersisted
  told,       \* the recovery a blocked run was announced
  turn,       \* the turn's state in the conversation store
  faults      \* store calls that failed so far

lanevars == <<laneOf, queue, loaded, marker, window, tail, shutting>>
runvars == <<at, initial, cancelled, open, failed, activated, blocked, status, final, told>>
fxvars == <<asking, claims, arts, dirty, ckpt>>
vars == <<lanevars, runvars, fxvars, circuits, turn, faults>>

Admission == {"load", "tail", "start"}
Closing == {"settle", "flush", "final"}
Steps == {"none", "admitted", "activate", "resume", "enter", "turn", "effects", "blocked", "done", "rejected"}
         \cup Admission \cup Closing
Stages == {"activation", "checkpoint", "session", "cancellation", "final"}
Unended == {"queued", "active", "cancelRequested"}

NoCkpt == [draining |-> FALSE, stopped |-> FALSE, writes |-> 0]

Init ==
  /\ laneOf = [r \in Run |-> NoLane]
  /\ queue = [l \in Lane |-> <<>>]
  /\ loaded = [l \in Lane |-> "no"]
  /\ marker = [l \in Lane |-> NoRun]
  /\ window = [l \in Lane |-> {}]
  /\ tail = <<>>
  /\ shutting = FALSE
  /\ circuits = {}
  /\ at = [r \in Run |-> "none"]
  /\ initial = [r \in Run |-> "queued"]
  /\ cancelled = {} /\ open = {} /\ failed = {} /\ activated = {} /\ blocked = {}
  /\ asking = [r \in Run |-> "no"]
  /\ claims = [r \in Run |-> 0]
  /\ arts = [r \in Run |-> 0]
  /\ dirty = {}
  /\ ckpt = [r \in Run |-> NoCkpt]
  /\ status = [r \in Run |-> "none"]
  /\ final = {}
  /\ told = [r \in Run |-> "none"]
  /\ turn = [r \in Run |-> "none"]
  /\ faults = 0
-----------------------------------------------------------------------------
(* The conversation store (conversationRepositoryV2.ts), as VaultStore     *)
(* hands the calls on.  An operator is the state a turn is left in.        *)

Mates(r) == {q \in Run \ {r} : laneOf[q] = laneOf[r]}

(* assertNoOtherActiveTurn                                                 *)
Alone(r) == \A q \in Mates(r) : turn[q] \notin {"active", "cancelRequested"}

MayBegin(r) == initial[r] = "queued" \/ Alone(r)
MayActivate(r) == turn[r] = "active" \/ (turn[r] = "queued" /\ Alone(r))
MayPatch(r) == turn[r] \in {"queued", "active"}

Asked(r) == IF turn[r] \in {"queued", "active"} THEN "cancelRequested" ELSE turn[r]

(* finalizeTurn leaves a turn alone that was asked to stop; cancelTurn ends *)
(* every turn that has not ended.                                          *)
Finalized(r, st) ==
  CASE st = "cancelled" /\ turn[r] \in Unended -> "cancelled"
    [] st # "cancelled" /\ turn[r] \in {"queued", "active"} -> st
    [] OTHER -> turn[r]

TurnTo(r, st) == turn' = [turn EXCEPT ![r] = st]

(* A call answers well, is refused, or fails with or without its effect.   *)
Fault(kind) == kind \in FaultKind /\ faults < MaxFaults /\ faults' = faults + 1
FaultAfter(kind, r, may, st) ==
  /\ Fault(kind)
  /\ \/ UNCHANGED turn
     \/ may /\ TurnTo(r, st)
-----------------------------------------------------------------------------
Opened(r, stage) == circuits \cup {<<r, stage>>}

(* A broken variant: a write that succeeds clears every circuit of its run. *)
ClearedOfRun(cs, r, stage) == {c \in cs : c[1] # r}

Cleared(cs, r, stage) == cs \ {<<r, stage>>}

PersistenceError(r) ==
  \E stage \in {"activation", "cancellation", "final"} : <<r, stage>> \in circuits
SessionError(r) == <<r, "session">> \in circuits
Unsaved(r) == PersistenceError(r) \/ SessionError(r) \/ <<r, "checkpoint">> \in circuits

Backpressure(l) == marker[l] # NoRun \/ circuits # {}

(* shouldBlockBeforeRuntime, for a run whose start is durable and whose    *)
(* runtime has not been entered.                                           *)
ShouldBlock(r) == r \in blocked \/ circuits # {}

(* The side effects a completion waits for.                                *)
Quiet(r) == asking[r] \in {"no", "done"} /\ claims[r] = 0 /\ arts[r] = 0

Over == {"done", "rejected"}

(* isCancellablePhase, and no cancellationReason yet.                      *)
Cancellable(r) == at[r] \notin {"none"} \cup Over \cup Closing /\ r \notin cancelled

Go(r, step) == at' = [at EXCEPT ![r] = step]

Stamp(r, st) == status' = [status EXCEPT ![r] = st]
-----------------------------------------------------------------------------
(* Submission and admission.                                               *)

Submit(r, l) ==
  /\ at[r] = "none" /\ ~shutting /\ ~Backpressure(l)
  /\ initial' = [initial EXCEPT ![r] = IF queue[l] = <<>> THEN "active" ELSE "queued"]
  /\ laneOf' = [laneOf EXCEPT ![r] = l]
  /\ queue' = [queue EXCEPT ![l] = Append(@, r)]
  /\ open' = open \cup {r}
  /\ Go(r, "load")
  /\ UNCHANGED <<loaded, marker, window, tail, shutting, cancelled, failed, activated, blocked,
                 status, final, told, fxvars, circuits, turn, faults>>

(* ensureLaneLoaded, for an admission, a watcher or a snapshot.            *)
LoadLane(l) ==
  /\ loaded[l] = "no"
  /\ \/ loaded' = [loaded EXCEPT ![l] = "yes"] /\ UNCHANGED faults
     \/ loaded' = [loaded EXCEPT ![l] = "error"] /\ Fault("load")
  /\ UNCHANGED <<laneOf, queue, marker, window, tail, shutting, runvars, fxvars, circuits, turn>>

(* lane.admissionTail: the earlier submissions of the lane are past theirs. *)
AdmissionTurn(r) ==
  LET q == queue[laneOf[r]] IN
  \A i, j \in DOMAIN q : i < j /\ q[j] = r => at[q[i]] \notin Admission

(* failAdmission and rejectBackpressuredAdmission; the cancellation that    *)
(* waits for the start is dropped with it.                                 *)
Reject(r) ==
  /\ Go(r, "rejected") /\ Stamp(r, "failed")
  /\ failed' = failed \cup {r} /\ open' = open \ {r}
  /\ asking' = [asking EXCEPT ![r] = IF @ = "no" THEN @ ELSE "done"]

AdmitRun(r) ==
  LET l == laneOf[r] IN
  /\ at[r] = "load" /\ AdmissionTurn(r) /\ loaded[l] # "no"
  /\ \/ /\ Backpressure(l) \/ loaded[l] = "error"
        /\ Reject(r) /\ UNCHANGED tail
     \/ /\ ~Backpressure(l) /\ loaded[l] = "yes"
        /\ tail' = Append(tail, r) /\ Go(r, "tail")
        /\ UNCHANGED <<status, failed, open, asking>>
  /\ UNCHANGED <<laneOf, queue, loaded, marker, window, shutting, initial, cancelled, activated, blocked,
                 final, told, claims, arts, dirty, ckpt, circuits, turn, faults>>

(* The admission's turn in the queue of all lanes: backpressure is looked   *)
(* at again, and a run stopped before its start begins as a queued one.    *)
StartRun(r) ==
  /\ at[r] = "tail" /\ Head(tail) = r
  /\ \/ /\ Backpressure(laneOf[r])
        /\ Reject(r) /\ tail' = Tail(tail) /\ UNCHANGED initial
     \/ /\ ~Backpressure(laneOf[r])
        /\ initial' = [initial EXCEPT ![r] = IF r \in cancelled THEN "queued" ELSE @]
        /\ Go(r, "start")
        /\ UNCHANGED <<tail, status, failed, open, asking>>
  /\ UNCHANGED <<laneOf, queue, loaded, marker, window, shutting, cancelled, activated, blocked,
                 final, told, claims, arts, dirty, ckpt, circuits, turn, faults>>

(* persistStart answers.                                                   *)
Started(r) ==
  /\ at[r] = "start" /\ tail' = Tail(tail)
  /\ \/ /\ MayBegin(r)
        /\ TurnTo(r, initial[r]) /\ Go(r, "admitted")
        /\ activated' = IF initial[r] = "active" THEN activated \cup {r} ELSE activated
        /\ blocked' = IF circuits # {} THEN blocked \cup {r} ELSE blocked
        /\ UNCHANGED <<status, failed, open, asking, faults>>
     \/ /\ Reject(r)
        /\ \/ ~MayBegin(r) /\ UNCHANGED <<turn, faults>>
           \/ FaultAfter("start", r, MayBegin(r), initial[r])
        /\ UNCHANGED <<activated, blocked>>
  /\ UNCHANGED <<laneOf, queue, loaded, marker, window, shutting, initial, cancelled, final, told,
                 claims, arts, dirty, ckpt, circuits>>
-----------------------------------------------------------------------------
(* Execution: the run at the head of its lane.                             *)

Settle(r, st) == Go(r, "settle") /\ Stamp(r, st) /\ open' = open \ {r}

Block(r) == Go(r, "blocked") /\ blocked' = blocked \cup {r}

(* The awaits of an execution end in the same two checks.                  *)
BlockOrCancel(r) ==
  \/ ShouldBlock(r) /\ Block(r) /\ UNCHANGED <<status, open>>
  \/ ~ShouldBlock(r) /\ r \in cancelled /\ Settle(r, "cancelled") /\ UNCHANGED blocked

Clear(r) == ~ShouldBlock(r) /\ r \notin cancelled

(* executeRun up to its first await.                                       *)
ExecuteRun(r) ==
  /\ at[r] = "admitted" /\ Head(queue[laneOf[r]]) = r
  /\ \/ BlockOrCancel(r)
     \/ /\ Clear(r)
        /\ Go(r, IF initial[r] = "queued" /\ r \notin activated THEN "activate" ELSE "resume")
        /\ UNCHANGED <<status, open, blocked>>
  /\ UNCHANGED <<lanevars, initial, cancelled, failed, activated, final, told, fxvars,
                 circuits, turn, faults>>

(* The activation skips its write when a stop came first; a failed one      *)
(* opens a circuit unless the run is stopped anyway.                       *)
Activated(r) ==
  /\ at[r] = "activate"
  /\ \/ /\ MayActivate(r) /\ TurnTo(r, "active") /\ activated' = activated \cup {r}
        /\ \/ BlockOrCancel(r)
           \/ Clear(r) /\ Go(r, "resume") /\ UNCHANGED <<status, open, blocked>>
        /\ UNCHANGED <<circuits, faults>>
     \/ /\ r \in cancelled /\ BlockOrCancel(r)
        /\ \/ UNCHANGED <<turn, faults>>
           \/ FaultAfter("activation", r, MayActivate(r), "active")
        /\ UNCHANGED <<activated, circuits>>
     \/ /\ r \notin cancelled
        /\ \/ ~MayActivate(r) /\ UNCHANGED <<turn, faults>>
           \/ FaultAfter("activation", r, MayActivate(r), "active")
        /\ circuits' = Opened(r, "activation")
        /\ Settle(r, "failed") /\ UNCHANGED <<activated, blocked>>
  /\ UNCHANGED <<lanevars, initial, cancelled, failed, final, told, fxvars>>

(* validateResumeSession finds the session's owner and claims it anew.     *)
Resumed(r) ==
  /\ at[r] = "resume"
  /\ \/ ShouldBlock(r) /\ Block(r) /\ UNCHANGED <<status, open, failed>>
     \/ /\ ~ShouldBlock(r)
        /\ \/ Go(r, "enter") /\ UNCHANGED <<status, open, failed>>
           \/ failed' = failed \cup {r} /\ Settle(r, "failed")
        /\ UNCHANGED blocked
  /\ UNCHANGED <<lanevars, initial, cancelled, activated, final, told, fxvars,
                 circuits, turn, faults>>

(* A broken variant: the circuits are not looked at again.                 *)
EnterRuntimeUnchecked(r) ==
  /\ at[r] = "enter"
  /\ \/ r \in cancelled /\ Settle(r, "cancelled")
     \/ r \notin cancelled /\ Go(r, "turn") /\ UNCHANGED <<status, open>>
  /\ UNCHANGED <<lanevars, initial, cancelled, failed, activated, blocked, final, told, fxvars,
                 circuits, turn, faults>>

(* A listener may have stopped the run on hearing that it is running; the   *)
(* check of the circuits and the call of the runtime are one step.         *)
EnterRuntime(r) ==
  /\ at[r] = "enter"
  /\ \/ r \in cancelled /\ Settle(r, "cancelled") /\ UNCHANGED blocked
     \/ r \notin cancelled /\ ShouldBlock(r) /\ Block(r) /\ UNCHANGED <<status, open>>
     \/ Clear(r) /\ Go(r, "turn") /\ UNCHANGED <<status, open, blocked>>
  /\ UNCHANGED <<lanevars, initial, cancelled, failed, activated, final, told, fxvars,
                 circuits, turn, faults>>

MarkDirty(r) == dirty' = IF ckpt[r].stopped THEN dirty ELSE dirty \cup {r}

Accepting(r) == at[r] = "turn" /\ r \in open

(* acceptRuntimeEvent: text and tools, a session, an image, an error, the   *)
(* end, and output beyond its limits.                                      *)
RuntimeEvent(r) ==
  /\ Accepting(r)
  /\ \/ MarkDirty(r) /\ UNCHANGED <<open, failed, claims, arts, ckpt>>
     \/ /\ claims[r] < MaxClaims /\ claims' = [claims EXCEPT ![r] = @ + 1]
        /\ open' \in {open, open \ {r}}
        /\ UNCHANGED <<failed, arts, dirty, ckpt>>
     \/ /\ arts[r] < MaxArts /\ arts' = [arts EXCEPT ![r] = @ + 1]
        /\ UNCHANGED <<open, failed, claims, dirty, ckpt>>
     \/ /\ MarkDirty(r) /\ failed' = failed \cup {r} /\ open' = open \ {r}
        /\ UNCHANGED <<claims, arts, ckpt>>
     \/ open' = open \ {r} /\ UNCHANGED <<failed, claims, arts, dirty, ckpt>>
     \/ /\ ckpt' = [ckpt EXCEPT ![r].stopped = TRUE]
        /\ failed' = failed \cup {r} /\ open' = open \ {r}
        /\ UNCHANGED <<claims, arts, dirty>>
  /\ UNCHANGED <<lanevars, at, initial, cancelled, activated, blocked, status, final, told,
                 asking, circuits, turn, faults>>

(* The runtime's promise settles, well or not.                             *)
RuntimeSettles(r) ==
  /\ at[r] = "turn" /\ Go(r, "effects") /\ open' = open \ {r}
  /\ failed' \in {failed} \cup (IF r \in cancelled THEN {} ELSE {failed \cup {r}})
  /\ UNCHANGED <<lanevars, initial, cancelled, activated, blocked, status, final, told, fxvars,
                 circuits, turn, faults>>

EffectsSettled(r) ==
  /\ at[r] = "effects" /\ claims[r] = 0 /\ arts[r] = 0
  /\ Settle(r, CASE r \in cancelled -> "cancelled"
                 [] r \notin cancelled /\ (r \in failed \/ Unsaved(r)) -> "failed"
                 [] OTHER -> "completed")
  /\ UNCHANGED <<lanevars, initial, cancelled, failed, activated, blocked, final, told, fxvars,
                 circuits, turn, faults>>
-----------------------------------------------------------------------------
(* Side effects of a run: claims and images.                               *)

ClaimDone(r) ==
  /\ claims[r] > 0 /\ claims' = [claims EXCEPT ![r] = @ - 1]
  /\ \/ circuits' = Cleared(circuits, r, "session") /\ UNCHANGED <<failed, open, faults>>
     \/ /\ failed' = failed \cup {r} /\ open' = open \ {r}
        /\ UNCHANGED <<circuits, faults>>
     \/ /\ Fault("session") /\ circuits' = Opened(r, "session")
        /\ UNCHANGED <<failed, open>>
  /\ UNCHANGED <<lanevars, at, initial, cancelled, activated, blocked, status, final, told,
                 asking, arts, dirty, ckpt, turn>>

(* materializeArtifact: after a stop neither an image nor its failure is    *)
(* kept.                                                                   *)
ArtDone(r) ==
  /\ arts[r] > 0 /\ arts' = [arts EXCEPT ![r] = @ - 1]
  /\ IF r \in cancelled THEN UNCHANGED <<failed, dirty>>
     ELSE MarkDirty(r) /\ failed' \in {failed, failed \cup {r}}
  /\ UNCHANGED <<lanevars, at, initial, cancelled, open, activated, blocked, status, final, told,
                 asking, claims, ckpt, circuits, turn, faults>>
-----------------------------------------------------------------------------
(* Checkpoints: one task at a time writes the newest output until there is  *)
(* nothing newer, or the writes of the turn are used up.                   *)

NextWrite(r, c, more) ==
  CASE c.stopped \/ ~more -> [c EXCEPT !.draining = FALSE]
    [] ~c.stopped /\ more /\ c.writes >= MaxWrites -> [c EXCEPT !.draining = FALSE, !.stopped = TRUE]
    [] OTHER -> [c EXCEPT !.draining = TRUE, !.writes = @ + 1]

WriteNext(r, c, ds) ==
  LET n == NextWrite(r, c, r \in ds) IN
  /\ ckpt' = [ckpt EXCEPT ![r] = n]
  /\ dirty' = IF n.writes > c.writes THEN ds \ {r} ELSE ds

(* flushRunCheckpoint                                                      *)
FlushFrom(r, ds) ==
  IF ckpt[r].draining THEN dirty' = ds /\ UNCHANGED ckpt ELSE WriteNext(r, ckpt[r], ds)

(* The timer, the byte threshold or flushCheckpoints.                      *)
CheckpointDue(r) ==
  /\ r \in dirty /\ ~ckpt[r].draining /\ ~ckpt[r].stopped /\ at[r] \notin Over
  /\ FlushFrom(r, dirty)
  /\ UNCHANGED <<lanevars, runvars, asking, claims, arts, circuits, turn, faults>>

CheckpointDone(r) ==
  /\ ckpt[r].draining
  /\ \/ /\ MayPatch(r) /\ circuits' = Cleared(circuits, r, "checkpoint")
        /\ WriteNext(r, ckpt[r], dirty) /\ UNCHANGED faults
     \/ /\ ~MayPatch(r) /\ circuits' = Opened(r, "checkpoint")
        /\ WriteNext(r, [ckpt[r] EXCEPT !.stopped = TRUE], dirty) /\ UNCHANGED faults
     \/ /\ Fault("checkpoint") /\ circuits' = Opened(r, "checkpoint")
        /\ WriteNext(r, ckpt[r], dirty)
  /\ UNCHANGED <<lanevars, runvars, asking, claims, arts, turn>>
-----------------------------------------------------------------------------
(* The end of a run.                                                       *)

(* A broken variant: the side effects are not waited for again.            *)
FinalizeRunAtOnce(r) ==
  /\ at[r] = "settle" /\ Go(r, "flush")
  /\ Stamp(r, IF r \in cancelled THEN "cancelled" ELSE status[r])
  /\ FlushFrom(r, dirty)
  /\ UNCHANGED <<lanevars, initial, cancelled, open, failed, activated, blocked, final, told,
                 asking, claims, arts, circuits, turn, faults>>

(* finalizeRun behind its side effects.  A reply without text gets one,     *)
(* which is output to be saved; then the output so far is flushed.         *)
FinalizeRun(r) ==
  /\ at[r] = "settle" /\ Quiet(r) /\ Go(r, "flush")
  /\ Stamp(r, IF r \in cancelled THEN "cancelled" ELSE status[r])
  /\ \/ FlushFrom(r, dirty)
     \/ /\ r \notin cancelled \cup failed /\ ~Unsaved(r) /\ ~ckpt[r].stopped
        /\ FlushFrom(r, dirty \cup {r})
  /\ UNCHANGED <<lanevars, initial, cancelled, open, failed, activated, blocked, final, told,
                 asking, claims, arts, circuits, turn, faults>>

Flushed(r) ==
  /\ at[r] = "flush" /\ ~ckpt[r].draining /\ Go(r, "final")
  /\ Stamp(r, IF r \notin cancelled /\ (r \in failed \/ Unsaved(r)) THEN "failed" ELSE status[r])
  /\ UNCHANGED <<lanevars, initial, cancelled, open, failed, activated, blocked, final, told,
                 fxvars, circuits, turn, faults>>

(* foldAndReleaseTerminalRun: output that is not saved stays in the lane,   *)
(* and the first such run of a lane marks it.                              *)
Fold(r, saved) ==
  LET l == laneOf[r] IN
  /\ Go(r, "done")
  /\ IF saved THEN UNCHANGED <<marker, window>>
     ELSE /\ marker' = [marker EXCEPT ![l] = IF @ = NoRun THEN r ELSE @]
          /\ window' = [window EXCEPT ![l] = @ \cup {r}]

(* persistFinal answers.                                                   *)
FinalDone(r) ==
  /\ at[r] = "final"
  /\ \/ LET saved == ~PersistenceError(r) /\ ~SessionError(r) IN
        /\ TurnTo(r, Finalized(r, status[r]))
        /\ circuits' = Cleared(circuits, r, "checkpoint")
        /\ final' = IF saved THEN final \cup {r} ELSE final
        /\ Fold(r, saved) /\ UNCHANGED <<status, faults>>
     \/ /\ FaultAfter("final", r, TRUE, Finalized(r, status[r]))
        /\ circuits' = Opened(r, "final")
        /\ Stamp(r, "failed") /\ Fold(r, FALSE) /\ UNCHANGED final
  /\ UNCHANGED <<laneOf, queue, loaded, tail, shutting, initial, cancelled, open, failed, activated,
                 blocked, told, fxvars>>

(* settlePersistedRunBlocked behind the side effects there were when it     *)
(* began: nothing is written, the turn stays as it is until a restart.     *)
BlockedDone(r) ==
  /\ at[r] = "blocked" /\ asking[r] \in {"no", "late", "done"}
  /\ told' = [told EXCEPT ![r] = IF initial[r] = "active" \/ r \in activated
                                 THEN "interrupted" ELSE "paused"]
  /\ failed' = failed \cup {r} /\ open' = open \ {r}
  /\ Go(r, "done") /\ Stamp(r, "failed")
  /\ UNCHANGED <<lanevars, initial, cancelled, activated, blocked, final, fxvars,
                 circuits, turn, faults>>

(* A broken variant: a lane whose admission failed is not drained further. *)
DrainNextIfRun(l) ==
  /\ queue[l] # <<>> /\ at[Head(queue[l])] = "done"
  /\ queue' = [queue EXCEPT ![l] = Tail(@)]
  /\ UNCHANGED <<laneOf, loaded, marker, window, tail, shutting, runvars, fxvars, circuits, turn, faults>>

(* drainLane goes on to the next run.                                      *)
DrainNext(l) ==
  /\ queue[l] # <<>> /\ at[Head(queue[l])] \in Over
  /\ queue' = [queue EXCEPT ![l] = Tail(@)]
  /\ UNCHANGED <<laneOf, loaded, marker, window, tail, shutting, runvars, fxvars, circuits, turn, faults>>

(* pruneIdleLanes, for a lane nobody watches.                              *)
PruneLane(l) ==
  /\ loaded[l] # "no" /\ queue[l] = <<>> /\ marker[l] = NoRun
  /\ loaded' = [loaded EXCEPT ![l] = "no"] /\ window' = [window EXCEPT ![l] = {}]
  /\ UNCHANGED <<laneOf, queue, marker, tail, shutting, runvars, fxvars, circuits, turn, faults>>
-----------------------------------------------------------------------------
(* Stops.                                                                  *)

(* cancelRun for a set of runs.  A stop that comes while a blocked run      *)
(* waits is not among the side effects that wait is for.                   *)
CancelRuns(rs) ==
  /\ cancelled' = cancelled \cup rs
  /\ open' = open \ rs
  /\ asking' = [r \in Run |-> IF r \notin rs THEN asking[r]
                              ELSE IF at[r] = "blocked" THEN "late" ELSE "start"]

StopConversation(l) ==
  LET rs == {r \in Run : laneOf[r] = l /\ Cancellable(r)} IN
  /\ rs # {} /\ CancelRuns(rs)
  /\ UNCHANGED <<lanevars, at, initial, failed, activated, blocked, status, final, told,
                 claims, arts, dirty, ckpt, circuits, turn, faults>>

Shutdown ==
  /\ ~shutting /\ shutting' = TRUE
  /\ CancelRuns({r \in Run : Cancellable(r)})
  /\ UNCHANGED <<laneOf, queue, loaded, marker, window, tail, at, initial, failed, activated, blocked,
                 status, final, told, claims, arts, dirty, ckpt, circuits, turn, faults>>

AskTo(r, step) == asking' = [asking EXCEPT ![r] = step]

(* A broken variant: the request does not wait for the output.             *)
AskAfterStartUnflushed(r) ==
  /\ asking[r] \in {"start", "late"} /\ at[r] \notin Admission
  /\ AskTo(r, IF at[r] = "activate" THEN "activation" ELSE "write")
  /\ UNCHANGED <<lanevars, runvars, claims, arts, dirty, ckpt, circuits, turn, faults>>

(* scheduleCancellationPersistence: behind the start, behind an activation  *)
(* under way, behind the output so far.                                    *)
AskAfterStart(r) ==
  /\ asking[r] \in {"start", "late"} /\ at[r] \notin Admission
  /\ IF at[r] = "activate" THEN AskTo(r, "activation") /\ UNCHANGED <<dirty, ckpt>>
     ELSE AskTo(r, "flush") /\ FlushFrom(r, dirty)
  /\ UNCHANGED <<lanevars, runvars, claims, arts, circuits, turn, faults>>

AskAfterActivation(r) ==
  /\ asking[r] = "activation" /\ at[r] # "activate"
  /\ AskTo(r, "flush") /\ FlushFrom(r, dirty)
  /\ UNCHANGED <<lanevars, runvars, claims, arts, circuits, turn, faults>>

AskAfterFlush(r) ==
  /\ asking[r] = "flush" /\ ~ckpt[r].draining /\ AskTo(r, "write")
  /\ UNCHANGED <<lanevars, runvars, claims, arts, dirty, ckpt, circuits, turn, faults>>

(* persistCancellationRequested answers.                                   *)
AskDone(r) ==
  /\ asking[r] = "write" /\ AskTo(r, "done")
  /\ \/ TurnTo(r, Asked(r)) /\ UNCHANGED <<circuits, faults>>
     \/ FaultAfter("cancellation", r, TRUE, Asked(r)) /\ circuits' = Opened(r, "cancellation")
  /\ UNCHANGED <<lanevars, runvars, claims, arts, dirty, ckpt>>
-----------------------------------------------------------------------------
(* What settles by itself: store calls, timers, and a runtime told to stop. *)
Progress(r) ==
  \/ AdmitRun(r) \/ StartRun(r) \/ Started(r)
  \/ ExecuteRun(r) \/ Activated(r) \/ Resumed(r) \/ EnterRuntime(r)
  \/ EffectsSettled(r) \/ FinalizeRun(r) \/ Flushed(r) \/ FinalDone(r) \/ BlockedDone(r)

Effect(r) ==
  \/ ClaimDone(r) \/ ArtDone(r) \/ CheckpointDone(r)
  \/ AskAfterStart(r) \/ AskAfterActivation(r) \/ AskAfterFlush(r) \/ AskDone(r)

Next ==
  \/ \E r \in Run :
       (\E l \in Lane : Submit(r, l)) \/ Progress(r) \/ Effect(r) \/ RuntimeEvent(r) \/ RuntimeSettles(r)
       \/ CheckpointDue(r)
  \/ \E l \in Lane : LoadLane(l) \/ DrainNext(l) \/ PruneLane(l) \/ StopConversation(l)
  \/ Shutdown

Spec == Init /\ [][Next]_vars

(* Store calls answer, continuations run, and a runtime whose signal was    *)
(* aborted settles; a run nobody stops may take as long as it likes.       *)
Fairness ==
  /\ \A r \in Run : /\ WF_vars(Progress(r)) /\ WF_vars(Effect(r))
                    /\ WF_vars(r \in cancelled /\ RuntimeSettles(r))
  /\ \A l \in Lane : /\ WF_vars(queue[l] # <<>> /\ LoadLane(l))
                     /\ WF_vars(DrainNext(l))

FairSpec == Spec /\ Fairness
-----------------------------------------------------------------------------
TypeOK ==
  /\ laneOf \in [Run -> Lane \cup {NoLane}]
  /\ queue \in [Lane -> Seq(Run)]
  /\ loaded \in [Lane -> {"no", "yes", "error"}]
  /\ marker \in [Lane -> Run \cup {NoRun}]
  /\ window \in [Lane -> SUBSET Run]
  /\ tail \in Seq(Run)
  /\ shutting \in BOOLEAN
  /\ circuits \subseteq Run \X Stages
  /\ at \in [Run -> Steps]
  /\ initial \in [Run -> {"active", "queued"}]
  /\ cancelled \subseteq Run /\ open \subseteq Run /\ failed \subseteq Run
  /\ activated \subseteq Run /\ blocked \subseteq Run /\ final \subseteq Run /\ dirty \subseteq Run
  /\ asking \in [Run -> {"no", "start", "late", "activation", "flush", "write", "done"}]
  /\ claims \in [Run -> 0..MaxClaims]
  /\ arts \in [Run -> 0..MaxArts]
  /\ ckpt \in [Run -> [draining : BOOLEAN, stopped : BOOLEAN, writes : 0..MaxWrites]]
  /\ status \in [Run -> {"none", "completed", "cancelled", "failed"}]
  /\ told \in [Run -> {"none", "paused", "interrupted"}]
  /\ turn \in [Run -> Unended \cup {"none", "completed", "cancelled", "failed"}]
  /\ faults \in 0..MaxFaults

(* A run enters the runtime only when its turn runs in the store, nobody    *)
(* asked it to stop, and nothing anywhere is unsaved.  No other turn of the *)
(* conversation runs; one may still be asked to stop, of a run that a       *)
(* circuit blocked before its turn ran and that a stop reached after all.   *)
(* This holds however the start, the activation and the resume of the run   *)
(* interleave with stops and with failing writes of other runs.            *)
EntersClean ==
  [][\A r \in Run : at[r] # "turn" /\ at'[r] = "turn" =>
       /\ turn[r] = "active"
       /\ \A q \in Mates(r) : /\ turn[q] # "active"
                             /\ turn[q] = "cancelRequested" => told[q] = "paused"
       /\ r \notin cancelled
       /\ circuits = {} /\ \A l \in Lane : marker[l] = NoRun]_vars

(* A turn that was asked to stop in the store has its output there: no      *)
(* newer output and no checkpoint in flight, which the store would refuse. *)
AskedTurnIsComplete ==
  \A r \in Run : turn[r] = "cancelRequested" =>
    (r \notin dirty \/ ckpt[r].stopped) /\ ~ckpt[r].draining

(* A run reported as saved ended in the store as it was reported to end.    *)
(* The output of one that ended unsaved stays in memory, marked, and the    *)
(* circuits stay open: no later run of the lane, no pruning and no later    *)
(* success takes the only copy away.                                       *)
UnsavedIsKept ==
  /\ \A r \in final : turn[r] = status[r]
  /\ \A r \in Run : at[r] = "done" /\ told[r] = "none" /\ r \notin final =>
       r \in window[laneOf[r]] /\ marker[laneOf[r]] = r
  /\ \A l \in Lane : marker[l] # NoRun => circuits # {}

(* The completion of a run that reached its final write comes after every   *)
(* write it caused.                                                        *)
CompletionIsLast ==
  \A r \in Run : at[r] = "done" /\ told[r] = "none" => Quiet(r) /\ ~ckpt[r].draining

(* A run that was stopped ends, wherever the stop found it, and so do the   *)
(* writes it caused: a stop or a shutdown returns if the store answers.    *)
StoppedRunsEnd ==
  \A r \in Run : r \in cancelled ~> at[r] \in Over /\ Quiet(r)

(* Open circuits are failed writes: without a write that failed, or once    *)
(* the failed checkpoint was superseded, the coordinator takes new runs.   *)
OnlyFaultsOpenCircuits == \A c \in circuits : c[2] \in FaultKind
=============================================================================
