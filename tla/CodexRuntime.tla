---------------------------- MODULE CodexRuntime ----------------------------
(***************************************************************************)
(* CodexAppServerRuntime and the RuntimeManager above it: runs that share  *)
(* one app server, each from its connection to the end of its turn, their  *)
(* interruption, the disconnect that is the only proof that a turn has     *)
(* stopped, the global stop after a lost lease, and the shutdown when the  *)
(* plugin unloads.  A run is a chat turn, another use of the runtime (an   *)
(* inline edit), or a refresh of the status.  Code between two awaits is   *)
(* one step.                                                               *)
(***************************************************************************)
EXTENDS AppServerClient

CONSTANTS Chat,       \* the runs of the chat coordinator
          Status,     \* refreshes of the status; they send no turn
          MaxFaults   \* exits, floods and lost binaries

ASSUME RunAssumption == Chat \subseteq Run /\ Status \subseteq Run /\ Chat \cap Status = {}
ASSUME FaultAssumption == MaxFaults \in Nat

VARIABLES
  run,          \* registration and ActiveTurn of each run
  statusReady,  \* status.state is "ready"
  required,     \* safetyDisconnectRequired
  safety,       \* safetyDisconnectBarrier: how far disconnectSharedServer got
  cancel,       \* cancelAllBarrier: none, stopping the server, or settling the runs
  awaited,      \* the runs whose end cancelAll waits for
  loss,         \* the barrier after a lost lease
  unload,       \* how far the unload of the plugin got
  faults        \* faults so far

runtimeVars == <<run, statusReady, required, safety, cancel, awaited, loss, unload, faults>>
vars == <<clientVars, runtimeVars>>

\* A turn is in activeTurns from its registration to finishTurn; "held" is one
\* whose request failed while its stop is not confirmed.
InTurn == {"starting", "active", "held"}
Waiting == {"connect", "read", "thread", "admit"}

\* registerRun and ActiveTurn, of one run.
Registration ==
  [phase: {"idle", "done"} \cup Waiting \cup InTurn, aborted: BOOLEAN,
   acked: BOOLEAN, interrupt: {"no", "asked", "failed", "timer"}]

TypeOK ==
  /\ ClientType
  /\ run \in [Run -> Registration]
  /\ statusReady \in BOOLEAN /\ required \in BOOLEAN
  /\ safety \in {"none", "first", "pending", "second", "stopped", "failed"}
  /\ cancel \in {"none", "stopping", "settling"} /\ awaited \subseteq Run \ Status
  /\ loss \in {"no", "stopping", "done", "failed"}
  /\ unload \in {"no", "chat", "cancelAll", "maintenance", "cancelAgain",
                 "finish", "last", "check", "clean", "failed"}
  /\ faults \in 0..MaxFaults
  /\ safety # "none" => required
  /\ \A r \in Status : run[r].phase \notin InTurn \cup {"thread", "admit"}

Init ==
  /\ ClientInit
  /\ run = [r \in Run |-> [phase |-> "idle", aborted |-> FALSE,
                           acked |-> FALSE, interrupt |-> "no"]]
  /\ statusReady = FALSE /\ required = FALSE
  /\ safety = "none" /\ cancel = "none" /\ awaited = {}
  /\ loss = "no" /\ unload = "no" /\ faults = 0

Inflight(r) == run[r].phase \in Waiting \cup InTurn

Turns == {r \in Run : run[r].phase \in InTurn}

\* A broken variant: an idle server is left alone.
TurnsToStop == Turns # {} \/ required

\* cancelAll, shutdown and markUnavailable disconnect only if this holds.
SomethingToStop ==
  Turns # {} \/ client.ready \/ client.path \/ connecting # "none" \/ required

-----------------------------------------------------------------------------
(* What a step does to the runs                                             *)

At(x, phase) == [x EXCEPT !.phase = phase]

Ended(x) == [x EXCEPT !.phase = "done", !.aborted = FALSE, !.interrupt = "no"]

\* controller.abort(): an acknowledged turn is interrupted at the server.
\* request() refuses at once when the child is gone.
Aborted(x) ==
  [x EXCEPT !.aborted = TRUE,
            !.interrupt = IF x.phase = "active" /\ ~required /\ @ = "no"
                            THEN IF client.child THEN "asked" ELSE "failed" ELSE @]

AbortAll(S) == [r \in Run |-> IF r \in S /\ Inflight(r) THEN Aborted(run[r]) ELSE run[r]]

\* disconnectForSafety aborts every registration and makes every refresh stale.
Stopped(x) ==
  IF x.phase \in Waiting \cup InTurn THEN [x EXCEPT !.aborted = TRUE, !.interrupt = "no"] ELSE x

\* A broken variant: a turn whose stop is unconfirmed ends with its request.
RejectedAnyway(x, stopping) ==
  CASE x.phase \in {"read", "thread", "starting"} -> Ended(x)
    [] x.phase = "connect" /\ connecting = "initializing" -> Ended(x)
    [] x.phase = "active" /\ x.interrupt = "asked" -> Ended(x)
    [] OTHER -> x

\* rejectPending as the run sees it.  finishTurn refuses while a stop is unconfirmed.
Rejected(x, stopping) ==
  CASE x.phase \in {"read", "thread"} -> Ended(x)
    [] x.phase = "connect" /\ connecting = "initializing" -> Ended(x)
    [] x.phase = "starting" -> IF stopping THEN At(x, "held") ELSE Ended(x)
    [] x.phase = "active" /\ x.interrupt = "asked" -> [x EXCEPT !.interrupt = "failed"]
    [] OTHER -> x

RejectAll(f, stopping) == [r \in Run |-> Rejected(f[r], stopping)]

ConnectingRejected == IF connecting = "initializing" THEN "none" ELSE connecting

\* disconnectForSafety and the start of disconnectSharedServer, which resolves
\* at once when the client has neither a ready server nor a path.
DisconnectForSafety(f) ==
  /\ UNCHANGED <<tree, turn, closeDue>>
  /\ IF safety # "none"
       THEN run' = f /\ UNCHANGED <<client, teardown, connecting, required, safety>>
       ELSE LET all == [r \in Run |-> Stopped(f[r])] IN
            /\ required' = TRUE
            /\ IF connecting = "none" /\ ~client.ready /\ ~client.path
                 THEN /\ run' = all /\ safety' = "stopped"
                      /\ UNCHANGED <<client, teardown, connecting>>
                 ELSE /\ Disconnect
                      /\ safety' = IF teardown' # "none" THEN "first" ELSE "pending"
                      /\ run' = IF teardown = "none" THEN RejectAll(all, TRUE) ELSE all
                      /\ connecting' = IF teardown = "none" THEN ConnectingRejected
                                                            ELSE connecting

\* A broken variant: the runs are aborted one by one.
CancelOneByOne ==
  /\ run' = AbortAll(Run \ Status)
  /\ IF cancel # "none" THEN UNCHANGED <<cancel, awaited>>
     ELSE cancel' = "settling" /\ awaited' = {r \in Run \ Status : Inflight(r)}
  /\ UNCHANGED <<clientVars, required, safety>>

\* CodexAppServerRuntime.cancelAll, after the manager's aborts.
CancelAll ==
  LET f == AbortAll(Run \ Status) IN
  IF cancel # "none"
    THEN /\ run' = f
         /\ UNCHANGED <<clientVars, required, safety, cancel, awaited>>
    ELSE /\ awaited' = {r \in Run \ Status : Inflight(r)}
         /\ IF SomethingToStop
              THEN cancel' = "stopping" /\ DisconnectForSafety(f)
              ELSE /\ cancel' = "settling" /\ run' = f
                   /\ UNCHANGED <<clientVars, required, safety>>

\* The callers of cancelAll go on: the barrier after a lost lease reports it,
\* the manager's and the runtime's shutdown carry on whatever the outcome.
CancelEnds(ok) ==
  /\ cancel' = "none" /\ awaited' = {}
  /\ loss' = IF loss # "stopping" THEN loss ELSE IF ok THEN "done" ELSE "failed"
  /\ unload' = CASE unload = "cancelAll" -> "maintenance"
                 [] unload = "cancelAgain" -> "finish"
                 [] OTHER -> unload

-----------------------------------------------------------------------------
(* A run, from runTurn or refreshStatus to its end                          *)

ManagerRuns == unload \in {"no", "chat"}

\* runTurn and refreshStatus up to the first await: with a ready status straight
\* to the thread, otherwise through refreshStatusInternal and ensureConnected.
Begin(r) ==
  /\ run[r].phase = "idle" /\ ManagerRuns /\ ~required
  /\ r \in Chat => unload = "no" /\ loss = "no"
  /\ UNCHANGED <<required, safety, cancel, awaited, loss, unload, faults>>
  /\ IF statusReady /\ r \notin Status
       THEN /\ run' = [run EXCEPT ![r] = IF client.child THEN At(@, "thread") ELSE Ended(@)]
            /\ UNCHANGED <<clientVars, statusReady>>
       ELSE /\ statusReady' = FALSE
            /\ IF client.ready \/ connecting # "none"
                 THEN /\ run' = [run EXCEPT ![r] = At(@, IF client.ready THEN "read"
                                                                         ELSE "connect")]
                      /\ UNCHANGED clientVars
                 ELSE /\ Connect
                      /\ run' = [IF HasProcess /\ teardown = "none"
                                   THEN RejectAll(run, required) ELSE run
                                 EXCEPT ![r] = At(run[r], "connect")]

\* initialize answers, or fails or times out.
Initialized ==
  /\ connecting = "initializing" /\ tree = "alive"
  /\ connecting' = "none"
  /\ client' = [client EXCEPT !.ready = TRUE]
  /\ run' = [r \in Run |-> IF run[r].phase # "connect" THEN run[r]
                           ELSE IF run[r].aborted THEN Ended(run[r]) ELSE At(run[r], "read")]
  /\ UNCHANGED <<tree, teardown, closeDue, turn, statusReady, required, safety, cancel,
                 awaited, loss, unload, faults>>

InitializeFails ==
  /\ connecting = "initializing"
  /\ connecting' = "none"
  /\ run' = [r \in Run |-> IF run[r].phase = "connect" THEN Ended(run[r]) ELSE run[r]]
  /\ UNCHANGED <<tree, client, teardown, closeDue, turn, statusReady, required, safety,
                 cancel, awaited, loss, unload, faults>>

\* Only the run and perhaps the status change.
RunStep(r, x) ==
  /\ run' = [run EXCEPT ![r] = x]
  /\ UNCHANGED <<clientVars, required, safety, cancel, awaited, loss, unload, faults>>

\* The models and the configuration are read; the run goes on to its thread.
StatusRead(r) ==
  /\ run[r].phase = "read" /\ Answers
  /\ statusReady' = (statusReady \/ ~run[r].aborted)
  /\ RunStep(r, IF run[r].aborted \/ r \in Status \/ ~client.child
                  THEN Ended(run[r]) ELSE At(run[r], "thread"))

\* The reading, the thread or the claim of the session fails or is refused,
\* also because the configuration changed in the meantime.
EarlyEnd(r) ==
  /\ run[r].phase \in {"read", "thread", "admit"}
  /\ RunStep(r, Ended(run[r]))
  /\ UNCHANGED statusReady

\* The canonical thread is known; a chat run must first own the session.
ThreadKnown(r) ==
  /\ run[r].phase = "thread" /\ Answers /\ ~run[r].aborted /\ r \in Chat
  /\ RunStep(r, At(run[r], "admit"))
  /\ UNCHANGED statusReady

\* The registration of the turn and turn/start.  Another turn may hold the same
\* thread, and the coordinator may abort from inside the session event; an
\* aborted run ends, EarlyEnd being one with it.
TurnStarts(r) ==
  /\ \/ run[r].phase = "admit"
     \/ run[r].phase = "thread" /\ r \notin Chat /\ Answers
  /\ ~run[r].aborted
  /\ IF client.child
       THEN /\ run' = [run EXCEPT ![r].phase = "starting"]
            /\ turn' = [turn EXCEPT ![r] = IF client.disconnecting THEN @ ELSE "sent"]
       ELSE run' = [run EXCEPT ![r] = Ended(@)] /\ UNCHANGED turn
  /\ UNCHANGED <<tree, client, teardown, closeDue, connecting, statusReady, required,
                 safety, cancel, awaited, loss, unload, faults>>

\* The answer to turn/start; a turn aborted before it is interrupted now.
TurnAcknowledged(r) ==
  /\ run[r].phase = "starting" /\ turn[r] \in {"working", "ended"} /\ Answers
  /\ RunStep(r, LET x == [At(run[r], "active") EXCEPT !.acked = TRUE]
                IN  IF x.aborted THEN Aborted(x) ELSE x)
  /\ UNCHANGED statusReady

\* turn/start is refused or times out; finishTurn holds the turn then, too, while
\* a stop is unconfirmed.
TurnNotStarted(r) ==
  /\ run[r].phase = "starting"
  /\ RunStep(r, Rejected(run[r], required))
  /\ UNCHANGED statusReady

\* turn/completed arrives; it is ignored while a stop is unconfirmed.
TurnCompleted(r) ==
  /\ turn[r] = "ended" /\ run[r].phase # "starting"
  /\ turn' = [turn EXCEPT ![r] = "none"]
  /\ run' = [run EXCEPT ![r] = IF @.phase = "active" /\ ~required THEN Ended(@) ELSE @]
  /\ UNCHANGED <<tree, client, teardown, closeDue, connecting, statusReady, required,
                 safety, cancel, awaited, loss, unload, faults>>

\* The user, or the coordinator, stops one run.
Abort(r) ==
  /\ Inflight(r) /\ ~run[r].aborted /\ r \notin Status
  /\ RunStep(r, Aborted(run[r]))
  /\ UNCHANGED statusReady

\* turn/interrupt is answered: the turn must complete in time.
InterruptAnswered(r) ==
  /\ run[r].interrupt = "asked" /\ Answers
  /\ RunStep(r, [run[r] EXCEPT !.interrupt = "timer"])
  /\ UNCHANGED statusReady

\* A broken variant: no timer runs after an answered interrupt.
InterruptUntimed(r) ==
  /\ run[r].interrupt \in {"asked", "failed"}
  /\ DisconnectForSafety([run EXCEPT ![r].interrupt = "no"])
  /\ UNCHANGED <<statusReady, cancel, awaited, loss, unload, faults>>

\* turn/interrupt failed, or the turn did not complete in time.
InterruptUnconfirmed(r) ==
  /\ run[r].interrupt # "no"
  /\ DisconnectForSafety([run EXCEPT ![r].interrupt = "no"])
  /\ UNCHANGED <<statusReady, cancel, awaited, loss, unload, faults>>

-----------------------------------------------------------------------------
(* Faults                                                                   *)

Fault == faults < MaxFaults /\ faults' = faults + 1

\* A turn writes more than the runtime takes.
TurnFloods(r) ==
  /\ Fault
  /\ run[r].phase \in {"starting", "active"} /\ turn[r] = "working" /\ ~required
  /\ DisconnectForSafety(run)
  /\ UNCHANGED <<statusReady, cancel, awaited, loss, unload>>

ServerExits ==
  /\ Fault /\ ExitSeen
  /\ connecting' = ConnectingRejected
  /\ run' = RejectAll(run, required)
  /\ UNCHANGED <<statusReady, required, safety, cancel, awaited, loss, unload>>

ServerFails ==
  /\ Fault /\ FatalSeen
  /\ connecting' = ConnectingRejected
  /\ run' = RejectAll(run, required)
  /\ UNCHANGED <<statusReady, required, safety, cancel, awaited, loss, unload>>

\* markUnavailable: the status is refreshed and the binary is gone.
MarkUnavailable ==
  /\ Fault /\ ManagerRuns
  /\ statusReady' = FALSE
  /\ IF SomethingToStop
       THEN DisconnectForSafety([r \in Run |-> Stopped(run[r])])
       ELSE run' = [r \in Run |-> Stopped(run[r])] /\ UNCHANGED <<clientVars, required, safety>>
  /\ UNCHANGED <<cancel, awaited, loss, unload>>

-----------------------------------------------------------------------------
(* The disconnect                                                           *)

\* The barrier of the client resolves or rejects; then "close" is delivered to
\* handleClose, and those who wait for the barrier go on.
TeardownEnds(ok) ==
  /\ teardown # "none"
  /\ TornDown(ok)
  /\ LET closes == teardown = "exit" \/ closeDue IN
     /\ statusReady' = (statusReady /\ ~closes)
     /\ run' = [r \in Run |->
                  IF \/ closes /\ ~required /\ run[r].phase \in InTurn
                     \/ run[r].phase = "connect" /\ connecting' = "none"
                    THEN Ended(run[r]) ELSE run[r]]
  /\ safety' = CASE safety = "first" /\ Passes(ok) -> "pending"
                 [] safety = "second" /\ Passes(ok) -> "stopped"
                 [] safety \in {"first", "second"} /\ ~Passes(ok) -> "failed"
                 [] OTHER -> safety
  /\ UNCHANGED <<required, cancel, awaited, loss, unload, faults>>

\* disconnectSharedServer after its first disconnect: once a late connect has
\* settled, what it brought up is taken down again.
SecondPass ==
  /\ safety = "pending" /\ connecting = "none"
  /\ IF client.ready \/ client.path
       THEN /\ Disconnect
            /\ safety' = IF teardown' # "none" THEN "second" ELSE "stopped"
            /\ run' = IF teardown = "none" THEN RejectAll(run, TRUE) ELSE run
       ELSE safety' = "stopped" /\ UNCHANGED <<client, teardown, run>>
  /\ UNCHANGED <<tree, closeDue, connecting, turn, statusReady, required, cancel, awaited,
                 loss, unload, faults>>

\* The end of disconnectForSafety: a confirmed stop ends every turn, a failed
\* one keeps them for a later global stop.
SafetyEnds ==
  /\ safety \in {"stopped", "failed"}
  /\ safety' = "none"
  /\ IF safety = "stopped"
       THEN /\ required' = FALSE /\ statusReady' = FALSE
            /\ run' = [r \in Run |-> IF r \in Turns THEN Ended(run[r]) ELSE run[r]]
       ELSE UNCHANGED <<required, statusReady, run>>
  /\ CASE cancel = "stopping" /\ safety = "stopped" ->
            cancel' = "settling" /\ UNCHANGED <<awaited, loss, unload>>
       [] cancel = "stopping" /\ safety = "failed" -> CancelEnds(FALSE)
       [] OTHER -> /\ unload' = IF unload = "last" THEN "check" ELSE unload
                   /\ UNCHANGED <<cancel, awaited, loss>>
  /\ UNCHANGED <<clientVars, faults>>

\* cancelAll returns when the runs it found have ended.
RunsSettled ==
  /\ cancel = "settling" /\ \A r \in awaited : ~Inflight(r)
  /\ CancelEnds(TRUE)
  /\ UNCHANGED <<clientVars, run, statusReady, required, safety, faults>>

-----------------------------------------------------------------------------
(* The lost lease and the unload                                            *)

\* enforceChatLeaseLossBarrier: chat is closed, everything is cancelled, and
\* the manager stays open.
LoseLease ==
  /\ loss = "no" /\ unload = "no"
  /\ loss' = "stopping"
  /\ CancelAll
  /\ UNCHANGED <<statusReady, unload, faults>>

\* onunload: the coordinator aborts the chat runs and waits for them ...
Unload ==
  /\ unload = "no"
  /\ unload' = "chat"
  /\ run' = AbortAll(Chat)
  /\ UNCHANGED <<clientVars, statusReady, required, safety, cancel, awaited, loss, faults>>

\* ... then RuntimeManager.shutdown cancels everything, ...
ManagerShutdown ==
  /\ unload = "chat" /\ \A r \in Chat : ~Inflight(r)
  /\ unload' = "cancelAll"
  /\ CancelAll
  /\ UNCHANGED <<statusReady, loss, faults>>

\* ... waits for the status refreshes, and shuts the runtime down, which
\* cancels again ...
RuntimeShutdown ==
  /\ unload = "maintenance" /\ \A r \in Status : ~Inflight(r)
  /\ unload' = "cancelAgain"
  /\ CancelAll
  /\ UNCHANGED <<statusReady, loss, faults>>

\* ... and disconnects once more if anything is left.
LastDisconnect ==
  /\ unload = "finish" /\ connecting = "none" /\ \A r \in Status : ~Inflight(r)
  /\ IF SomethingToStop
       THEN unload' = "last" /\ DisconnectForSafety(run)
       ELSE unload' = "check" /\ UNCHANGED <<clientVars, run, required, safety>>
  /\ UNCHANGED <<statusReady, cancel, awaited, loss, faults>>

\* An unconfirmed stop keeps the writer lease until the process ends; otherwise
\* the manager closes when the last run has ended and the lease is released.
ShutdownEnds ==
  /\ unload = "check"
  /\ required \/ Turns # {} \/ \A r \in Run : ~Inflight(r)
  /\ unload' = IF required \/ Turns # {} THEN "failed" ELSE "clean"
  /\ UNCHANGED <<clientVars, run, statusReady, required, safety, cancel, awaited, loss, faults>>

Outcomes == IF KillFails THEN BOOLEAN ELSE {TRUE}

Client(r) == (ServerStarts(r) \/ ServerFinishes(r)) /\ UNCHANGED runtimeVars

Next ==
  \/ \E r \in Run : \/ Begin(r) \/ StatusRead(r) \/ EarlyEnd(r) \/ ThreadKnown(r)
                    \/ TurnStarts(r) \/ TurnAcknowledged(r) \/ TurnNotStarted(r)
                    \/ TurnCompleted(r) \/ Abort(r) \/ InterruptAnswered(r)
                    \/ InterruptUnconfirmed(r) \/ TurnFloods(r) \/ Client(r)
  \/ Initialized \/ InitializeFails \/ ServerExits \/ ServerFails \/ MarkUnavailable
  \/ \E ok \in Outcomes : TeardownEnds(ok)
  \/ SecondPass \/ SafetyEnds \/ RunsSettled
  \/ LoseLease \/ Unload \/ ManagerShutdown \/ RuntimeShutdown \/ LastDisconnect \/ ShutdownEnds

Spec == Init /\ [][Next]_vars

\* Requests have timeouts and claims return; the interrupt timer fires; the
\* client waits for a process group for a bounded time; what waits for a
\* promise that settled goes on.
Fairness ==
  /\ \A r \in Run : /\ WF_vars(StatusRead(r) \/ EarlyEnd(r))
                    /\ WF_vars(TurnAcknowledged(r) \/ TurnNotStarted(r))
                    /\ WF_vars(InterruptUnconfirmed(r))
  /\ WF_vars(Initialized \/ InitializeFails)
  /\ WF_vars(\E ok \in Outcomes : TeardownEnds(ok))
  /\ WF_vars(SecondPass) /\ WF_vars(SafetyEnds) /\ WF_vars(RunsSettled)
  /\ WF_vars(ManagerShutdown) /\ WF_vars(RuntimeShutdown)
  /\ WF_vars(LastDisconnect) /\ WF_vars(ShutdownEnds)

FairSpec == Spec /\ Fairness

-----------------------------------------------------------------------------
(* Properties                                                               *)

\* The client ends the processes by itself after an exit or a fatal error.
CleaningUp == teardown = "exit" \/ closeDue

\* A process may still work on the turn, and the client is not cleaning up.
Loose(r) == Busy(r) /\ ~CleaningUp

\* A turn the server acknowledged is not reported as done while it is loose: it
\* ends by its completion, by "close" after the exit barrier, or by a confirmed
\* disconnect (codexRuntime.ts:603, 1344).
DoneMeansStopped ==
  \A r \in Run : run[r].phase = "done" /\ run[r].acked => ~Loose(r)

\* When the global stop returns, no turn it found can go on changing files
\* (codexRuntime.ts:611), unless the client is already ending its process.
StopIsComplete ==
  [][cancel = "settling" /\ cancel' = "none" => \A r \in awaited : ~Loose(r)']_vars

\* The lease is only handed on when nothing of this plugin works for anyone and
\* nothing can start (studioMain.ts:668): no run is on its way, and what is left
\* of the server is being ended.
CleanMeansQuiet ==
  unload = "clean" => /\ tree = "none" \/ CleaningUp
                      /\ \A r \in Run : ~Loose(r) /\ ~Inflight(r)

\* A run that was stopped ends, and so do the global stop and the unload.
StopsEnd ==
  /\ \A r \in Run : run[r].aborted ~> ~Inflight(r)
  /\ (loss = "stopping") ~> (loss # "stopping")
  /\ (unload # "no") ~> (unload \in {"clean", "failed"})

=============================================================================
