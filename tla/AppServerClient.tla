--------------------------- MODULE AppServerClient ---------------------------
(***************************************************************************)
(* CodexAppServerClient (runtime/codexAppServer.ts): one shared app server *)
(* process, its process group and the operations of the client on it, as   *)
(* the runtime of CodexRuntime sees them.  Requests are kept with the turn *)
(* that sent them, in CodexRuntime; here is what happens to the processes. *)
(***************************************************************************)
EXTENDS Naturals, FiniteSets

CONSTANTS Run,        \* the runs of the runtime; each sends at most one turn
          KillFails   \* whether a process group may outlive SIGKILL and its grace

ASSUME KillAssumption == KillFails \in BOOLEAN

VARIABLES
  tree,        \* the process group: none, alive, or orphans of a server that exited
  client,      \* the fields of the client
  teardown,    \* disconnectBarrier: none, a disconnect, or the clean-up after an exit
  closeDue,    \* the end of the teardown emits "close" for a fatal error
  connecting,  \* a connect() in progress: clearing the old tree, or initializing
  turn         \* what the processes do for each run's turn/start request

clientVars == <<tree, client, teardown, closeDue, connecting, turn>>

ClientType ==
  /\ tree \in {"none", "alive", "orphans"}
  /\ client \in [child: BOOLEAN, group: BOOLEAN, ready: BOOLEAN,
                 path: BOOLEAN, disconnecting: BOOLEAN]
  /\ teardown \in {"none", "disconnect", "exit"}
  /\ closeDue \in BOOLEAN
  /\ connecting \in {"none", "clearing", "initializing"}
  /\ turn \in [Run -> {"none", "sent", "working", "ended", "stray"}]

ClientInit ==
  /\ tree = "none"
  /\ client = [child |-> FALSE, group |-> FALSE, ready |-> FALSE,
               path |-> FALSE, disconnecting |-> FALSE]
  /\ teardown = "none"
  /\ closeDue = FALSE
  /\ connecting = "none"
  /\ turn = [r \in Run |-> "none"]

\* A turn that some process may still carry out.
Busy(r) == turn[r] \in {"sent", "working", "stray"}

\* The server answers a request; a disconnect closes its input and rejects all.
Answers == tree = "alive" /\ ~client.disconnecting

\* There is something that a disconnect could end.
HasProcess == client.child \/ client.group

Spawned == [child |-> TRUE, group |-> TRUE, ready |-> FALSE,
            path |-> TRUE, disconnecting |-> FALSE]

\* The synchronous part of disconnect(): a caller that finds a barrier joins it
\* and changes nothing; otherwise the pending requests are rejected.
Disconnecting == [client EXCEPT !.disconnecting = TRUE, !.ready = FALSE, !.path = FALSE]

Disconnect ==
  IF teardown # "none" THEN UNCHANGED <<client, teardown>>
  ELSE /\ client' = Disconnecting
       /\ teardown' = IF HasProcess THEN "disconnect" ELSE "none"

\* The synchronous part of connect().
Connect ==
  /\ UNCHANGED <<turn, closeDue>>
  /\ IF HasProcess
       THEN Disconnect /\ connecting' = "clearing" /\ UNCHANGED tree
       ELSE /\ client' = Spawned /\ tree' = "alive"
            /\ connecting' = "initializing" /\ UNCHANGED teardown

\* A disconnect succeeds when the whole group is gone.  The clean-up after an
\* exit swallows its own failure, so those who joined it see success.
Passes(ok) == ok \/ teardown = "exit"

Respawns(ok) == connecting = "clearing" /\ Passes(ok)

TornDown(ok) ==
  /\ teardown' = "none"
  /\ closeDue' = FALSE
  /\ client' = CASE Respawns(ok) -> Spawned
                 [] ~Respawns(ok) /\ ok -> [client EXCEPT !.child = FALSE, !.group = FALSE]
                 [] OTHER -> client
  /\ tree' = IF Respawns(ok) THEN "alive" ELSE IF ok THEN "none" ELSE tree
  /\ connecting' = CASE Respawns(ok) -> "initializing"
                     [] connecting = "clearing" /\ ~Passes(ok) -> "none"
                     [] OTHER -> connecting
  /\ turn' = [r \in Run |-> CASE turn[r] = "stray" -> "stray"
                              [] ok /\ turn[r] # "stray" -> "none"
                              [] Respawns(ok) /\ turn[r] = "working" -> "stray"
                              [] OTHER -> turn[r]]

\* The server takes a turn from its input, and comes to its end.
ServerStarts(r) ==
  /\ turn[r] = "sent" /\ tree = "alive"
  /\ turn' = [turn EXCEPT ![r] = "working"]
  /\ UNCHANGED <<tree, client, teardown, closeDue, connecting>>

ServerFinishes(r) ==
  /\ turn[r] = "working" /\ tree = "alive"
  /\ turn' = [turn EXCEPT ![r] = "ended"]
  /\ UNCHANGED <<tree, client, teardown, closeDue, connecting>>

\* handleExit: the server is gone, what it started may not be.  The requests it
\* had not read are lost.
ExitSeen ==
  /\ tree = "alive" /\ ~client.disconnecting
  /\ tree' = "orphans"
  /\ client' = [client EXCEPT !.child = FALSE, !.ready = FALSE]
  /\ teardown' = "exit"
  /\ turn' = [r \in Run |-> IF turn[r] = "sent" THEN "none" ELSE turn[r]]
  /\ UNCHANGED closeDue

\* failOutputLimit and handleFatal: the server can no longer be trusted.
FatalSeen ==
  /\ tree = "alive" /\ ~client.disconnecting
  /\ Disconnect
  /\ closeDue' = TRUE
  /\ UNCHANGED <<tree, turn>>

=============================================================================
