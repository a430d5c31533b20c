--------------------------- MODULE CodexRuntimeProofs ---------------------------
(***************************************************************************)
(* Proofs about CodexRuntime, for any runs and any number of faults: that a  *)
(* turn reported as done does not go on, that a global stop leaves none of    *)
(* the turns it found, and that a clean unload is quiet.  Except for the      *)
(* types they assume that a process group does not outlive SIGKILL.          *)
(***************************************************************************)
EXTENDS CodexRuntime, TLAPS

-----------------------------------------------------------------------------
(* The inductive invariant, in parts.                                      *)

(* The fields of the client are true of the processes: it has a child while  *)
(* the server lives, and its group until that is gone.  A living server is   *)
(* being disconnected exactly as long as the client does not take answers.   *)
ClientInv ==
  /\ client.child <=> tree = "alive"
  /\ client.group <=> tree # "none"
  /\ teardown = "exit" <=> tree = "orphans"
  /\ teardown = "disconnect" => tree = "alive"
  /\ tree = "alive" => (client.disconnecting <=> teardown = "disconnect")
  /\ tree = "alive" /\ ~client.path => client.disconnecting
  /\ closeDue => teardown = "disconnect"
  /\ \A r \in Run : turn[r] # "stray" /\ (tree = "none" => turn[r] = "none")

(* Who disconnects: the client after a fatal error, a connect that clears    *)
(* what it found, or the safety disconnect; which at its end has left nothing *)
(* that the client is not ending.                                          *)
Quiet == tree = "none" \/ CleaningUp
SafetyInv ==
  /\ teardown = "disconnect" => closeDue \/ connecting = "clearing" \/ safety \in {"first", "second"}
  /\ safety # "failed"
  /\ safety \in {"second", "stopped"} => connecting = "none"
  /\ safety = "stopped" => Quiet

(* A run has no turn before it sent one; an acknowledged one is active until  *)
(* it is done and nothing works on it.  Those a global stop waits for are     *)
(* aborted, and when it only waits for their ends nothing works on them.     *)
RunInv(r) ==
  /\ run[r].phase \in {"idle"} \cup Waiting => turn[r] = "none"
  /\ run[r].acked => run[r].phase \in {"active", "done"}
  /\ run[r].acked /\ run[r].phase = "done" => ~Loose(r)
  /\ r \in awaited => run[r].phase = "done" \/ (run[r].aborted /\ run[r].phase # "idle")
  /\ r \in awaited /\ cancel = "settling" => ~Loose(r)

(* Once the manager's shutdown has only to be reported nothing can start.     *)
UnloadInv ==
  /\ unload \in {"check", "clean"} => Quiet /\ connecting = "none"
  /\ unload = "clean" => \A r \in Run : ~Inflight(r)

IInv == ClientInv /\ SafetyInv /\ UnloadInv /\ \A r \in Run : RunInv(r)

-----------------------------------------------------------------------------
(* Lemmas about the operators: what they do to one run, or to the client.    *)

Fields == [child: BOOLEAN, group: BOOLEAN, ready: BOOLEAN, path: BOOLEAN, disconnecting: BOOLEAN]

(* An aborted run that is not done stays aborted, and one that is done, or    *)
(* has not begun, does not begin; an active turn does not end like this.      *)
Steady(r, x, y) ==
  /\ y.acked = x.acked
  /\ x.aborted => y.aborted \/ y.phase = "done"
  /\ x.phase = "done" => y.phase = "done"
  /\ \/ y.phase = x.phase
     \/ y.phase = "done" /\ x.phase # "active"
     \/ y.phase = "held" /\ x.phase = "starting"
     \/ x.phase \in Waiting /\ y.phase \in {"connect", "read"}
     \/ x.phase \in Waiting /\ y.phase \in {"thread", "admit"} /\ r \notin Status

LEMMA SteadyTwice ==
  ASSUME NEW r \in Run, NEW x \in Registration, NEW y \in Registration, NEW z \in Registration,
         Steady(r, x, y), Steady(r, y, z)
  PROVE  Steady(r, x, z)
BY DEF Steady, Registration, Waiting, InTurn

(* Nothing ends with an abort.                                             *)
LEMMA AbortedIs ==
  ASSUME NEW r \in Run, NEW x \in Registration
  PROVE  /\ Aborted(x) \in Registration /\ Steady(r, x, Aborted(x))
         /\ Aborted(x).phase = x.phase /\ Aborted(x).acked = x.acked /\ Aborted(x).aborted
<1>1. PICK i \in {"no", "asked", "failed", "timer"} :
        Aborted(x) = [x EXCEPT !.aborted = TRUE, !.interrupt = i]
  BY DEF Aborted, Registration
<1> QED
  BY <1>1 DEF Registration, Steady

LEMMA EndedIs ==
  ASSUME NEW r \in Run, NEW x \in Registration
  PROVE  /\ Ended(x) \in Registration /\ Ended(x).phase = "done" /\ Ended(x).acked = x.acked
         /\ x.phase # "active" => Steady(r, x, Ended(x))
BY DEF Ended, Registration, Steady

LEMMA StoppedIs ==
  ASSUME NEW r \in Run, NEW x \in Registration
  PROVE  Stopped(x) \in Registration /\ Steady(r, x, Stopped(x))
BY DEF Stopped, Registration, Steady, Waiting, InTurn

LEMMA RejectedIs ==
  ASSUME NEW r \in Run, NEW x \in Registration, NEW stopping \in BOOLEAN
  PROVE  Rejected(x, stopping) \in Registration /\ Steady(r, x, Rejected(x, stopping))
<1>1. \/ Rejected(x, stopping) = Ended(x) /\ x.phase # "active"
      \/ Rejected(x, stopping) = [x EXCEPT !.phase = "held"] /\ x.phase = "starting"
      \/ Rejected(x, stopping) = [x EXCEPT !.interrupt = "failed"]
      \/ Rejected(x, stopping) = x
  BY DEF Rejected, At
<1>2. CASE Rejected(x, stopping) = Ended(x) /\ x.phase # "active"
  BY <1>2, EndedIs
<1>3. CASE Rejected(x, stopping) = [x EXCEPT !.phase = "held"] /\ x.phase = "starting"
  BY <1>3 DEF Registration, InTurn, Steady
<1>4. CASE Rejected(x, stopping) = [x EXCEPT !.interrupt = "failed"]
  BY <1>4 DEF Registration, Steady
<1>5. CASE Rejected(x, stopping) = x
  BY <1>5 DEF Steady
<1> QED
  BY <1>1, <1>2, <1>3, <1>4, <1>5

(* The same for all runs at once.                                          *)
AllSteady(f, g) == g \in [Run -> Registration] /\ \A r \in Run : Steady(r, f[r], g[r])

LEMMA AbortAllIs ==
  ASSUME TypeOK, NEW S \in SUBSET Run
  PROVE  /\ AllSteady(run, AbortAll(S))
         /\ \A r \in S : Inflight(r) => AbortAll(S)[r].aborted
         /\ \A r \in Run : AbortAll(S)[r].phase = run[r].phase
<1>1. ASSUME NEW r \in Run
      PROVE  /\ AbortAll(S)[r] \in Registration /\ Steady(r, run[r], AbortAll(S)[r])
             /\ AbortAll(S)[r].phase = run[r].phase
             /\ r \in S /\ Inflight(r) => AbortAll(S)[r].aborted
  <2>1. PICK x \in Registration : x = run[r]
    BY DEF TypeOK
  <2>2. AbortAll(S)[r] = IF r \in S /\ Inflight(r) THEN Aborted(x) ELSE x
    BY <2>1 DEF AbortAll
  <2>3. Steady(r, x, x)
    BY DEF Steady
  <2> QED
    BY <2>1, <2>2, <2>3, AbortedIs
<1>2. AbortAll(S) \in [Run -> Registration]
  BY <1>1 DEF AbortAll
<1> QED
  BY <1>1, <1>2 DEF AllSteady

LEMMA RejectAllIs ==
  ASSUME NEW f \in [Run -> Registration], NEW stopping \in BOOLEAN
  PROVE  AllSteady(f, RejectAll(f, stopping))
<1>1. ASSUME NEW r \in Run
      PROVE  RejectAll(f, stopping)[r] = Rejected(f[r], stopping) /\ f[r] \in Registration
  BY DEF RejectAll
<1>2. RejectAll(f, stopping) \in [Run -> Registration]
  BY <1>1, RejectedIs DEF RejectAll
<1> QED
  BY <1>1, <1>2, RejectedIs DEF AllSteady

LEMMA AllSteadyTwice ==
  ASSUME NEW f \in [Run -> Registration], NEW g \in [Run -> Registration],
         NEW h \in [Run -> Registration], AllSteady(f, g), AllSteady(g, h)
  PROVE  AllSteady(f, h)
BY SteadyTwice DEF AllSteady

(* The synchronous part of a disconnect.                                    *)
LEMMA DisconnectIs ==
  ASSUME TypeOK, Disconnect
  PROVE  /\ client' \in Fields
         /\ teardown # "none" => client' = client /\ teardown' = teardown
         /\ teardown = "none" =>
              /\ client'.child = client.child /\ client'.group = client.group
              /\ client'.disconnecting /\ ~client'.ready /\ ~client'.path
              /\ teardown' = IF HasProcess THEN "disconnect" ELSE "none"
<1>1. PICK k \in Fields : k = client
  BY DEF TypeOK, ClientType, Fields
<1>2. CASE teardown # "none"
  BY <1>1, <1>2 DEF Disconnect
<1>3. CASE teardown = "none"
  <2>1. client' = [k EXCEPT !.disconnecting = TRUE, !.ready = FALSE, !.path = FALSE]
    BY <1>1, <1>3 DEF Disconnect, Disconnecting
  <2>2. /\ client' \in Fields /\ client'.child = k.child /\ client'.group = k.group
        /\ client'.disconnecting /\ ~client'.ready /\ ~client'.path
    BY <2>1 DEF Fields
  <2> QED
    BY <1>1, <1>3, <2>2 DEF Disconnect
<1> QED
  BY <1>2, <1>3

LEMMA SpawnedIs ==
  /\ Spawned \in Fields /\ Spawned.child /\ Spawned.group /\ Spawned.path
  /\ ~Spawned.ready /\ ~Spawned.disconnecting
BY DEF Spawned, Fields

(* A disconnect leaves the client true of the processes.                    *)
LEMMA DisconnectKeeps ==
  ASSUME TypeOK, ClientInv, Disconnect, UNCHANGED <<tree, turn, closeDue>>
  PROVE  /\ ClientInv' /\ (CleaningUp' <=> CleaningUp)
         /\ teardown' = "disconnect" => teardown = "disconnect" \/ (teardown = "none" /\ HasProcess)
<1>1. CASE teardown # "none"
  BY <1>1, DisconnectIs DEF ClientInv, CleaningUp
<1>2. CASE teardown = "none"
  <2>1. tree # "orphans" /\ ~closeDue /\ (HasProcess <=> tree = "alive") /\ tree \in {"none", "alive"}
    BY <1>2 DEF ClientInv, HasProcess, TypeOK, ClientType
  <2>2. /\ client'.child = client.child /\ client'.group = client.group
        /\ client'.disconnecting /\ teardown' = IF HasProcess THEN "disconnect" ELSE "none"
    BY <1>2, DisconnectIs
  <2> QED
    BY <1>2, <2>1, <2>2 DEF ClientInv, CleaningUp
<1> QED
  BY <1>1, <1>2

(* What the safety disconnect does when it begins, or is under way.          *)
LEMMA DisconnectForSafetyIs ==
  ASSUME TypeOK, NEW f \in [Run -> Registration], AllSteady(run, f), DisconnectForSafety(f)
  PROVE  /\ AllSteady(run, run') /\ AllSteady(f, run') /\ required' = TRUE
         /\ UNCHANGED <<tree, turn, closeDue>> /\ client' \in Fields
         /\ teardown' \in {"none", "disconnect", "exit"}
         /\ connecting' \in {"none", "clearing", "initializing"}
         /\ \/ safety # "none" /\ UNCHANGED <<client, teardown, connecting, safety>>
            \/ /\ safety = "none" /\ safety' = "stopped" /\ UNCHANGED <<client, teardown, connecting>>
               /\ connecting = "none" /\ ~client.ready /\ ~client.path
            \/ /\ safety = "none" /\ Disconnect /\ connecting' \in {connecting, "none"}
               /\ connecting' = "none" => connecting # "clearing"
               /\ safety' = IF teardown' # "none" THEN "first" ELSE "pending"
<1>1. UNCHANGED <<tree, turn, closeDue>> /\ client \in Fields
  BY DEF DisconnectForSafety, TypeOK, ClientType, Fields
<1>2. AllSteady(f, f)
  BY DEF AllSteady, Steady
<1>3. CASE safety # "none"
  <2>1. run' = f /\ UNCHANGED <<client, teardown, connecting, required, safety>> /\ required
    BY <1>3 DEF DisconnectForSafety, TypeOK
  <2> QED
    BY <1>1, <1>2, <1>3, <2>1 DEF TypeOK, ClientType
<1>4. CASE safety = "none"
  <2> DEFINE all == [r \in Run |-> Stopped(f[r])]
  <2>1. AllSteady(f, all) /\ all \in [Run -> Registration]
    BY StoppedIs DEF AllSteady
  <2>2. PICK g \in [Run -> Registration] : g = all
    BY <2>1
  <2>3. AllSteady(run, g) /\ run \in [Run -> Registration]
    BY <2>1, <2>2, AllSteadyTwice DEF TypeOK
  <2>4. AllSteady(g, RejectAll(g, TRUE)) /\ RejectAll(g, TRUE) \in [Run -> Registration]
    BY RejectAllIs DEF AllSteady
  <2>5. AllSteady(run, RejectAll(g, TRUE)) /\ AllSteady(f, RejectAll(g, TRUE))
    <3>1. PICK h \in [Run -> Registration] : h = RejectAll(g, TRUE)
      BY <2>4
    <3> QED
      BY <2>1, <2>2, <2>3, <2>4, <3>1, AllSteadyTwice
  <2>6. CASE connecting = "none" /\ ~client.ready /\ ~client.path
    <3>1. /\ run' = g /\ safety' = "stopped" /\ required' = TRUE
          /\ UNCHANGED <<client, teardown, connecting>>
      BY <1>4, <2>2, <2>6 DEF DisconnectForSafety
    <3> QED
      BY <1>1, <1>4, <2>1, <2>2, <2>3, <2>6, <3>1 DEF TypeOK, ClientType
  <2>7. CASE ~(connecting = "none" /\ ~client.ready /\ ~client.path)
    <3>1. /\ Disconnect /\ required' = TRUE
          /\ safety' = IF teardown' # "none" THEN "first" ELSE "pending"
          /\ run' = IF teardown = "none" THEN RejectAll(g, TRUE) ELSE g
          /\ connecting' = IF teardown = "none" THEN ConnectingRejected ELSE connecting
      BY <1>4, <2>2, <2>7 DEF DisconnectForSafety
    <3>2. AllSteady(run, run') /\ AllSteady(f, run')
      BY <2>1, <2>2, <2>3, <2>5, <3>1
    <3>3. /\ connecting' \in {connecting, "none"} /\ (connecting' = "none" => connecting # "clearing")
          /\ connecting' \in {"none", "clearing", "initializing"}
      BY <3>1 DEF ConnectingRejected, TypeOK, ClientType
    <3>4. client' \in Fields /\ teardown' \in {"none", "disconnect", "exit"}
      BY <3>1, DisconnectIs DEF TypeOK, ClientType
    <3> QED
      BY <1>1, <1>4, <3>1, <3>2, <3>3, <3>4
  <2> QED
    BY <2>6, <2>7
<1> QED
  BY <1>3, <1>4

LEMMA CancelAllIs ==
  ASSUME TypeOK, CancelAll
  PROVE  /\ AllSteady(run, run')
         /\ \A r \in Run \ Status : Inflight(r) => run'[r].aborted \/ run'[r].phase = "done"
         /\ \/ cancel # "none" /\ UNCHANGED <<clientVars, required, safety, cancel, awaited>>
            \/ /\ cancel = "none" /\ cancel' \in {"stopping", "settling"}
               /\ awaited' = {r \in Run \ Status : Inflight(r)}
               /\ \/ \E f \in [Run -> Registration] : /\ cancel' = "stopping" /\ AllSteady(run, f)
                                                      /\ DisconnectForSafety(f)
                  \/ ~SomethingToStop /\ UNCHANGED <<clientVars, required, safety>>
<1>1. PICK f \in [Run -> Registration] : f = AbortAll(Run \ Status)
  BY AbortAllIs DEF AllSteady
<1>2. /\ AllSteady(run, f) /\ run \in [Run -> Registration]
      /\ \A r \in Run \ Status : Inflight(r) => f[r].aborted
  BY <1>1, AbortAllIs DEF TypeOK
<1>3. CASE cancel # "none"
  BY <1>1, <1>2, <1>3 DEF CancelAll
<1>4. CASE cancel = "none" /\ SomethingToStop
  <2>1. /\ awaited' = {r \in Run \ Status : Inflight(r)} /\ cancel' = "stopping"
        /\ DisconnectForSafety(f)
    BY <1>1, <1>4 DEF CancelAll
  <2>2. AllSteady(run, run') /\ AllSteady(f, run')
    BY <1>2, <2>1, DisconnectForSafetyIs
  <2>3. \A r \in Run : f[r].aborted => run'[r].aborted \/ run'[r].phase = "done"
    BY <2>2 DEF AllSteady, Steady
  <2> QED
    BY <1>2, <1>4, <2>1, <2>2, <2>3
<1>5. CASE cancel = "none" /\ ~SomethingToStop
  <2>1. /\ awaited' = {r \in Run \ Status : Inflight(r)} /\ cancel' = "settling" /\ run' = f
        /\ UNCHANGED <<clientVars, required, safety>>
    BY <1>1, <1>5 DEF CancelAll
  <2> QED
    BY <1>2, <1>5, <2>1
<1> QED
  BY <1>3, <1>4, <1>5

-----------------------------------------------------------------------------
(* Types.                                                                  *)

LEMMA AtIs ==
  ASSUME NEW x \in Registration, NEW p \in {"idle", "done"} \cup Waiting \cup InTurn
  PROVE  /\ At(x, p) \in Registration /\ At(x, p).phase = p
         /\ At(x, p).acked = x.acked /\ At(x, p).aborted = x.aborted
BY DEF At, Registration

(* A step of one run.                                                       *)
LEMMA OneIs ==
  ASSUME TypeOK, NEW r \in Run, NEW x \in Registration, Steady(r, run[r], x),
         run' = [run EXCEPT ![r] = x]
  PROVE  AllSteady(run, run') /\ run'[r] = x
<1>1. run \in [Run -> Registration]
  BY DEF TypeOK
<1>2. run' \in [Run -> Registration] /\ run'[r] = x /\ \A q \in Run \ {r} : run'[q] = run[q]
  BY <1>1
<1> QED
  BY <1>2 DEF AllSteady, Steady

LEMMA SameIs ==
  ASSUME TypeOK, UNCHANGED run
  PROVE  AllSteady(run, run')
BY DEF AllSteady, Steady, TypeOK

LEMMA StatusKeeps ==
  ASSUME TypeOK, AllSteady(run, run'), NEW r \in Status
  PROVE  run'[r].phase \notin InTurn \cup {"thread", "admit"}
<1>1. r \in Run /\ run[r].phase \notin InTurn \cup {"thread", "admit"}
  BY RunAssumption DEF TypeOK
<1>2. Steady(r, run[r], run'[r])
  BY <1>1 DEF AllSteady
<1> QED
  BY <1>1, <1>2 DEF Steady, InTurn, Waiting

(* The start of a connect.                                                 *)
LEMMA ConnectIs ==
  ASSUME TypeOK, Connect
  PROVE  /\ ClientType' /\ UNCHANGED <<turn, closeDue>>
         /\ \/ HasProcess /\ Disconnect /\ connecting' = "clearing" /\ UNCHANGED tree
            \/ /\ ~HasProcess /\ client' = Spawned /\ tree' = "alive"
               /\ connecting' = "initializing" /\ UNCHANGED teardown
<1>1. CASE HasProcess
  <2>1. Disconnect /\ connecting' = "clearing" /\ UNCHANGED <<tree, turn, closeDue>>
    BY <1>1 DEF Connect
  <2>2. client' \in Fields /\ teardown' \in {"none", "disconnect", "exit"}
    BY <2>1, DisconnectIs DEF TypeOK, ClientType
  <2> QED
    BY <1>1, <2>1, <2>2 DEF TypeOK, ClientType, Fields
<1>2. CASE ~HasProcess
  <2>1. /\ client' = Spawned /\ tree' = "alive" /\ connecting' = "initializing"
        /\ UNCHANGED <<teardown, turn, closeDue>>
    BY <1>2 DEF Connect
  <2>2. client' \in Fields
    BY <2>1, SpawnedIs
  <2> QED
    BY <1>2, <2>1, <2>2 DEF TypeOK, ClientType, Fields
<1> QED
  BY <1>1, <1>2

(* The end of the client's barrier.                                         *)
LEMMA TornDownIs ==
  ASSUME TypeOK, NEW ok \in BOOLEAN, TornDown(ok)
  PROVE  /\ ClientType'
         /\ teardown' = "none" /\ closeDue' = FALSE
         /\ Respawns(ok) => client' = Spawned /\ tree' = "alive" /\ connecting' = "initializing"
         /\ ~Respawns(ok) /\ ok =>
              /\ ~client'.child /\ ~client'.group /\ tree' = "none"
              /\ connecting' = connecting
         /\ ok => \A r \in Run : turn[r] # "stray" => turn'[r] = "none"
         /\ \A r \in Run : turn'[r] = "stray" => turn[r] = "stray" \/ ~ok
<1>1. PICK k \in Fields : k = client
  BY DEF TypeOK, ClientType, Fields
<1>2. /\ teardown' = "none" /\ closeDue' = FALSE
      /\ Respawns(ok) => client' = Spawned
      /\ ~Respawns(ok) /\ ok => client' = [k EXCEPT !.child = FALSE, !.group = FALSE]
      /\ ~Respawns(ok) /\ ~ok => client' = k
      /\ tree' = IF Respawns(ok) THEN "alive" ELSE IF ok THEN "none" ELSE tree
  BY <1>1 DEF TornDown
<1>3. /\ client' \in Fields
      /\ ~Respawns(ok) /\ ok => ~client'.child /\ ~client'.group
  <2>1. [k EXCEPT !.child = FALSE, !.group = FALSE] \in Fields
    BY DEF Fields
  <2>2. ~[k EXCEPT !.child = FALSE, !.group = FALSE].child
        /\ ~[k EXCEPT !.child = FALSE, !.group = FALSE].group
    BY DEF Fields
  <2> QED
    BY <1>2, <2>1, <2>2, SpawnedIs
<1>4. /\ connecting' \in {"none", "clearing", "initializing"}
      /\ Respawns(ok) => connecting' = "initializing"
      /\ ~Respawns(ok) /\ ok => connecting' = connecting
  BY DEF TornDown, Respawns, Passes, TypeOK, ClientType
<1>5. /\ turn' \in [Run -> {"none", "sent", "working", "ended", "stray"}]
      /\ ok => \A r \in Run : turn[r] # "stray" => turn'[r] = "none"
      /\ \A r \in Run : turn'[r] = "stray" => turn[r] = "stray" \/ ~ok
  <2>1. turn' = [r \in Run |-> CASE turn[r] = "stray" -> "stray"
                                 [] ok /\ turn[r] # "stray" -> "none"
                                 [] Respawns(ok) /\ turn[r] = "working" -> "stray"
                                 [] OTHER -> turn[r]]
    BY DEF TornDown
  <2>2. ASSUME NEW r \in Run
        PROVE  /\ turn'[r] \in {"none", "sent", "working", "ended", "stray"}
               /\ ok /\ turn[r] # "stray" => turn'[r] = "none"
               /\ turn'[r] = "stray" => turn[r] = "stray" \/ ~ok
    <3>1. turn[r] \in {"none", "sent", "working", "ended", "stray"}
      BY DEF TypeOK, ClientType
    <3>2. turn'[r] = CASE turn[r] = "stray" -> "stray"
                       [] ok /\ turn[r] # "stray" -> "none"
                       [] Respawns(ok) /\ turn[r] = "working" -> "stray"
                       [] OTHER -> turn[r]
      BY <2>1
    <3>3. CASE turn[r] = "stray"
      BY <3>1, <3>2, <3>3
    <3>4. CASE turn[r] # "stray" /\ ok
      <4>1. turn'[r] = "none"
        <5>1. ok = TRUE
          BY <3>4
        <5>2. turn'[r] = CASE turn[r] = "stray" -> "stray"
                           [] TRUE -> "none"
                           [] OTHER -> turn[r]
          BY <3>2, <3>4, <5>1
        <5> QED
          BY <3>4, <5>2
      <4> QED
        BY <3>4, <4>1
    <3>5. CASE turn[r] # "stray" /\ ~ok
      <4>1. turn'[r] = IF Respawns(ok) /\ turn[r] = "working" THEN "stray" ELSE turn[r]
        BY <3>2, <3>5
      <4> QED
        BY <3>1, <3>5, <4>1
    <3> QED
      BY <3>3, <3>4, <3>5
  <2> QED
    BY <2>1, <2>2
<1>6. tree' \in {"none", "alive", "orphans"}
  BY <1>2 DEF TypeOK, ClientType
<1> QED
  BY <1>2, <1>3, <1>4, <1>5, <1>6 DEF ClientType, Fields

(* A run begins; the others are at most rejected.                           *)
LEMMA BeginMoves ==
  ASSUME TypeOK, NEW r \in Run, Begin(r)
  PROVE  /\ run' \in [Run -> Registration] /\ \A q \in Run \ {r} : Steady(q, run[q], run'[q])
         /\ run[r].phase = "idle" /\ run'[r].acked = run[r].acked
         /\ run'[r].phase \in {"thread", "done", "read", "connect"}
         /\ run'[r].phase = "thread" => r \notin Status
<1>0. PICK x \in Registration : x = run[r]
  BY DEF TypeOK
<1>1. run[r].phase = "idle" /\ run \in [Run -> Registration] /\ required \in BOOLEAN
  BY DEF Begin, TypeOK
<1>2. ASSUME NEW f \in [Run -> Registration], AllSteady(run, f),
             NEW y \in Registration, y.acked = x.acked, run' = [f EXCEPT ![r] = y]
      PROVE  /\ run' \in [Run -> Registration] /\ \A q \in Run \ {r} : Steady(q, run[q], run'[q])
             /\ run'[r].acked = run[r].acked /\ run'[r] = y
  <2>1. run' \in [Run -> Registration] /\ run'[r] = y /\ \A q \in Run \ {r} : run'[q] = f[q]
    BY <1>2
  <2> QED
    BY <1>0, <1>2, <2>1 DEF AllSteady
<1>3. \A p \in {"thread", "read", "connect"} :
        At(x, p) \in Registration /\ At(x, p).phase = p /\ At(x, p).acked = x.acked
  BY AtIs DEF Waiting
<1>4. Ended(x) \in Registration /\ Ended(x).phase = "done" /\ Ended(x).acked = x.acked
  BY EndedIs
<1>5. AllSteady(run, run) /\ AllSteady(run, RejectAll(run, required))
  BY <1>1, RejectAllIs DEF AllSteady, Steady
<1>6. \/ /\ r \notin Status
         /\ run' = [run EXCEPT ![r] = IF client.child THEN At(@, "thread") ELSE Ended(@)]
      \/ run' = [run EXCEPT ![r] = At(@, IF client.ready THEN "read" ELSE "connect")]
      \/ run' = [IF HasProcess /\ teardown = "none" THEN RejectAll(run, required) ELSE run
                   EXCEPT ![r] = At(run[r], "connect")]
  BY DEF Begin
<1>7. CASE /\ r \notin Status
           /\ run' = [run EXCEPT ![r] = IF client.child THEN At(@, "thread") ELSE Ended(@)]
  <2>1. PICK y \in Registration : /\ y = (IF client.child THEN At(x, "thread") ELSE Ended(x))
                                  /\ y.acked = x.acked /\ y.phase \in {"thread", "done"}
    BY <1>3, <1>4
  <2>2. run' = [run EXCEPT ![r] = y]
    BY <1>0, <1>7, <2>1
  <2> QED
    BY <1>1, <1>2, <1>5, <1>7, <2>1, <2>2
<1>8. CASE run' = [run EXCEPT ![r] = At(@, IF client.ready THEN "read" ELSE "connect")]
  <2>1. PICK y \in Registration : /\ y = At(x, IF client.ready THEN "read" ELSE "connect")
                                  /\ y.acked = x.acked /\ y.phase \in {"read", "connect"}
    BY <1>3
  <2>2. run' = [run EXCEPT ![r] = y]
    BY <1>0, <1>8, <2>1
  <2> QED
    BY <1>1, <1>2, <1>5, <2>1, <2>2
<1>9. CASE run' = [IF HasProcess /\ teardown = "none" THEN RejectAll(run, required) ELSE run
                     EXCEPT ![r] = At(run[r], "connect")]
  <2>1. PICK y \in Registration : y = At(x, "connect") /\ y.acked = x.acked /\ y.phase = "connect"
    BY <1>3
  <2>2. PICK f \in [Run -> Registration] :
          /\ f = (IF HasProcess /\ teardown = "none" THEN RejectAll(run, required) ELSE run)
          /\ AllSteady(run, f)
    BY <1>1, <1>5 DEF AllSteady
  <2>3. run' = [f EXCEPT ![r] = y]
    BY <1>0, <1>9, <2>1, <2>2
  <2> QED
    BY <1>1, <1>2, <2>1, <2>2, <2>3
<1> QED
  BY <1>6, <1>7, <1>8, <1>9

(* The steps of one run that leave it steady.                               *)
LEMMA RunMoves ==
  ASSUME TypeOK, NEW r \in Run,
         \/ StatusRead(r) \/ EarlyEnd(r) \/ ThreadKnown(r)
         \/ TurnNotStarted(r) \/ Abort(r) \/ InterruptAnswered(r)
  PROVE  AllSteady(run, run')
<1>0. PICK x0 \in Registration : x0 = run[r]
  BY DEF TypeOK
<1>1. CASE StatusRead(r)
  <2>1. /\ run[r].phase = "read"
        /\ run' = [run EXCEPT ![r] = IF run[r].aborted \/ r \in Status \/ ~client.child
                                       THEN Ended(run[r]) ELSE At(run[r], "thread")]
    BY <1>1 DEF StatusRead, RunStep
  <2>2. /\ r \notin Status => Steady(r, x0, At(x0, "thread"))
        /\ At(x0, "thread") \in Registration
        /\ Steady(r, x0, Ended(x0)) /\ Ended(x0) \in Registration
    <3>1. /\ At(x0, "thread") \in Registration /\ At(x0, "thread").phase = "thread"
          /\ At(x0, "thread").acked = x0.acked /\ At(x0, "thread").aborted = x0.aborted
      BY AtIs DEF Waiting
    <3>2. r \notin Status => Steady(r, x0, At(x0, "thread"))
      BY <1>0, <2>1, <3>1 DEF Steady, Waiting
    <3>3. Steady(r, x0, Ended(x0)) /\ Ended(x0) \in Registration
      BY <1>0, <2>1, EndedIs
    <3> QED
      BY <3>1, <3>2, <3>3
  <2>3. PICK y \in Registration : /\ y = (IF run[r].aborted \/ r \in Status \/ ~client.child
                                            THEN Ended(x0) ELSE At(x0, "thread"))
                                  /\ Steady(r, x0, y)
    BY <2>2
  <2> QED
    BY <1>0, <2>1, <2>3, OneIs
<1>2. CASE EarlyEnd(r)
  <2>1. run' = [run EXCEPT ![r] = Ended(x0)] /\ run[r].phase # "active"
    BY <1>0, <1>2 DEF EarlyEnd, RunStep
  <2> QED
    BY <1>0, <2>1, EndedIs, OneIs
<1>7. CASE TurnNotStarted(r)
  <2>1. /\ run[r].phase = "starting"
        /\ run' = [run EXCEPT ![r] = IF required THEN At(x0, "held") ELSE Ended(x0)]
    BY <1>0, <1>7 DEF TurnNotStarted, RunStep, Rejected
  <2>2. r \notin Status /\ required \in BOOLEAN
    BY <2>1 DEF TypeOK, InTurn
  <2>3. Steady(r, x0, At(x0, "held")) /\ At(x0, "held") \in Registration
    BY <1>0, <2>1, <2>2, AtIs DEF Steady, InTurn, Waiting
  <2>4. Steady(r, x0, Ended(x0)) /\ Ended(x0) \in Registration
    BY <1>0, <2>1, EndedIs
  <2> QED
    BY <1>0, <2>1, <2>3, <2>4, OneIs
<1>3. CASE ThreadKnown(r)
  <2>1. /\ run' = [run EXCEPT ![r] = At(x0, "admit")] /\ run[r].phase = "thread" /\ r \notin Status
    BY <1>0, <1>3, RunAssumption DEF ThreadKnown, RunStep
  <2>2. Steady(r, x0, At(x0, "admit")) /\ At(x0, "admit") \in Registration
    BY <1>0, <2>1, AtIs DEF Steady, Waiting
  <2> QED
    BY <1>0, <2>1, <2>2, OneIs
<1>4. CASE Abort(r)
  <2>1. run' = [run EXCEPT ![r] = Aborted(x0)]
    BY <1>0, <1>4 DEF Abort, RunStep
  <2> QED
    BY <1>0, <2>1, AbortedIs, OneIs
<1>5. CASE InterruptAnswered(r)
  <2>1. run' = [run EXCEPT ![r] = [x0 EXCEPT !.interrupt = "timer"]]
    BY <1>0, <1>5 DEF InterruptAnswered, RunStep
  <2>2. [x0 EXCEPT !.interrupt = "timer"] \in Registration
        /\ Steady(r, x0, [x0 EXCEPT !.interrupt = "timer"])
    BY DEF Registration, Steady
  <2> QED
    BY <1>0, <2>1, <2>2, OneIs
<1> QED
  BY <1>1, <1>2, <1>3, <1>4, <1>5, <1>7

(* The steps that begin or carry on a safety disconnect at once.             *)
LEMMA StopsBegin ==
  ASSUME TypeOK,
         \/ \E r \in Run : InterruptUnconfirmed(r) \/ TurnFloods(r)
         \/ MarkUnavailable /\ SomethingToStop
         \/ LastDisconnect /\ SomethingToStop
  PROVE  \E f \in [Run -> Registration] : AllSteady(run, f) /\ DisconnectForSafety(f)
<1>0. run \in [Run -> Registration] /\ AllSteady(run, run)
  BY DEF TypeOK, AllSteady, Steady
<1>1. ASSUME NEW r \in Run, InterruptUnconfirmed(r)
      PROVE  \E f \in [Run -> Registration] : AllSteady(run, f) /\ DisconnectForSafety(f)
  <2>1. PICK x \in Registration : x = run[r]
    BY DEF TypeOK
  <2>2. [x EXCEPT !.interrupt = "no"] \in Registration
        /\ Steady(r, x, [x EXCEPT !.interrupt = "no"])
    BY DEF Registration, Steady
  <2>3. PICK f : f = [run EXCEPT ![r].interrupt = "no"]
    OBVIOUS
  <2>4. f = [run EXCEPT ![r] = [x EXCEPT !.interrupt = "no"]]
    BY <1>0, <2>1, <2>3
  <2>5. AllSteady(run, f)
    BY <1>0, <2>1, <2>2, <2>4 DEF AllSteady
  <2> QED
    BY <1>1, <2>3, <2>5 DEF InterruptUnconfirmed, AllSteady
<1>2. ASSUME NEW r \in Run, TurnFloods(r)
      PROVE  \E f \in [Run -> Registration] : AllSteady(run, f) /\ DisconnectForSafety(f)
  BY <1>0, <1>2 DEF TurnFloods
<1>3. ASSUME MarkUnavailable, SomethingToStop
      PROVE  \E f \in [Run -> Registration] : AllSteady(run, f) /\ DisconnectForSafety(f)
  <2>1. AllSteady(run, [r \in Run |-> Stopped(run[r])])
    BY <1>0, StoppedIs DEF AllSteady
  <2> QED
    BY <1>3, <2>1 DEF MarkUnavailable, AllSteady
<1>4. ASSUME LastDisconnect, SomethingToStop
      PROVE  \E f \in [Run -> Registration] : AllSteady(run, f) /\ DisconnectForSafety(f)
  BY <1>0, <1>4 DEF LastDisconnect
<1> QED
  BY <1>1, <1>2, <1>3, <1>4

LEMMA StopsMove ==
  ASSUME TypeOK,
         \/ \E r \in Run : InterruptUnconfirmed(r) \/ TurnFloods(r)
         \/ MarkUnavailable \/ LastDisconnect \/ SecondPass \/ ServerExits \/ ServerFails
         \/ LoseLease \/ ManagerShutdown \/ RuntimeShutdown \/ Unload
         \/ Initialized \/ InitializeFails
  PROVE  AllSteady(run, run')
<1>0. /\ run \in [Run -> Registration] /\ required \in BOOLEAN
      /\ \A stopping \in BOOLEAN : AllSteady(run, RejectAll(run, stopping))
      /\ AllSteady(run, run)
  <2>1. run \in [Run -> Registration] /\ required \in BOOLEAN
    BY DEF TypeOK
  <2> QED
    BY <2>1, RejectAllIs DEF AllSteady, Steady
<1>1. CASE \/ \E r \in Run : InterruptUnconfirmed(r) \/ TurnFloods(r)
           \/ MarkUnavailable /\ SomethingToStop
           \/ LastDisconnect /\ SomethingToStop
  BY <1>1, StopsBegin, DisconnectForSafetyIs
<1>2. CASE MarkUnavailable /\ ~SomethingToStop
  <2>1. run' = [r \in Run |-> Stopped(run[r])]
    BY <1>2 DEF MarkUnavailable
  <2> QED
    BY <1>0, <2>1, StoppedIs DEF AllSteady
<1>3. CASE LastDisconnect /\ ~SomethingToStop
  BY <1>3, SameIs DEF LastDisconnect
<1>4. CASE SecondPass
  <2>1. run' = RejectAll(run, TRUE) \/ run' = run
    BY <1>4 DEF SecondPass
  <2> QED
    BY <1>0, <2>1, SameIs
<1>5. CASE ServerExits \/ ServerFails
  <2>1. run' = RejectAll(run, required)
    BY <1>5 DEF ServerExits, ServerFails
  <2> QED
    BY <1>0, <2>1
<1>6. CASE LoseLease \/ ManagerShutdown \/ RuntimeShutdown
  BY <1>6, CancelAllIs DEF LoseLease, ManagerShutdown, RuntimeShutdown
<1>7. CASE Unload
  <2>1. run' = AbortAll(Chat)
    BY <1>7 DEF Unload
  <2> QED
    BY <2>1, AbortAllIs, RunAssumption
<1>8. CASE Initialized
  <2>1. ASSUME NEW r \in Run
        PROVE  run'[r] \in Registration /\ Steady(r, run[r], run'[r])
    <3>1. PICK x \in Registration : x = run[r]
      BY <1>0
    <3>2. run'[r] = IF x.phase # "connect" THEN x ELSE IF x.aborted THEN Ended(x) ELSE At(x, "read")
      BY <1>8, <3>1 DEF Initialized
    <3>3. CASE x.phase # "connect"
      BY <3>1, <3>2, <3>3 DEF Steady
    <3>4. CASE x.phase = "connect" /\ x.aborted
      BY <3>1, <3>2, <3>4, EndedIs
    <3>5. CASE x.phase = "connect" /\ ~x.aborted
      <4>1. /\ At(x, "read") \in Registration /\ At(x, "read").phase = "read"
            /\ At(x, "read").acked = x.acked /\ At(x, "read").aborted = x.aborted
        BY AtIs DEF Waiting
      <4> QED
        BY <3>1, <3>2, <3>5, <4>1 DEF Steady, Waiting
    <3> QED
      BY <3>3, <3>4, <3>5
  <2> QED
    BY <1>8, <2>1 DEF Initialized, AllSteady
<1>9. CASE InitializeFails
  <2>1. ASSUME NEW r \in Run
        PROVE  run'[r] \in Registration /\ Steady(r, run[r], run'[r])
    <3>1. PICK x \in Registration : x = run[r]
      BY <1>0
    <3>2. run'[r] = IF x.phase = "connect" THEN Ended(x) ELSE x
      BY <1>9, <3>1 DEF InitializeFails
    <3> QED
      BY <3>1, <3>2, EndedIs DEF Steady
  <2> QED
    BY <1>9, <2>1 DEF InitializeFails, AllSteady
<1> QED
  BY <1>1, <1>2, <1>3, <1>4, <1>5, <1>6, <1>7, <1>8, <1>9

(* The steps that only end runs.                                            *)
MayEnd(f, g) == g \in [Run -> Registration] /\ \A r \in Run : g[r] \in {f[r], Ended(f[r])}

LEMMA EndsMove ==
  ASSUME TypeOK, \/ \E r \in Run : TurnCompleted(r)
                 \/ \E ok \in BOOLEAN : TeardownEnds(ok)
                 \/ SafetyEnds
  PROVE  MayEnd(run, run')
<1>0. run \in [Run -> Registration] /\ \A r \in Run : Ended(run[r]) \in Registration
  BY EndedIs DEF TypeOK
<1>1. ASSUME NEW r \in Run, TurnCompleted(r)
      PROVE  MayEnd(run, run')
  <2>1. run' = [run EXCEPT ![r] = IF run[r].phase = "active" /\ ~required THEN Ended(run[r])
                                                                        ELSE run[r]]
    BY <1>0, <1>1 DEF TurnCompleted
  <2> QED
    BY <1>0, <2>1 DEF MayEnd
<1>2. ASSUME NEW ok \in BOOLEAN, TeardownEnds(ok)
      PROVE  MayEnd(run, run')
  BY <1>0, <1>2 DEF TeardownEnds, MayEnd
<1>3. CASE SafetyEnds
  <2>1. run' = [r \in Run |-> IF r \in Turns THEN Ended(run[r]) ELSE run[r]] \/ run' = run
    BY <1>3 DEF SafetyEnds
  <2> QED
    BY <1>0, <2>1 DEF MayEnd
<1> QED
  BY <1>1, <1>2, <1>3

(* The two steps that begin a turn.                                          *)
LEMMA TurnBegins ==
  ASSUME TypeOK, NEW r \in Run, TurnStarts(r) \/ TurnAcknowledged(r)
  PROVE  /\ run' \in [Run -> Registration] /\ r \notin Status
         /\ \A q \in Run \ {r} : run'[q] = run[q]
         /\ run'[r].aborted = run[r].aborted \/ run'[r].phase = "done"
         /\ TurnStarts(r) => run'[r].acked = run[r].acked /\ run'[r].phase \in {"starting", "done"}
         /\ TurnAcknowledged(r) => run'[r].phase = "active"
<1>1. PICK x \in Registration : x = run[r]
  BY DEF TypeOK
<1>2. run \in [Run -> Registration] /\ \A q \in Status : run[q].phase \notin InTurn \cup {"thread", "admit"}
  BY DEF TypeOK
<1>3. r \notin Status
  BY <1>2 DEF TurnStarts, TurnAcknowledged, InTurn
<1>4. CASE TurnStarts(r)
  <2>1. \/ run' = [run EXCEPT ![r] = At(x, "starting")]
        \/ run' = [run EXCEPT ![r] = Ended(x)]
    BY <1>1, <1>2, <1>4 DEF TurnStarts, At
  <2>2. /\ At(x, "starting") \in Registration /\ At(x, "starting").phase = "starting"
        /\ At(x, "starting").acked = x.acked /\ At(x, "starting").aborted = x.aborted
    BY AtIs DEF InTurn
  <2>3. Ended(x) \in Registration /\ Ended(x).phase = "done" /\ Ended(x).acked = x.acked
    BY EndedIs
  <2>4. run[r].phase \in {"admit", "thread"}
    BY <1>4 DEF TurnStarts
  <2>5. ~TurnAcknowledged(r)
    BY <2>4 DEF TurnAcknowledged
  <2> QED
    BY <1>1, <1>2, <1>3, <2>1, <2>2, <2>3, <2>5
<1>5. CASE TurnAcknowledged(r)
  <2> DEFINE y == [At(x, "active") EXCEPT !.acked = TRUE]
  <2>1. y \in Registration /\ y.phase = "active" /\ y.aborted = x.aborted
    BY DEF At, Registration, InTurn
  <2>2. Aborted(y) \in Registration /\ Aborted(y).phase = "active" /\ Aborted(y).aborted
    BY <2>1, AbortedIs
  <2>3. run' = [run EXCEPT ![r] = IF y.aborted THEN Aborted(y) ELSE y]
    BY <1>1, <1>5 DEF TurnAcknowledged, RunStep
  <2>4. ~TurnStarts(r)
    BY <1>5 DEF TurnStarts, TurnAcknowledged
  <2> HIDE DEF y
  <2> QED
    BY <1>1, <1>2, <1>3, <2>1, <2>2, <2>3, <2>4 DEF Registration
<1> QED
  BY <1>4, <1>5

(* What the steps of the client leave well typed.                            *)
OtherTypes ==
  /\ statusReady \in BOOLEAN /\ required \in BOOLEAN
  /\ safety \in {"none", "first", "pending", "second", "stopped", "failed"}
  /\ cancel \in {"none", "stopping", "settling"} /\ awaited \subseteq Run \ Status
  /\ loss \in {"no", "stopping", "done", "failed"}
  /\ unload \in {"no", "chat", "cancelAll", "maintenance", "cancelAgain",
                 "finish", "last", "check", "clean", "failed"}
  /\ faults \in 0..MaxFaults
  /\ safety # "none" => required

LEMMA TypesTogether ==
  /\ TypeOK => OtherTypes /\ ClientType
  /\ TypeOK /\ AllSteady(run, run') /\ ClientType' /\ OtherTypes' => TypeOK'
  /\ TypeOK /\ MayEnd(run, run') /\ ClientType' /\ OtherTypes' => TypeOK'
<1>1. TypeOK => OtherTypes /\ ClientType
  BY DEF TypeOK, OtherTypes
<1>2. ASSUME TypeOK, AllSteady(run, run'), ClientType', OtherTypes'
      PROVE  TypeOK'
  <2>1. \A r \in Status : run'[r].phase \notin InTurn \cup {"thread", "admit"}
    BY <1>2, StatusKeeps
  <2> QED
    BY <1>2, <2>1 DEF TypeOK, OtherTypes, AllSteady
<1>3. ASSUME TypeOK, MayEnd(run, run'), ClientType', OtherTypes'
      PROVE  TypeOK'
  <2>1. ASSUME NEW r \in Status
        PROVE  run'[r].phase \notin InTurn \cup {"thread", "admit"}
    <3>1. PICK x \in Registration : x = run[r]
      BY <1>3, RunAssumption DEF TypeOK
    <3>2. run'[r] \in {x, Ended(x)} /\ x.phase \notin InTurn \cup {"thread", "admit"}
      BY <1>3, <3>1, RunAssumption DEF TypeOK, MayEnd
    <3>3. Ended(x).phase = "done"
      BY RunAssumption, EndedIs
    <3> QED
      BY <3>2, <3>3 DEF InTurn
  <2> QED
    BY <1>3, <2>1 DEF TypeOK, OtherTypes, MayEnd
<1> QED
  BY <1>1, <1>2, <1>3

LEMMA ClientTypes ==
  ASSUME TypeOK, client' \in Fields, UNCHANGED <<tree, turn>>,
         teardown' \in {"none", "disconnect", "exit"}, closeDue' \in BOOLEAN,
         connecting' \in {"none", "clearing", "initializing"}
  PROVE  ClientType'
BY DEF TypeOK, ClientType, Fields

LEMMA SafetyTypes ==
  ASSUME TypeOK, NEW f \in [Run -> Registration], AllSteady(run, f), DisconnectForSafety(f)
  PROVE  /\ ClientType' /\ required' \in BOOLEAN
         /\ safety' \in {"none", "first", "pending", "second", "stopped", "failed"}
         /\ safety' # "none" => required'
<1>1. ClientType'
  <2>1. /\ client' \in Fields /\ UNCHANGED <<tree, turn, closeDue>>
        /\ teardown' \in {"none", "disconnect", "exit"}
        /\ connecting' \in {"none", "clearing", "initializing"}
    BY DisconnectForSafetyIs
  <2> QED
    BY <2>1, ClientTypes DEF TypeOK, ClientType
<1>2. required' = TRUE
  BY DisconnectForSafetyIs
<1>3. safety' \in {"none", "first", "pending", "second", "stopped", "failed"}
  BY DEF DisconnectForSafety, TypeOK
<1> QED
  BY <1>1, <1>2, <1>3

LEMMA CancelTypes ==
  ASSUME TypeOK, CancelAll
  PROVE  /\ ClientType' /\ required' \in BOOLEAN
         /\ safety' \in {"none", "first", "pending", "second", "stopped", "failed"}
         /\ safety' # "none" => required'
         /\ cancel' \in {"none", "stopping", "settling"} /\ awaited' \subseteq Run \ Status
<1>1. CASE cancel # "none" /\ UNCHANGED <<clientVars, required, safety, cancel, awaited>>
  BY <1>1 DEF TypeOK, ClientType, clientVars
<1>2. CASE /\ cancel' \in {"stopping", "settling"}
           /\ awaited' = {r \in Run \ Status : Inflight(r)}
           /\ \E f \in [Run -> Registration] : AllSteady(run, f) /\ DisconnectForSafety(f)
  BY <1>2, SafetyTypes
<1>3. CASE /\ cancel' \in {"stopping", "settling"}
           /\ awaited' = {r \in Run \ Status : Inflight(r)}
           /\ UNCHANGED <<clientVars, required, safety>>
  BY <1>3 DEF TypeOK, ClientType, clientVars
<1> QED
  BY <1>1, <1>2, <1>3, CancelAllIs

(* Every step keeps the types.                                              *)
LEMMA TypeKeeps == TypeOK /\ [Next]_vars => TypeOK'
<1> SUFFICES ASSUME TypeOK, [Next]_vars
             PROVE  TypeOK'
  OBVIOUS
<1>0. OtherTypes /\ ClientType /\ run \in [Run -> Registration]
  BY TypesTogether DEF TypeOK
<1>1. ASSUME NEW r \in Run, Begin(r)
      PROVE  TypeOK'
  <2>1. OtherTypes'
    BY <1>0, <1>1 DEF Begin, OtherTypes
  <2>2. ClientType'
    <3>1. CASE UNCHANGED clientVars
      BY <1>0, <3>1 DEF clientVars, ClientType
    <3>2. CASE Connect
      BY <3>2, ConnectIs
    <3> QED
      BY <1>1, <3>1, <3>2 DEF Begin
  <2>3. ASSUME NEW q \in Status
        PROVE  run'[q].phase \notin InTurn \cup {"thread", "admit"}
    <3>1. q \in Run /\ run[q].phase \notin InTurn \cup {"thread", "admit"}
      BY RunAssumption DEF TypeOK
    <3>2. CASE q = r
      BY <1>1, <2>3, <3>2, BeginMoves DEF InTurn
    <3>3. CASE q # r
      <4>1. Steady(q, run[q], run'[q])
        BY <1>1, <3>1, <3>3, BeginMoves
      <4> QED
        BY <3>1, <4>1 DEF Steady, InTurn, Waiting
    <3> QED
      BY <3>2, <3>3
  <2> QED
    BY <1>1, <2>1, <2>2, <2>3, BeginMoves DEF TypeOK, OtherTypes
<1>2. ASSUME NEW r \in Run,
             \/ StatusRead(r) \/ EarlyEnd(r) \/ ThreadKnown(r)
             \/ TurnNotStarted(r) \/ Abort(r) \/ InterruptAnswered(r)
      PROVE  TypeOK'
  <2>1. AllSteady(run, run')
    BY <1>2, RunMoves
  <2>2. /\ UNCHANGED <<clientVars, required, safety, cancel, awaited, loss, unload, faults>>
        /\ statusReady' \in BOOLEAN
    BY <1>0, <1>2 DEF StatusRead, EarlyEnd, ThreadKnown, TurnNotStarted, Abort,
                      InterruptAnswered, RunStep, OtherTypes
  <2>3. OtherTypes' /\ ClientType'
    BY <1>0, <2>2 DEF OtherTypes, ClientType, clientVars
  <2> QED
    BY <2>1, <2>3, TypesTogether
<1>3. ASSUME NEW r \in Run, TurnStarts(r) \/ TurnAcknowledged(r)
      PROVE  TypeOK'
  <2>1. run' \in [Run -> Registration] /\ \A q \in Status : q \in Run /\ run'[q] = run[q]
    BY <1>3, TurnBegins, RunAssumption
  <2>2. turn' \in [Run -> {"none", "sent", "working", "ended", "stray"}]
    BY <1>0, <1>3 DEF TurnStarts, TurnAcknowledged, RunStep, clientVars, ClientType
  <2>3. /\ UNCHANGED <<tree, client, teardown, closeDue, connecting>>
        /\ UNCHANGED <<statusReady, required, safety, cancel, awaited, loss, unload, faults>>
    BY <1>3 DEF TurnStarts, TurnAcknowledged, RunStep, clientVars
  <2> QED
    BY <2>1, <2>2, <2>3 DEF TypeOK, ClientType
<1>4. ASSUME NEW r \in Run, TurnCompleted(r)
      PROVE  TypeOK'
  <2>1. /\ UNCHANGED <<tree, client, teardown, closeDue, connecting>>
        /\ UNCHANGED <<statusReady, required, safety, cancel, awaited, loss, unload, faults>>
        /\ turn' = [turn EXCEPT ![r] = "none"]
    BY <1>4 DEF TurnCompleted
  <2>2. OtherTypes' /\ ClientType'
    BY <1>0, <2>1 DEF OtherTypes, ClientType
  <2> QED
    BY <1>4, <2>2, EndsMove, TypesTogether
<1>5. ASSUME NEW r \in Run, InterruptUnconfirmed(r) \/ TurnFloods(r)
      PROVE  TypeOK'
  <2>1. AllSteady(run, run')
    BY <1>5, StopsMove
  <2>2. PICK f \in [Run -> Registration] : AllSteady(run, f) /\ DisconnectForSafety(f)
    BY <1>5, StopsBegin
  <2>3. /\ UNCHANGED <<statusReady, cancel, awaited, loss, unload>>
        /\ faults' \in 0..MaxFaults
    BY <1>0, <1>5, FaultAssumption
       DEF InterruptUnconfirmed, TurnFloods, Fault, OtherTypes
  <2>4. OtherTypes' /\ ClientType'
    BY <1>0, <2>2, <2>3, SafetyTypes DEF OtherTypes
  <2> QED
    BY <2>1, <2>4, TypesTogether
<1>6. ASSUME NEW r \in Run, Client(r)
      PROVE  TypeOK'
  <2>1. /\ UNCHANGED <<tree, client, teardown, closeDue, connecting, runtimeVars>>
        /\ turn' \in [Run -> {"none", "sent", "working", "ended", "stray"}]
    BY <1>0, <1>6 DEF Client, ServerStarts, ServerFinishes, ClientType
  <2> QED
    BY <2>1 DEF TypeOK, ClientType, runtimeVars
<1>7. CASE Initialized
  <2>1. client' = [client EXCEPT !.ready = TRUE] /\ client \in Fields
    BY <1>0, <1>7 DEF Initialized, ClientType, Fields
  <2>2. client' \in Fields
    BY <2>1 DEF Fields
  <2>3. /\ connecting' = "none"
        /\ UNCHANGED <<tree, teardown, closeDue, turn>>
        /\ UNCHANGED <<statusReady, required, safety, cancel, awaited, loss, unload, faults>>
    BY <1>7 DEF Initialized
  <2>4. OtherTypes' /\ ClientType'
    BY <1>0, <2>2, <2>3 DEF OtherTypes, ClientType, Fields
  <2> QED
    BY <1>7, <2>4, StopsMove, TypesTogether
<1>8. CASE InitializeFails
  <2>1. /\ connecting' = "none"
        /\ UNCHANGED <<tree, client, teardown, closeDue, turn>>
        /\ UNCHANGED <<statusReady, required, safety, cancel, awaited, loss, unload, faults>>
    BY <1>8 DEF InitializeFails
  <2>2. OtherTypes' /\ ClientType'
    BY <1>0, <2>1 DEF OtherTypes, ClientType
  <2> QED
    BY <1>8, <2>2, StopsMove, TypesTogether
<1>9. CASE ServerExits
  <2>1. PICK k \in Fields : k = client
    BY <1>0 DEF ClientType, Fields
  <2>2. /\ client' = [k EXCEPT !.child = FALSE, !.ready = FALSE]
        /\ tree' = "orphans" /\ teardown' = "exit" /\ closeDue' = closeDue
        /\ connecting' \in {connecting, "none"}
        /\ turn' = [r \in Run |-> IF turn[r] = "sent" THEN "none" ELSE turn[r]]
        /\ UNCHANGED <<statusReady, required, safety, cancel, awaited, loss, unload>>
        /\ faults' \in 0..MaxFaults
    BY <1>0, <1>9, <2>1, FaultAssumption
       DEF ServerExits, ExitSeen, ConnectingRejected, Fault, OtherTypes
  <2>3. client' \in Fields
    BY <2>2 DEF Fields
  <2>4. OtherTypes' /\ ClientType'
    BY <1>0, <2>2, <2>3 DEF OtherTypes, ClientType, Fields
  <2> QED
    BY <1>9, <2>4, StopsMove, TypesTogether
<1>10. CASE ServerFails
  <2>1. /\ Disconnect /\ closeDue' = TRUE /\ UNCHANGED <<tree, turn>>
        /\ connecting' \in {connecting, "none"}
        /\ UNCHANGED <<statusReady, required, safety, cancel, awaited, loss, unload>>
        /\ faults' \in 0..MaxFaults
    BY <1>0, <1>10, FaultAssumption
       DEF ServerFails, FatalSeen, ConnectingRejected, Fault, OtherTypes
  <2>2. client' \in Fields /\ teardown' \in {"none", "disconnect", "exit"}
    BY <1>0, <2>1, DisconnectIs DEF ClientType
  <2>3. OtherTypes' /\ ClientType'
    BY <1>0, <2>1, <2>2, ClientTypes DEF OtherTypes, ClientType
  <2> QED
    BY <1>10, <2>3, StopsMove, TypesTogether
<1>11. CASE MarkUnavailable
  <2>1. /\ statusReady' = FALSE /\ UNCHANGED <<cancel, awaited, loss, unload>>
        /\ faults' \in 0..MaxFaults
    BY <1>0, <1>11, FaultAssumption DEF MarkUnavailable, Fault, OtherTypes
  <2>2. CASE SomethingToStop
    <3>1. PICK f \in [Run -> Registration] : AllSteady(run, f) /\ DisconnectForSafety(f)
      BY <1>11, <2>2, StopsBegin
    <3>2. OtherTypes' /\ ClientType'
      BY <1>0, <2>1, <3>1, SafetyTypes DEF OtherTypes
    <3> QED
      BY <1>11, <3>2, StopsMove, TypesTogether
  <2>3. CASE ~SomethingToStop
    <3>1. UNCHANGED <<clientVars, required, safety>>
      BY <1>11, <2>3 DEF MarkUnavailable
    <3>2. OtherTypes'
      BY <1>0, <2>1, <3>1 DEF OtherTypes
    <3>3. ClientType'
      BY <1>0, <3>1 DEF ClientType, clientVars
    <3> QED
      BY <1>11, <3>2, <3>3, StopsMove, TypesTogether
  <2> QED
    BY <2>2, <2>3
<1>12. ASSUME NEW ok \in BOOLEAN, TeardownEnds(ok)
       PROVE  TypeOK'
  <2>1. ClientType'
    BY <1>12, TornDownIs DEF TeardownEnds
  <2>2. /\ statusReady' \in BOOLEAN
        /\ UNCHANGED <<required, cancel, awaited, loss, unload, faults>>
    BY <1>0, <1>12 DEF TeardownEnds, OtherTypes
  <2>3. /\ safety' \in {"none", "first", "pending", "second", "stopped", "failed"}
        /\ safety' # "none" => safety # "none"
    <3>1. safety' = CASE safety = "first" /\ Passes(ok) -> "pending"
                      [] safety = "second" /\ Passes(ok) -> "stopped"
                      [] safety \in {"first", "second"} /\ ~Passes(ok) -> "failed"
                      [] OTHER -> safety
      BY <1>12 DEF TeardownEnds
    <3> QED
      BY <1>0, <3>1 DEF OtherTypes
  <2> QED
    BY <1>0, <1>12, <2>1, <2>2, <2>3, EndsMove, TypesTogether DEF OtherTypes
<1>13. CASE SecondPass
  <2>1. /\ UNCHANGED <<tree, closeDue, connecting, turn, statusReady, required, cancel, awaited,
                       loss, unload, faults>>
        /\ safety = "pending" /\ safety' \in {"second", "stopped"}
        /\ Disconnect \/ UNCHANGED <<client, teardown>>
    BY <1>13 DEF SecondPass
  <2>2. client' \in Fields /\ teardown' \in {"none", "disconnect", "exit"}
    BY <1>0, <2>1, DisconnectIs DEF ClientType, Fields
  <2>3. OtherTypes' /\ ClientType'
    BY <1>0, <2>1, <2>2, ClientTypes DEF OtherTypes, ClientType
  <2> QED
    BY <1>13, <2>3, StopsMove, TypesTogether
<1>14. CASE SafetyEnds
  <2>1. /\ UNCHANGED <<clientVars, faults>> /\ safety' = "none"
        /\ statusReady' \in BOOLEAN /\ required' \in BOOLEAN
    BY <1>0, <1>14 DEF SafetyEnds, OtherTypes
  <2>2. /\ cancel' \in {"none", "stopping", "settling"} /\ awaited' \subseteq Run \ Status
        /\ loss' \in {"no", "stopping", "done", "failed"}
        /\ unload' \in {"no", "chat", "cancelAll", "maintenance", "cancelAgain",
                        "finish", "last", "check", "clean", "failed"}
    <3>1. CASE cancel = "stopping" /\ safety = "stopped"
      BY <1>0, <1>14, <3>1 DEF SafetyEnds, OtherTypes
    <3>2. CASE cancel = "stopping" /\ safety = "failed"
      <4>1. CancelEnds(FALSE)
        BY <1>14, <3>2 DEF SafetyEnds
      <4> QED
        BY <1>0, <4>1 DEF CancelEnds, OtherTypes
    <3>3. CASE cancel # "stopping"
      BY <1>0, <1>14, <3>3 DEF SafetyEnds, OtherTypes
    <3> QED
      BY <1>14, <3>1, <3>2, <3>3 DEF SafetyEnds
  <2>3. OtherTypes' /\ ClientType'
    BY <1>0, <2>1, <2>2 DEF OtherTypes, ClientType, clientVars
  <2> QED
    BY <1>14, <2>3, EndsMove, TypesTogether
<1>15. CASE RunsSettled
  <2>1. CancelEnds(TRUE) /\ UNCHANGED <<clientVars, run, statusReady, required, safety, faults>>
    BY <1>15 DEF RunsSettled
  <2>2. OtherTypes' /\ ClientType'
    BY <1>0, <2>1 DEF OtherTypes, ClientType, clientVars, CancelEnds
  <2> QED
    BY <2>1, <2>2, SameIs, TypesTogether
<1>16. CASE LoseLease \/ ManagerShutdown \/ RuntimeShutdown
  <2>1. CancelAll /\ UNCHANGED <<statusReady, faults>>
    BY <1>16 DEF LoseLease, ManagerShutdown, RuntimeShutdown
  <2>2. /\ loss' \in {"no", "stopping", "done", "failed"}
        /\ unload' \in {"no", "chat", "cancelAll", "maintenance", "cancelAgain",
                        "finish", "last", "check", "clean", "failed"}
    BY <1>0, <1>16 DEF LoseLease, ManagerShutdown, RuntimeShutdown, OtherTypes
  <2>3. OtherTypes' /\ ClientType'
    BY <1>0, <2>1, <2>2, CancelTypes DEF OtherTypes
  <2> QED
    BY <1>16, <2>3, StopsMove, TypesTogether
<1>17. CASE Unload
  <2>1. /\ UNCHANGED <<clientVars, statusReady, required, safety, cancel, awaited, loss, faults>>
        /\ unload' = "chat"
    BY <1>17 DEF Unload
  <2>2. OtherTypes' /\ ClientType'
    BY <1>0, <2>1 DEF OtherTypes, ClientType, clientVars
  <2> QED
    BY <1>17, <2>2, StopsMove, TypesTogether
<1>18. CASE LastDisconnect
  <2>1. /\ UNCHANGED <<statusReady, cancel, awaited, loss, faults>> /\ unload' \in {"last", "check"}
    BY <1>18 DEF LastDisconnect
  <2>2. CASE SomethingToStop
    <3>1. PICK f \in [Run -> Registration] : AllSteady(run, f) /\ DisconnectForSafety(f)
      BY <1>18, <2>2, StopsBegin
    <3>2. OtherTypes' /\ ClientType'
      BY <1>0, <2>1, <3>1, SafetyTypes DEF OtherTypes
    <3> QED
      BY <1>18, <3>2, StopsMove, TypesTogether
  <2>3. CASE ~SomethingToStop
    <3>1. UNCHANGED <<clientVars, run, required, safety>>
      BY <1>18, <2>3 DEF LastDisconnect
    <3>2. OtherTypes' /\ ClientType'
      BY <1>0, <2>1, <3>1 DEF OtherTypes, ClientType, clientVars
    <3> QED
      BY <3>1, <3>2, SameIs, TypesTogether
  <2> QED
    BY <2>2, <2>3
<1>19. CASE ShutdownEnds
  <2>1. /\ UNCHANGED <<clientVars, run, statusReady, required, safety, cancel, awaited, loss, faults>>
        /\ unload' \in {"failed", "clean"}
    BY <1>19 DEF ShutdownEnds
  <2>2. OtherTypes' /\ ClientType'
    BY <1>0, <2>1 DEF OtherTypes, ClientType, clientVars
  <2> QED
    BY <2>1, <2>2, SameIs, TypesTogether
<1>20. CASE UNCHANGED vars
  BY <1>20 DEF vars, runtimeVars, clientVars, TypeOK, ClientType
<1>21. Outcomes \subseteq BOOLEAN
  BY DEF Outcomes
<1> QED
  BY <1>1, <1>2, <1>3, <1>4, <1>5, <1>6, <1>7, <1>8, <1>9, <1>10, <1>11, <1>12, <1>13, <1>14,
     <1>15, <1>16, <1>17, <1>18, <1>19, <1>20, <1>21 DEF Next

LEMMA InitTypes == Init => TypeOK
<1> SUFFICES ASSUME Init PROVE TypeOK
  OBVIOUS
<1>1. /\ run \in [Run -> Registration]
      /\ \A r \in Status : run[r].phase \notin InTurn \cup {"thread", "admit"}
  BY RunAssumption DEF Init, Registration, InTurn
<1>2. ClientType
  BY DEF Init, ClientInit, ClientType
<1>3. 0 \in 0..MaxFaults
  BY FaultAssumption
<1> QED
  BY <1>1, <1>2, <1>3 DEF Init, TypeOK

(* The fields have their types, whatever fails.                             *)
THEOREM TypeCorrect == Spec => []TypeOK
BY InitTypes, TypeKeeps, PTL DEF Spec

-----------------------------------------------------------------------------
(* What keeps the parts of the invariant.                                   *)

(* With nothing left of the server, or its end under way, no turn is loose.   *)
LEMMA QuietTurns ==
  ASSUME TypeOK, ClientInv, Quiet, NEW r \in Run
  PROVE  ~Loose(r)
BY DEF ClientInv, Quiet, Loose, Busy

(* A client without a path is quiet, unless it is disconnected for a connect  *)
(* or a safety disconnect.                                                *)
LEMMA QuietWhen ==
  ASSUME TypeOK, ClientInv, SafetyInv, ~client.path, connecting = "none",
         safety \notin {"first", "second"}
  PROVE  Quiet
<1>1. CASE tree = "alive"
  BY <1>1 DEF ClientInv, SafetyInv, Quiet, CleaningUp
<1>2. CASE tree # "alive"
  BY <1>2 DEF ClientInv, Quiet, CleaningUp, TypeOK, ClientType
<1> QED
  BY <1>1, <1>2

LEMMA TurnStays ==
  ASSUME TypeOK, TypeOK', NEW r \in Run, RunInv(r), Steady(r, run[r], run'[r]),
         turn[r] = "none" => turn'[r] = "none", Loose(r)' => Loose(r),
         UNCHANGED <<cancel, awaited>>
  PROVE  RunInv(r)'
<1>1. PICK x \in Registration : x = run[r]
  BY DEF TypeOK
<1>2. PICK y \in Registration : y = run'[r]
  BY DEF TypeOK
<1>3. Steady(r, x, y)
  BY <1>1, <1>2
<1>4. y.phase \in {"idle"} \cup Waiting => turn'[r] = "none"
  <2>1. y.phase \in {"idle"} \cup Waiting => x.phase \in {"idle"} \cup Waiting
    BY <1>3 DEF Steady, Waiting
  <2> QED
    BY <1>1, <2>1 DEF RunInv
<1>5. /\ y.acked => y.phase \in {"active", "done"}
      /\ y.acked /\ y.phase = "done" => ~Loose(r)'
  <2>1. x.acked => x.phase \in {"active", "done"}
    BY <1>1 DEF RunInv
  <2>2. x.acked => y.phase = x.phase
    BY <1>3, <2>1 DEF Steady, Waiting
  <2> QED
    BY <1>1, <1>3, <2>1, <2>2 DEF RunInv, Steady
<1>6. r \in awaited => y.phase = "done" \/ (y.aborted /\ y.phase # "idle")
  BY <1>1, <1>3 DEF RunInv, Steady, Waiting
<1>7. r \in awaited' /\ cancel' = "settling" => ~Loose(r)'
  BY DEF RunInv
<1> QED
  BY <1>2, <1>4, <1>5, <1>6, <1>7 DEF RunInv

(* The invariants of all runs, in a step that leaves them steady.            *)
LEMMA RunsStay ==
  ASSUME TypeOK, TypeOK', IInv, AllSteady(run, run'), UNCHANGED <<turn, cancel, awaited>>,
         CleaningUp => CleaningUp'
  PROVE  \A r \in Run : RunInv(r)'
<1> TAKE r \in Run
<1>1. Loose(r)' => Loose(r)
  BY DEF Loose, Busy
<1> QED
  BY <1>1, TurnStays DEF IInv, AllSteady

(* No turn begins in these steps.                                            *)
LEMMA UnloadStays ==
  ASSUME TypeOK, UnloadInv, AllSteady(run, run'), Quiet => Quiet',
         connecting = "none" => connecting' = "none",
         unload' \in {"check", "clean"} => unload' = unload
  PROVE  UnloadInv'
<1>1. unload' \in {"check", "clean"} => Quiet' /\ connecting' = "none"
  BY DEF UnloadInv
<1>2. ASSUME unload' = "clean", NEW r \in Run
      PROVE  ~Inflight(r)'
  <2>1. unload = "clean" /\ ~Inflight(r)
    BY <1>2 DEF UnloadInv
  <2>2. run[r].phase \in {"idle", "done"} /\ Steady(r, run[r], run'[r])
    BY <2>1 DEF Inflight, TypeOK, Registration, AllSteady
  <2>3. run'[r].phase \in {"idle", "done"}
    BY <2>2 DEF Steady, Waiting
  <2> QED
    BY <2>3 DEF Inflight, Waiting, InTurn
<1> QED
  BY <1>1, <1>2 DEF UnloadInv

(* A safety disconnect, whoever asks for it.                                *)
LEMMA SafetyDisconnects ==
  ASSUME TypeOK, TypeOK', IInv, NEW f \in [Run -> Registration], AllSteady(run, f),
         DisconnectForSafety(f)
  PROVE  /\ ClientInv' /\ SafetyInv' /\ AllSteady(run, run')
         /\ UNCHANGED <<tree, turn>> /\ (CleaningUp' <=> CleaningUp) /\ (Quiet => Quiet')
         /\ connecting = "none" => connecting' = "none"
<1>1. /\ AllSteady(run, run') /\ UNCHANGED <<tree, turn, closeDue>>
      /\ \/ safety # "none" /\ UNCHANGED <<client, teardown, connecting, safety>>
         \/ /\ safety = "none" /\ safety' = "stopped" /\ UNCHANGED <<client, teardown, connecting>>
            /\ connecting = "none" /\ ~client.ready /\ ~client.path
         \/ /\ safety = "none" /\ Disconnect /\ connecting' \in {connecting, "none"}
            /\ connecting' = "none" => connecting # "clearing"
            /\ safety' = IF teardown' # "none" THEN "first" ELSE "pending"
  BY DisconnectForSafetyIs
<1>0. ClientInv /\ SafetyInv
  BY DEF IInv
<1>2. CASE safety # "none" /\ UNCHANGED <<client, teardown, connecting, safety>>
  BY <1>0, <1>1, <1>2 DEF ClientInv, SafetyInv, Quiet, CleaningUp
<1>3. CASE /\ safety = "none" /\ safety' = "stopped" /\ UNCHANGED <<client, teardown, connecting>>
           /\ connecting = "none" /\ ~client.ready /\ ~client.path
  <2>1. Quiet
    BY <1>0, <1>3, QuietWhen
  <2>2. ClientInv' /\ (CleaningUp' <=> CleaningUp) /\ Quiet'
    BY <1>0, <1>1, <1>3, <2>1 DEF ClientInv, Quiet, CleaningUp
  <2>3. teardown = "disconnect" => closeDue
    BY <1>0, <1>3 DEF SafetyInv
  <2>4. SafetyInv'
    BY <1>1, <1>3, <2>2, <2>3 DEF SafetyInv
  <2> QED
    BY <1>1, <1>3, <2>2, <2>4
<1>4. CASE /\ safety = "none" /\ Disconnect /\ connecting' \in {connecting, "none"}
           /\ connecting' = "none" => connecting # "clearing"
           /\ safety' = IF teardown' # "none" THEN "first" ELSE "pending"
  <2>1. ClientInv' /\ (CleaningUp' <=> CleaningUp)
    BY <1>0, <1>1, <1>4, DisconnectKeeps
  <2>2. SafetyInv'
    BY <1>4 DEF SafetyInv
  <2>3. (Quiet => Quiet') /\ (connecting = "none" => connecting' = "none")
    BY <1>1, <1>4, <2>1 DEF Quiet
  <2> QED
    BY <1>1, <2>1, <2>2, <2>3
<1> QED
  BY <1>1, <1>2, <1>3, <1>4

(* A global stop: it waits for the runs it aborts, and only waits for them to *)
(* end when none of them has a turn.                                       *)
LEMMA GlobalStop ==
  ASSUME TypeOK, TypeOK', IInv, CancelAll, unload' \notin {"check", "clean"}
  PROVE  IInv'
<1>0. ClientInv /\ SafetyInv /\ \A r \in Run : RunInv(r)
  BY DEF IInv
<1>1. AllSteady(run, run')
  BY CancelAllIs
<1>2. CASE cancel # "none" /\ UNCHANGED <<clientVars, required, safety, cancel, awaited>>
  <2>1. ClientInv' /\ SafetyInv' /\ (CleaningUp => CleaningUp') /\ UNCHANGED turn
    BY <1>0, <1>2 DEF clientVars, ClientInv, SafetyInv, Quiet, CleaningUp
  <2>2. \A r \in Run : RunInv(r)'
    BY <1>1, <1>2, <2>1, RunsStay
  <2> QED
    BY <2>1, <2>2 DEF IInv, UnloadInv
<1>3. ASSUME cancel = "none", cancel' \in {"stopping", "settling"},
             awaited' = {r \in Run \ Status : Inflight(r)},
             \/ \E f \in [Run -> Registration] : /\ cancel' = "stopping" /\ AllSteady(run, f)
                                                 /\ DisconnectForSafety(f)
             \/ ~SomethingToStop /\ UNCHANGED <<clientVars, required, safety>>
      PROVE  IInv'
  <2>1. ClientInv' /\ SafetyInv' /\ (CleaningUp => CleaningUp') /\ UNCHANGED turn
    <3>1. CASE UNCHANGED <<clientVars, required, safety>>
      BY <1>0, <3>1 DEF clientVars, ClientInv, SafetyInv, Quiet, CleaningUp
    <3>2. CASE \E f \in [Run -> Registration] : AllSteady(run, f) /\ DisconnectForSafety(f)
      BY <3>2, SafetyDisconnects
    <3> QED
      BY <1>3, <3>1, <3>2
  <2>2. ASSUME NEW r \in Run
        PROVE  RunInv(r)'
    <3>1. PICK x \in Registration : x = run[r]
      BY DEF TypeOK
    <3>2. PICK y \in Registration : y = run'[r]
      BY DEF TypeOK
    <3>3. Steady(r, x, y) /\ (Loose(r)' => Loose(r))
      BY <1>1, <2>1, <3>1, <3>2 DEF AllSteady, Loose, Busy
    <3>4. y.phase \in {"idle"} \cup Waiting => turn'[r] = "none"
      <4>1. y.phase \in {"idle"} \cup Waiting => x.phase \in {"idle"} \cup Waiting
        BY <3>3 DEF Steady, Waiting
      <4> QED
        BY <1>0, <2>1, <3>1, <4>1 DEF RunInv
    <3>5. /\ y.acked => y.phase \in {"active", "done"}
          /\ y.acked /\ y.phase = "done" => ~Loose(r)'
      <4>1. x.acked => x.phase \in {"active", "done"}
        BY <1>0, <3>1 DEF RunInv
      <4>2. x.acked => y.phase = x.phase
        BY <3>3, <4>1 DEF Steady, Waiting
      <4> QED
        BY <1>0, <3>1, <3>3, <4>1, <4>2 DEF RunInv, Steady
    <3>6. ASSUME r \in awaited'
          PROVE  /\ y.phase = "done" \/ (y.aborted /\ y.phase # "idle")
                 /\ cancel' = "settling" => ~Loose(r)'
      <4>1. r \in Run \ Status /\ Inflight(r) /\ x.phase \in Waiting \cup InTurn
        BY <1>3, <3>1, <3>6 DEF Inflight
      <4>2. y.aborted \/ y.phase = "done"
        BY <3>2, <4>1, CancelAllIs
      <4>3. y.phase # "idle"
        BY <3>3, <4>1 DEF Steady, Waiting, InTurn
      <4>4. ASSUME cancel' = "settling"
            PROVE  ~Loose(r)'
        <5>1. ~SomethingToStop
          BY <1>3, <4>4
        <5>2. x.phase \in Waiting
          BY <3>1, <4>1, <5>1 DEF SomethingToStop, Turns
        <5>3. turn'[r] = "none"
          BY <1>0, <2>1, <3>1, <5>2 DEF RunInv
        <5> QED
          BY <5>3 DEF Loose, Busy
      <4> QED
        BY <4>2, <4>3, <4>4
    <3> QED
      BY <3>2, <3>4, <3>5, <3>6 DEF RunInv
  <2> QED
    BY <2>1, <2>2 DEF IInv, UnloadInv
<1> QED
  BY <1>2, <1>3, CancelAllIs

-----------------------------------------------------------------------------
(* Every step keeps the invariant, when a process group does not outlive     *)
(* SIGKILL: otherwise "close" may be delivered while its processes go on.     *)

LEMMA BeginKeeps ==
  ASSUME TypeOK, TypeOK', IInv, NEW r \in Run, Begin(r)
  PROVE  IInv'
<1>0. ClientInv /\ SafetyInv /\ \A q \in Run : RunInv(q)
  BY DEF IInv
<1>1. safety = "none" /\ UNCHANGED <<safety, cancel, awaited, unload>> /\ unload \in {"no", "chat"}
  BY DEF Begin, ManagerRuns, TypeOK
<1>2. /\ ClientInv' /\ SafetyInv' /\ UNCHANGED turn
      /\ CleaningUp => CleaningUp'
  <2>1. CASE UNCHANGED clientVars
    BY <1>0, <1>1, <2>1 DEF clientVars, ClientInv, SafetyInv, CleaningUp
  <2>2. CASE Connect
    <3>1. UNCHANGED <<turn, closeDue>>
      BY <2>2, ConnectIs
    <3>2. CASE HasProcess /\ Disconnect /\ connecting' = "clearing" /\ UNCHANGED tree
      <4>1. ClientInv' /\ (CleaningUp' <=> CleaningUp)
        BY <1>0, <3>1, <3>2, DisconnectKeeps
      <4> QED
        BY <1>1, <3>1, <3>2, <4>1 DEF SafetyInv
    <3>3. CASE /\ ~HasProcess /\ client' = Spawned /\ tree' = "alive"
               /\ connecting' = "initializing" /\ UNCHANGED teardown
      <4>1. tree = "none" /\ teardown = "none" /\ ~closeDue
        BY <1>0, <3>3 DEF ClientInv, HasProcess, TypeOK, ClientType
      <4>2. ClientInv'
        BY <1>0, <3>1, <3>3, <4>1, SpawnedIs DEF ClientInv
      <4> QED
        BY <1>1, <3>1, <3>3, <4>1, <4>2 DEF SafetyInv, CleaningUp
    <3> QED
      BY <2>2, <3>2, <3>3, ConnectIs
  <2> QED
    BY <2>1, <2>2 DEF Begin
<1>3. ASSUME NEW q \in Run
      PROVE  RunInv(q)'
  <2>1. Loose(q)' => Loose(q)
    BY <1>2 DEF Loose, Busy
  <2>2. CASE q # r
    BY <1>0, <1>1, <1>2, <2>1, <2>2, BeginMoves, TurnStays
  <2>3. CASE q = r
    <3>1. run[r].phase = "idle" /\ ~run[r].acked /\ r \notin awaited /\ turn[r] = "none"
      BY <1>0, BeginMoves DEF RunInv
    <3>2. ~run'[r].acked /\ turn'[r] = "none"
      BY <1>2, <3>1, BeginMoves
    <3> QED
      BY <1>1, <2>3, <3>1, <3>2 DEF RunInv
  <2> QED
    BY <2>2, <2>3
<1> QED
  BY <1>1, <1>2, <1>3 DEF IInv, UnloadInv

(* A turn is sent by a run that is not aborted, and acknowledged once.        *)
LEMMA TurnsKeep ==
  ASSUME TypeOK, TypeOK', IInv, NEW r \in Run, TurnStarts(r) \/ TurnAcknowledged(r)
  PROVE  IInv'
<1>0. ClientInv /\ SafetyInv /\ UnloadInv /\ \A q \in Run : RunInv(q)
  BY DEF IInv
<1>1. /\ UNCHANGED <<tree, client, teardown, closeDue, connecting>>
      /\ UNCHANGED <<statusReady, required, safety, cancel, awaited, loss, unload, faults>>
      /\ run[r].phase \in Waiting \cup InTurn
      /\ \A q \in Run \ {r} : turn'[q] = turn[q]
      /\ turn'[r] \in {turn[r], "sent"}
      /\ turn'[r] = "sent" => turn[r] = "sent" \/ client.child
  BY DEF TurnStarts, TurnAcknowledged, RunStep, clientVars, Waiting, InTurn, TypeOK, ClientType
<1>2. ClientInv'
  BY <1>0, <1>1 DEF ClientInv
<1>3. SafetyInv' /\ (Quiet <=> Quiet')
  BY <1>0, <1>1 DEF SafetyInv, Quiet, CleaningUp
<1>4. UnloadInv'
  <2>1. unload # "clean"
    BY <1>0, <1>1 DEF UnloadInv, Inflight
  <2> QED
    BY <1>0, <1>1, <1>3, <2>1 DEF UnloadInv
<1>5. ASSUME NEW q \in Run \ {r}
      PROVE  RunInv(q)'
  <2>1. run'[q] = run[q] /\ (Loose(q)' <=> Loose(q)) /\ turn'[q] = turn[q]
    BY <1>1, <1>5, TurnBegins DEF Loose, Busy, CleaningUp
  <2> QED
    BY <1>0, <1>1, <2>1 DEF RunInv
<1>6. RunInv(r)'
  <2>1. CASE TurnStarts(r)
    <3>1. run[r].phase \in {"admit", "thread"} /\ ~run[r].aborted
      BY <2>1 DEF TurnStarts
    <3>2. ~run[r].acked /\ r \notin awaited
      BY <1>0, <3>1 DEF RunInv
    <3>3. ~run'[r].acked /\ run'[r].phase \in {"starting", "done"}
      BY <2>1, <3>2, TurnBegins
    <3> QED
      BY <1>1, <3>2, <3>3 DEF RunInv, Waiting
  <2>2. CASE TurnAcknowledged(r)
    <3>1. run[r].phase = "starting" /\ UNCHANGED turn
      BY <2>2 DEF TurnAcknowledged, RunStep, clientVars
    <3>2. run'[r].phase = "active" /\ run'[r].aborted = run[r].aborted
      BY <2>2, TurnBegins
    <3>3. Loose(r)' <=> Loose(r)
      BY <1>1, <3>1 DEF Loose, Busy, CleaningUp
    <3> QED
      BY <1>0, <1>1, <3>1, <3>2, <3>3 DEF RunInv, Waiting
  <2> QED
    BY <2>1, <2>2
<1> QED
  BY <1>2, <1>3, <1>4, <1>5, <1>6 DEF IInv

(* A run that ends: nothing works for it, or it was not acknowledged.         *)
LEMMA EndsKeep ==
  ASSUME TypeOK, TypeOK', IInv, MayEnd(run, run'), NEW r \in Run,
         turn[r] = "none" => turn'[r] = "none",
         Loose(r)' => Loose(r) /\ run'[r] = run[r],
         awaited' \in {awaited, {}},
         r \in awaited' /\ cancel' = "settling" => cancel = "settling" \/ ~Loose(r)'
  PROVE  RunInv(r)'
<1>1. PICK x \in Registration : x = run[r]
  BY DEF TypeOK
<1>2. run'[r] \in {x, Ended(x)} /\ RunInv(r)
  BY <1>1 DEF MayEnd, IInv
<1>3. CASE run'[r] = x
  BY <1>1, <1>2, <1>3 DEF RunInv
<1>4. CASE run'[r] = Ended(x) /\ run'[r] # x
  <2>1. run'[r].phase = "done" /\ ~Loose(r)'
    BY <1>1, <1>4, EndedIs
  <2> QED
    BY <1>1, <2>1 DEF RunInv, Waiting
<1> QED
  BY <1>2, <1>3, <1>4

LEMMA TeardownKeeps ==
  ASSUME TypeOK, TypeOK', IInv, TeardownEnds(TRUE)
  PROVE  IInv'
<1>0. ClientInv /\ SafetyInv /\ UnloadInv
  BY DEF IInv
<1>1. /\ teardown' = "none" /\ closeDue' = FALSE
      /\ Respawns(TRUE) => client' = Spawned /\ tree' = "alive" /\ connecting' = "initializing"
      /\ ~Respawns(TRUE) => /\ ~client'.child /\ ~client'.group /\ tree' = "none"
                            /\ connecting' = connecting
      /\ \A r \in Run : turn[r] # "stray" => turn'[r] = "none"
      /\ UNCHANGED <<required, cancel, awaited, loss, unload, faults>>
      /\ Respawns(TRUE) <=> connecting = "clearing"
  BY TornDownIs DEF TeardownEnds, Respawns, Passes
<1>2. \A r \in Run : turn'[r] = "none"
  BY <1>0, <1>1 DEF ClientInv
<1>3. ClientInv'
  BY <1>1, <1>2, SpawnedIs DEF ClientInv
<1>4. SafetyInv'
  <2>1. safety' = CASE safety = "first" -> "pending"
                    [] safety = "second" -> "stopped"
                    [] OTHER -> safety
    <3>1. Passes(TRUE)
      BY DEF Passes
    <3>2. safety' = CASE safety = "first" /\ Passes(TRUE) -> "pending"
                      [] safety = "second" /\ Passes(TRUE) -> "stopped"
                      [] safety \in {"first", "second"} /\ ~Passes(TRUE) -> "failed"
                      [] OTHER -> safety
      BY DEF TeardownEnds
    <3> QED
      BY <3>1, <3>2
  <2>2. safety' = "stopped" => safety \in {"second", "stopped"} /\ connecting = "none"
    BY <1>0, <2>1 DEF SafetyInv
  <2>3. safety' \notin {"second", "failed"}
    BY <1>0, <2>1 DEF SafetyInv
  <2>4. connecting = "none" => connecting' = "none" /\ tree' = "none"
    BY <1>1
  <2> QED
    BY <1>1, <2>2, <2>3, <2>4 DEF SafetyInv, Quiet
<1>5. ASSUME NEW r \in Run
      PROVE  RunInv(r)'
  <2>1. ~Loose(r)' /\ turn'[r] = "none"
    BY <1>2 DEF Loose, Busy
  <2> QED
    BY <1>1, <2>1, EndsMove, EndsKeep
<1>6. UnloadInv'
  <2>1. unload \in {"check", "clean"} => tree' = "none" /\ connecting' = "none"
    BY <1>0, <1>1 DEF UnloadInv
  <2>2. ASSUME unload = "clean", NEW r \in Run
        PROVE  ~Inflight(r)'
    <3>1. PICK x \in Registration : x = run[r]
      BY DEF TypeOK
    <3>2. run'[r] \in {x, Ended(x)} /\ x.phase \notin Waiting \cup InTurn
      BY <1>0, <2>2, <3>1, EndsMove DEF UnloadInv, Inflight, MayEnd
    <3>3. Ended(x).phase = "done"
      BY EndedIs
    <3> QED
      BY <3>2, <3>3 DEF Inflight, Waiting, InTurn
  <2> QED
    BY <1>1, <2>1, <2>2 DEF UnloadInv, Quiet
<1> QED
  BY <1>3, <1>4, <1>5, <1>6 DEF IInv

(* The end of a safety disconnect, which never fails here.                   *)
LEMMA SafetyEndKeeps ==
  ASSUME TypeOK, TypeOK', IInv, SafetyEnds
  PROVE  IInv'
<1>0. ClientInv /\ SafetyInv /\ UnloadInv
  BY DEF IInv
<1>1. safety = "stopped" /\ safety' = "none" /\ UNCHANGED <<clientVars, faults>>
  BY <1>0 DEF SafetyEnds, SafetyInv
<1>2. Quiet /\ connecting = "none" /\ \A r \in Run : ~Loose(r)
  BY <1>0, <1>1, QuietTurns DEF SafetyInv
<1>3. /\ UNCHANGED <<tree, client, teardown, closeDue, connecting, turn>>
      /\ Quiet' /\ \A r \in Run : ~Loose(r)'
  BY <1>1, <1>2 DEF clientVars, Quiet, CleaningUp, Loose, Busy
<1>4. /\ UNCHANGED awaited
      /\ unload' = unload \/ (unload = "last" /\ unload' = "check")
  BY <1>1 DEF SafetyEnds
<1>5. ClientInv' /\ SafetyInv'
  BY <1>0, <1>1, <1>3 DEF ClientInv, SafetyInv
<1>6. \A r \in Run : RunInv(r)'
  BY <1>3, <1>4, EndsMove, EndsKeep
<1>7. UnloadInv'
  <2>1. ASSUME unload' = "clean", NEW r \in Run
        PROVE  ~Inflight(r)'
    <3>1. PICK x \in Registration : x = run[r]
      BY DEF TypeOK
    <3>2. run'[r] \in {x, Ended(x)} /\ x.phase \notin Waiting \cup InTurn
      BY <1>0, <1>4, <2>1, <3>1, EndsMove DEF UnloadInv, Inflight, MayEnd
    <3>3. Ended(x).phase = "done"
      BY EndedIs
    <3> QED
      BY <3>2, <3>3 DEF Inflight, Waiting, InTurn
  <2> QED
    BY <1>2, <1>3, <2>1 DEF UnloadInv
<1> QED
  BY <1>5, <1>6, <1>7 DEF IInv

LEMMA SecondPassKeeps ==
  ASSUME TypeOK, TypeOK', IInv, SecondPass
  PROVE  IInv'
<1>0. ClientInv /\ SafetyInv /\ UnloadInv
  BY DEF IInv
<1>1. /\ UNCHANGED <<tree, closeDue, connecting, turn, cancel, awaited, unload>>
      /\ safety = "pending" /\ connecting = "none"
      /\ \/ Disconnect /\ safety' = IF teardown' # "none" THEN "second" ELSE "stopped"
         \/ ~client.path /\ safety' = "stopped" /\ UNCHANGED <<client, teardown>>
  BY DEF SecondPass
<1>2. ClientInv' /\ SafetyInv' /\ (CleaningUp' <=> CleaningUp)
  <2>1. CASE ~client.path /\ safety' = "stopped" /\ UNCHANGED <<client, teardown>>
    <3>1. Quiet
      BY <1>0, <1>1, <2>1, QuietWhen
    <3>2. teardown = "disconnect" => closeDue
      BY <1>0, <1>1 DEF SafetyInv
    <3> QED
      BY <1>0, <1>1, <2>1, <3>1, <3>2 DEF ClientInv, SafetyInv, Quiet, CleaningUp
  <2>2. CASE Disconnect /\ safety' = IF teardown' # "none" THEN "second" ELSE "stopped"
    <3>1. ClientInv' /\ (CleaningUp' <=> CleaningUp)
      BY <1>0, <1>1, <2>2, DisconnectKeeps
    <3>2. safety' = "stopped" => tree' = "none"
      <4>1. SUFFICES ASSUME safety' = "stopped" PROVE tree = "none"
        BY <1>1
      <4>2. teardown' = "none"
        BY <2>2, <4>1
      <4>3. teardown = "none" /\ ~HasProcess
        BY <2>2, <4>2 DEF Disconnect
      <4> QED
        BY <1>0, <4>3 DEF HasProcess, ClientInv
    <3>3. SafetyInv'
      BY <1>1, <2>2, <3>2 DEF SafetyInv, Quiet
    <3> QED
      BY <3>1, <3>3
  <2> QED
    BY <1>1, <2>1, <2>2
<1>3. AllSteady(run, run')
  BY StopsMove
<1>4. Quiet => Quiet'
  BY <1>1, <1>2 DEF Quiet
<1>5. UnloadInv'
  BY <1>0, <1>1, <1>3, <1>4, UnloadStays
<1>6. \A r \in Run : RunInv(r)'
  BY <1>1, <1>2, <1>3, RunsStay
<1> QED
  BY <1>2, <1>5, <1>6 DEF IInv

(* The server, or a fault of it, and what the client does at once.            *)
LEMMA ServerKeeps ==
  ASSUME TypeOK, TypeOK', IInv,
         \/ ServerExits \/ ServerFails \/ Initialized \/ InitializeFails
         \/ \E r \in Run : Client(r) \/ TurnCompleted(r)
  PROVE  IInv'
<1>0. ClientInv /\ SafetyInv /\ UnloadInv /\ \A q \in Run : RunInv(q)
  BY DEF IInv
<1>1. CASE ServerExits
  <2>1. /\ tree = "alive" /\ ~client.disconnecting /\ tree' = "orphans" /\ teardown' = "exit"
        /\ connecting' \in {connecting, "none"}
        /\ turn' = [r \in Run |-> IF turn[r] = "sent" THEN "none" ELSE turn[r]]
        /\ UNCHANGED <<closeDue, safety, cancel, awaited, unload>>
    BY <1>1 DEF ServerExits, ExitSeen, ConnectingRejected
  <2>2. ~client'.child /\ client'.group = client.group
    <3>1. PICK k \in Fields : k = client
      BY DEF TypeOK, ClientType, Fields
    <3>2. client' = [k EXCEPT !.child = FALSE, !.ready = FALSE]
      BY <1>1, <3>1 DEF ServerExits, ExitSeen
    <3> QED
      BY <3>1, <3>2 DEF Fields
  <2>3. ClientInv' /\ CleaningUp'
    BY <1>0, <2>1, <2>2 DEF ClientInv, CleaningUp
  <2>4. SafetyInv' /\ Quiet'
    BY <1>0, <2>1, <2>3 DEF SafetyInv, Quiet
  <2>5. AllSteady(run, run')
    BY <1>1, StopsMove
  <2>6. \A r \in Run : RunInv(r)'
    <3> TAKE r \in Run
    <3>1. turn[r] = "none" => turn'[r] = "none"
      BY <2>1
    <3>2. ~Loose(r)'
      BY <2>3 DEF Loose
    <3> QED
      BY <1>0, <2>1, <2>5, <3>1, <3>2, TurnStays DEF AllSteady
  <2>7. UnloadInv'
    BY <1>0, <2>1, <2>4, <2>5, UnloadStays
  <2> QED
    BY <2>3, <2>4, <2>6, <2>7 DEF IInv
<1>2. CASE ServerFails
  <2>1. /\ tree = "alive" /\ ~client.disconnecting /\ Disconnect /\ closeDue' = TRUE
        /\ connecting' \in {connecting, "none"}
        /\ UNCHANGED <<tree, turn, safety, cancel, awaited, unload>>
    BY <1>2 DEF ServerFails, FatalSeen, ConnectingRejected
  <2>2. teardown = "none" /\ HasProcess
    BY <1>0, <2>1 DEF ClientInv, HasProcess, TypeOK, ClientType
  <2>3. /\ client'.child = client.child /\ client'.group = client.group
        /\ client'.disconnecting /\ teardown' = "disconnect"
    BY <2>1, <2>2, DisconnectIs
  <2>4. ClientInv' /\ CleaningUp'
    BY <1>0, <2>1, <2>3 DEF ClientInv, CleaningUp
  <2>5. SafetyInv' /\ Quiet'
    BY <1>0, <2>1, <2>4 DEF SafetyInv, Quiet
  <2>6. AllSteady(run, run')
    BY <1>2, StopsMove
  <2>7. \A r \in Run : RunInv(r)'
    BY <2>1, <2>4, <2>6, RunsStay
  <2>8. UnloadInv'
    BY <1>0, <2>1, <2>5, <2>6, UnloadStays
  <2> QED
    BY <2>4, <2>5, <2>7, <2>8 DEF IInv
<1>3. CASE Initialized \/ InitializeFails
  <2>1. /\ connecting = "initializing" /\ connecting' = "none"
        /\ UNCHANGED <<tree, teardown, closeDue, turn, safety, cancel, awaited, unload>>
    BY <1>3 DEF Initialized, InitializeFails
  <2>2. /\ client'.child = client.child /\ client'.group = client.group
        /\ client'.disconnecting = client.disconnecting /\ client'.path = client.path
    <3>1. PICK k \in Fields : k = client
      BY DEF TypeOK, ClientType, Fields
    <3>2. client' = [k EXCEPT !.ready = TRUE] \/ client' = k
      BY <1>3, <3>1 DEF Initialized, InitializeFails
    <3> QED
      BY <3>1, <3>2 DEF Fields
  <2>3. ClientInv' /\ SafetyInv' /\ (CleaningUp => CleaningUp') /\ (Quiet => Quiet')
    BY <1>0, <2>1, <2>2 DEF ClientInv, SafetyInv, CleaningUp, Quiet
  <2>4. AllSteady(run, run')
    BY <1>3, StopsMove
  <2>5. \A r \in Run : RunInv(r)'
    BY <2>1, <2>3, <2>4, RunsStay
  <2>6. UnloadInv'
    BY <1>0, <2>1, <2>3, <2>4, UnloadStays
  <2> QED
    BY <2>3, <2>5, <2>6 DEF IInv
<1>4. ASSUME NEW r \in Run, Client(r)
      PROVE  IInv'
  <2>1. /\ tree = "alive" /\ turn[r] \in {"sent", "working"}
        /\ turn' \in [Run -> {"none", "sent", "working", "ended", "stray"}]
        /\ \A q \in Run \ {r} : turn'[q] = turn[q]
        /\ turn'[r] \in {"working", "ended"}
        /\ UNCHANGED <<tree, client, teardown, closeDue, connecting, runtimeVars>>
    BY <1>4 DEF Client, ServerStarts, ServerFinishes, TypeOK, ClientType
  <2>2. UNCHANGED <<run, safety, cancel, awaited, unload>>
    BY <2>1 DEF runtimeVars
  <2>3. ClientInv' /\ SafetyInv' /\ (Quiet => Quiet')
    BY <1>0, <2>1, <2>2 DEF ClientInv, SafetyInv, CleaningUp, Quiet
  <2>4. \A q \in Run : RunInv(q)'
    <3> TAKE q \in Run
    <3>1. turn[q] = "none" => turn'[q] = "none"
      BY <2>1
    <3>2. Loose(q)' => Loose(q)
      BY <2>1 DEF Loose, Busy, CleaningUp
    <3> QED
      BY <1>0, <2>2, <3>1, <3>2 DEF RunInv
  <2>5. UnloadInv'
    BY <1>0, <2>1, <2>2, <2>3 DEF UnloadInv, Inflight
  <2> QED
    BY <2>3, <2>4, <2>5 DEF IInv
<1>5. ASSUME NEW r \in Run, TurnCompleted(r)
      PROVE  IInv'
  <2>1. /\ turn[r] = "ended" /\ turn' = [turn EXCEPT ![r] = "none"]
        /\ \A q \in Run \ {r} : run'[q] = run[q]
        /\ UNCHANGED <<tree, client, teardown, closeDue, connecting, safety, cancel, awaited, unload>>
    BY <1>5 DEF TurnCompleted, TypeOK
  <2>2. ClientInv' /\ SafetyInv' /\ (Quiet => Quiet')
    BY <1>0, <2>1 DEF ClientInv, SafetyInv, CleaningUp, Quiet, TypeOK, ClientType
  <2>3. \A q \in Run : RunInv(q)'
    <3> TAKE q \in Run
    <3>1. turn[q] = "none" => turn'[q] = "none"
      BY <2>1 DEF TypeOK, ClientType
    <3>2. Loose(q)' => Loose(q) /\ q # r
      BY <2>1 DEF Loose, Busy, CleaningUp, TypeOK, ClientType
    <3>3. Loose(q)' => run'[q] = run[q]
      BY <2>1, <3>2
    <3> QED
      BY <1>5, <2>1, <3>1, <3>2, <3>3, EndsMove, EndsKeep
  <2>4. UnloadInv'
    <3>1. ASSUME unload = "clean", NEW q \in Run
          PROVE  ~Inflight(q)'
      <4>1. PICK x \in Registration : x = run[q]
        BY DEF TypeOK
      <4>2. run'[q] \in {x, Ended(x)} /\ x.phase \notin Waiting \cup InTurn
        BY <1>0, <1>5, <3>1, <4>1, EndsMove DEF UnloadInv, Inflight, MayEnd
      <4>3. Ended(x).phase = "done"
        BY EndedIs
      <4> QED
        BY <4>2, <4>3 DEF Inflight, Waiting, InTurn
    <3> QED
      BY <1>0, <2>1, <2>2, <3>1 DEF UnloadInv
  <2> QED
    BY <2>2, <2>3, <2>4 DEF IInv
<1> QED
  BY <1>1, <1>2, <1>3, <1>4, <1>5

LEMMA InvariantKeeps == KillFails = FALSE /\ TypeOK /\ TypeOK' /\ IInv /\ [Next]_vars => IInv'
<1> SUFFICES ASSUME KillFails = FALSE, TypeOK, TypeOK', IInv, [Next]_vars
             PROVE  IInv'
  OBVIOUS
<1>0. ClientInv /\ SafetyInv /\ UnloadInv /\ \A q \in Run : RunInv(q)
  BY DEF IInv
<1>1. ASSUME NEW r \in Run, Begin(r)
      PROVE  IInv'
  BY <1>1, BeginKeeps
<1>2. ASSUME NEW r \in Run,
             \/ StatusRead(r) \/ EarlyEnd(r) \/ ThreadKnown(r)
             \/ TurnNotStarted(r) \/ Abort(r) \/ InterruptAnswered(r)
      PROVE  IInv'
  <2>1. AllSteady(run, run')
    BY <1>2, RunMoves
  <2>2. UNCHANGED <<tree, client, teardown, closeDue, connecting, turn, safety, cancel, awaited, unload>>
    BY <1>2 DEF StatusRead, EarlyEnd, ThreadKnown, TurnNotStarted, Abort,
                InterruptAnswered, RunStep, clientVars
  <2>3. ClientInv' /\ SafetyInv' /\ (CleaningUp => CleaningUp') /\ (Quiet => Quiet')
    BY <1>0, <2>2 DEF ClientInv, SafetyInv, CleaningUp, Quiet
  <2>4. \A q \in Run : RunInv(q)'
    BY <2>1, <2>2, <2>3, RunsStay
  <2>5. UnloadInv'
    BY <1>0, <2>1, <2>2, <2>3, UnloadStays
  <2> QED
    BY <2>3, <2>4, <2>5 DEF IInv
<1>3. ASSUME NEW r \in Run, TurnStarts(r) \/ TurnAcknowledged(r)
      PROVE  IInv'
  BY <1>3, TurnsKeep
<1>4. CASE \/ \E r \in Run : InterruptUnconfirmed(r) \/ TurnFloods(r)
           \/ MarkUnavailable /\ SomethingToStop
           \/ LastDisconnect /\ SomethingToStop
  <2>1. PICK f \in [Run -> Registration] : AllSteady(run, f) /\ DisconnectForSafety(f)
    BY <1>4, StopsBegin
  <2>2. UNCHANGED <<cancel, awaited>> /\ unload' \in {unload, "last"}
    BY <1>4 DEF InterruptUnconfirmed, TurnFloods, MarkUnavailable, LastDisconnect
  <2>3. /\ ClientInv' /\ SafetyInv' /\ AllSteady(run, run')
        /\ UNCHANGED <<tree, turn>> /\ (CleaningUp' <=> CleaningUp) /\ (Quiet => Quiet')
        /\ connecting = "none" => connecting' = "none"
    BY <2>1, SafetyDisconnects
  <2>4. \A q \in Run : RunInv(q)'
    BY <2>2, <2>3, RunsStay
  <2>5. UnloadInv'
    BY <1>0, <2>2, <2>3, UnloadStays
  <2> QED
    BY <2>3, <2>4, <2>5 DEF IInv
<1>5. CASE MarkUnavailable /\ ~SomethingToStop
  <2>1. UNCHANGED <<tree, client, teardown, closeDue, connecting, turn, safety, cancel, awaited, unload>>
    BY <1>5 DEF MarkUnavailable, clientVars
  <2>2. ClientInv' /\ SafetyInv' /\ (CleaningUp => CleaningUp') /\ (Quiet => Quiet')
    BY <1>0, <2>1 DEF ClientInv, SafetyInv, CleaningUp, Quiet
  <2>3. AllSteady(run, run')
    BY <1>5, StopsMove
  <2>4. \A q \in Run : RunInv(q)'
    BY <2>1, <2>2, <2>3, RunsStay
  <2>5. UnloadInv'
    BY <1>0, <2>1, <2>2, <2>3, UnloadStays
  <2> QED
    BY <2>2, <2>4, <2>5 DEF IInv
<1>6. CASE LastDisconnect /\ ~SomethingToStop
  <2>1. /\ UNCHANGED <<tree, client, teardown, closeDue, connecting, turn, run, safety, cancel, awaited>>
        /\ unload' = "check"
    BY <1>6 DEF LastDisconnect, clientVars
  <2>2. ClientInv' /\ SafetyInv' /\ (CleaningUp => CleaningUp') /\ (Quiet => Quiet')
    BY <1>0, <2>1 DEF ClientInv, SafetyInv, CleaningUp, Quiet
  <2>3. \A q \in Run : RunInv(q)'
    BY <2>1, <2>2, SameIs, RunsStay
  <2>4. ~client.path /\ connecting = "none" /\ safety = "none"
    BY <1>6 DEF SomethingToStop, TypeOK
  <2>5. Quiet
    BY <1>0, <2>4, QuietWhen
  <2>6. UnloadInv'
    BY <2>1, <2>2, <2>4, <2>5 DEF UnloadInv
  <2> QED
    BY <2>2, <2>3, <2>6 DEF IInv
<1>7. CASE \/ ServerExits \/ ServerFails \/ Initialized \/ InitializeFails
           \/ \E r \in Run : Client(r) \/ TurnCompleted(r)
  BY <1>7, ServerKeeps
<1>8. CASE TeardownEnds(TRUE)
  BY <1>8, TeardownKeeps
<1>9. CASE SecondPass
  BY <1>9, SecondPassKeeps
<1>10. CASE SafetyEnds
  BY <1>10, SafetyEndKeeps
<1>11. CASE RunsSettled
  <2>1. /\ UNCHANGED <<tree, client, teardown, closeDue, connecting, turn, run, safety>>
        /\ cancel' = "none" /\ awaited' = {}
        /\ unload' = unload \/ unload' \notin {"check", "clean"}
    BY <1>11 DEF RunsSettled, CancelEnds, clientVars
  <2>2. ClientInv' /\ SafetyInv' /\ (CleaningUp => CleaningUp') /\ (Quiet => Quiet')
    BY <1>0, <2>1 DEF ClientInv, SafetyInv, CleaningUp, Quiet
  <2>3. ASSUME NEW q \in Run
        PROVE  RunInv(q)'
    <3>1. Loose(q)' <=> Loose(q)
      BY <2>1 DEF Loose, Busy, CleaningUp
    <3> QED
      BY <1>0, <2>1, <3>1 DEF RunInv
  <2>4. UnloadInv'
    BY <1>0, <2>1, <2>2, SameIs, UnloadStays
  <2> QED
    BY <2>2, <2>3, <2>4 DEF IInv
<1>12. CASE LoseLease \/ ManagerShutdown \/ RuntimeShutdown
  <2>1. CancelAll /\ unload' \notin {"check", "clean"}
    BY <1>12 DEF LoseLease, ManagerShutdown, RuntimeShutdown
  <2> QED
    BY <2>1, GlobalStop
<1>13. CASE Unload
  <2>1. /\ UNCHANGED <<tree, client, teardown, closeDue, connecting, turn, safety, cancel, awaited>>
        /\ unload' = "chat"
    BY <1>13 DEF Unload, clientVars
  <2>2. ClientInv' /\ SafetyInv' /\ (CleaningUp => CleaningUp')
    BY <1>0, <2>1 DEF ClientInv, SafetyInv, CleaningUp, Quiet
  <2>3. \A q \in Run : RunInv(q)'
    BY <1>13, <2>1, <2>2, StopsMove, RunsStay
  <2> QED
    BY <2>1, <2>2, <2>3 DEF IInv, UnloadInv
<1>14. CASE ShutdownEnds
  <2>1. /\ UNCHANGED <<tree, client, teardown, closeDue, connecting, turn, run, safety, cancel, awaited>>
        /\ unload = "check"
        /\ unload' = "clean" => \A q \in Run : ~Inflight(q)
    BY <1>14 DEF ShutdownEnds, clientVars
  <2>2. ClientInv' /\ SafetyInv' /\ (CleaningUp => CleaningUp') /\ (Quiet => Quiet')
    BY <1>0, <2>1 DEF ClientInv, SafetyInv, CleaningUp, Quiet
  <2>3. \A q \in Run : RunInv(q)'
    BY <2>1, <2>2, SameIs, RunsStay
  <2>4. UnloadInv'
    BY <1>0, <2>1, <2>2 DEF UnloadInv, Inflight
  <2> QED
    BY <2>2, <2>3, <2>4 DEF IInv
<1>15. CASE UNCHANGED vars
  <2>1. UNCHANGED <<tree, client, teardown, closeDue, connecting, turn, run, safety, cancel, awaited, unload>>
    BY <1>15 DEF vars, runtimeVars, clientVars
  <2>2. ClientInv' /\ SafetyInv' /\ (CleaningUp => CleaningUp') /\ (Quiet => Quiet')
    BY <1>0, <2>1 DEF ClientInv, SafetyInv, CleaningUp, Quiet
  <2>3. \A q \in Run : RunInv(q)'
    BY <2>1, <2>2, SameIs, RunsStay
  <2>4. UnloadInv'
    BY <1>0, <2>1, <2>2, SameIs, UnloadStays
  <2> QED
    BY <2>2, <2>3, <2>4 DEF IInv
<1>16. Outcomes = {TRUE}
  BY DEF Outcomes
<1> QED
  BY <1>1, <1>2, <1>3, <1>4, <1>5, <1>6, <1>7, <1>8, <1>9, <1>10, <1>11, <1>12, <1>13, <1>14,
     <1>15, <1>16 DEF Next

-----------------------------------------------------------------------------
(* The theorems.                                                            *)

(* The client's fields are true of the processes, and a run that is done, or   *)
(* whose end a global stop only has to report, has nothing at work.           *)
THEOREM RuntimeInvariant == ASSUME KillFails = FALSE PROVE Spec => []IInv
<1>1. Init => TypeOK
  BY InitTypes
<1>2. Init => IInv
  <2> SUFFICES ASSUME Init PROVE IInv
    OBVIOUS
  <2>1. ClientInv /\ SafetyInv
    BY DEF Init, ClientInit, ClientInv, SafetyInv
  <2>2. UnloadInv
    BY DEF Init, UnloadInv
  <2>3. ASSUME NEW r \in Run
        PROVE  RunInv(r)
    <3>1. run[r].phase = "idle" /\ ~run[r].acked /\ awaited = {} /\ turn[r] = "none"
      BY DEF Init, ClientInit
    <3> QED
      BY <3>1 DEF RunInv
  <2> QED
    BY <2>1, <2>2, <2>3 DEF IInv
<1>3. TypeOK /\ [Next]_vars => TypeOK'
  BY TypeKeeps
<1>4. TypeOK /\ TypeOK' /\ IInv /\ [Next]_vars => IInv'
  BY InvariantKeeps
<1> QED
  BY <1>1, <1>2, <1>3, <1>4, PTL DEF Spec

(* A turn the server acknowledged is done only when nothing works on it.       *)
THEOREM DoneTurnsStopped == ASSUME KillFails = FALSE PROVE Spec => []DoneMeansStopped
<1>1. IInv => DoneMeansStopped
  BY DEF IInv, RunInv, DoneMeansStopped
<1> QED
  BY <1>1, RuntimeInvariant, PTL

(* The writer's lease is handed on only when no run is on its way and what is   *)
(* left of the server is being ended.                                       *)
THEOREM CleanIsQuiet == ASSUME KillFails = FALSE PROVE Spec => []CleanMeansQuiet
<1>1. TypeOK /\ IInv => CleanMeansQuiet
  BY QuietTurns DEF IInv, UnloadInv, Quiet, CleanMeansQuiet
<1> QED
  BY <1>1, RuntimeInvariant, TypeCorrect, PTL

(* A global stop returns when no turn that it found can go on.                *)
THEOREM StopLeavesNothing == ASSUME KillFails = FALSE PROVE Spec => StopIsComplete
<1>1. ASSUME TypeOK, IInv, [Next]_vars, cancel = "settling", cancel' = "none"
      PROVE  \A r \in awaited : ~Loose(r)'
  <2>1. CASE RunsSettled
    <3>1. UNCHANGED <<turn, teardown, closeDue>>
      BY <2>1 DEF RunsSettled, clientVars
    <3>2. ASSUME NEW r \in awaited
          PROVE  ~Loose(r)
      <4>1. r \in Run
        BY <1>1 DEF TypeOK
      <4> QED
        BY <1>1, <4>1 DEF IInv, RunInv
    <3> QED
      BY <3>1, <3>2 DEF Loose, Busy, CleaningUp
  <2>2. CASE SafetyEnds
    BY <1>1, <2>2 DEF SafetyEnds
  <2>3. CASE LoseLease \/ ManagerShutdown \/ RuntimeShutdown
    <3>1. CancelAll
      BY <2>3 DEF LoseLease, ManagerShutdown, RuntimeShutdown
    <3> QED
      BY <1>1, <3>1 DEF CancelAll
  <2>4. ASSUME NEW r \in Run,
               \/ Begin(r) \/ StatusRead(r) \/ EarlyEnd(r) \/ ThreadKnown(r)
               \/ TurnStarts(r) \/ TurnAcknowledged(r) \/ TurnNotStarted(r)
               \/ TurnCompleted(r) \/ Abort(r) \/ InterruptAnswered(r)
               \/ InterruptUnconfirmed(r) \/ TurnFloods(r) \/ Client(r)
        PROVE  cancel' = cancel
    BY <2>4 DEF Begin, StatusRead, EarlyEnd, ThreadKnown, TurnStarts, TurnAcknowledged,
                TurnNotStarted, TurnCompleted, Abort, InterruptAnswered, RunStep,
                InterruptUnconfirmed, TurnFloods, Client, runtimeVars
  <2>5. CASE \/ Initialized \/ InitializeFails \/ ServerExits \/ ServerFails \/ MarkUnavailable
             \/ \E ok \in Outcomes : TeardownEnds(ok)
             \/ SecondPass \/ Unload \/ LastDisconnect \/ ShutdownEnds
    <3>1. cancel' = cancel
      BY <2>5 DEF Initialized, InitializeFails, ServerExits, ServerFails, MarkUnavailable,
                  TeardownEnds, SecondPass, Unload, LastDisconnect, ShutdownEnds
    <3> QED
      BY <1>1, <3>1
  <2>6. CASE UNCHANGED vars
    BY <1>1, <2>6 DEF vars, runtimeVars
  <2> QED
    BY <1>1, <2>1, <2>2, <2>3, <2>4, <2>5, <2>6 DEF Next
<1>2. TypeOK /\ IInv /\ [Next]_vars
        => [cancel = "settling" /\ cancel' = "none" => \A r \in awaited : ~Loose(r)']_vars
  BY <1>1
<1> QED
  BY <1>2, RuntimeInvariant, TypeCorrect, PTL DEF Spec, StopIsComplete

=============================================================================
