-------------------------- MODULE FeishuPublishProofs --------------------------
(***************************************************************************)
(* Proofs about FeishuPublish, for any notes, accounts and publications:    *)
(* that a note which says it was published says so truly, that commands run *)
(* under the confirmed account, that what is sent is what was confirmed, and *)
(* that no note comes to own a document without creating it or consent.     *)
(***************************************************************************)
EXTENDS FeishuPublish, TLAPS

-----------------------------------------------------------------------------
(* The inductive invariant, in parts.                                      *)

Planned == {"probe", "probing", "confirm", "destination", "checking", "snapshot", "adopt"}
Entered == {"enter", "pin", "intent", "mark", "create"}
Sending == {"again", "update", "insert", "verify", "complete"}
Transaction == {"probing", "pin", "intent", "create", "record", "mark"} \cup Sending
Unpinned == {"idle", "connect", "connecting", "read", "enter", "pin"} \cup Planned

(* A publication is of a note that exists, for the account its first check   *)
(* found, and of a text the note had; in the probe and in the transaction it *)
(* is the operation under way.                                             *)
KnownInv(j) ==
  /\ job[j].at # "idle" => job[j].note \in Note /\ text[job[j].note] > 0
  /\ job[j].at \notin {"idle", "connect", "connecting"} => job[j].account \in Account
  /\ job[j].at \notin {"idle", "connect", "connecting", "read"} => job[j].text > 0
  /\ job[j].at \in Transaction => busy = j

(* The pin is compared with the account of the second check, if nobody       *)
(* checked since.                                                          *)
PinInv(j) ==
  /\ job[j].at \in Unpinned => job[j].pin = None
  /\ job[j].at \in Between /\ ~job[j].shaken => cache = job[j].account
  /\ job[j].pin # None => job[j].pin = job[j].account \/ job[j].shaken

(* The document to update is the one of the link that was read: trusted, or  *)
(* to be adopted before the transaction is entered.                        *)
Own(j) == Signature(job[j].note, job[j].account)
PlanInv(j) ==
  /\ job[j].at \in Planned =>
       IF job[j].doc = None
       THEN ~job[j].adopt /\ (job[j].base = None \/ job[j].fresh \/ job[j].shared)
       ELSE /\ job[j].base # None /\ job[j].base.doc = job[j].doc
            /\ job[j].adopt \/ job[j].base.sig = Own(j)
  /\ job[j].at = "adopt" => job[j].adopt
  /\ job[j].at \in Entered =>
       IF job[j].doc = None
       THEN job[j].base = None \/ job[j].fresh \/ job[j].shared
       ELSE job[j].base # None /\ job[j].base.doc = job[j].doc /\ job[j].base.sig = Own(j)
  /\ job[j].at = "mark" => job[j].doc # None

(* While a document is being written its note says so; the document is the   *)
(* note's, and before the note says that it is published it holds the text. *)
SendInv(j) ==
  /\ job[j].at \in Sending =>
       /\ job[j].doc # None /\ job[j].base = PendingLink(j, job[j].doc)
       /\ link[job[j].note] # None /\ link[job[j].note].hash = Pending
  /\ job[j].at \in {"record", "insert", "verify", "complete"} =>
       job[j].doc # None /\ doc[job[j].doc] # None /\ doc[job[j].doc].by = job[j].note
  /\ job[j].at = "complete" => doc[job[j].doc].whole /\ doc[job[j].doc].text = job[j].text

(* Links are of notes that exist, signed for notes that exist, and lead to   *)
(* documents that exist.                                                   *)
LinkInv(n) ==
  link[n] # None => /\ text[n] > 0 /\ doc[link[n].doc] # None
                    /\ link[n].sig # None => text[link[n].sig.note] > 0

Synced(n) ==
  link[n] # None /\ link[n].hash # Pending /\ doc[link[n].doc].by = n
    => doc[link[n].doc].text = link[n].hash /\ doc[link[n].doc].whole

WrittenInv(d) == doc[d] # None => text[doc[d].by] > 0

IInv ==
  /\ TypeOK
  /\ \A j \in Job : KnownInv(j) /\ PinInv(j) /\ PlanInv(j) /\ SendInv(j)
  /\ \A n \in Note : LinkInv(n) /\ Synced(n)
  /\ \A d \in 1..MaxDoc : WrittenInv(d)

-----------------------------------------------------------------------------
(* Lemmas about the steps.                                                 *)

Others(j) == \A k \in Job \ {j} : job'[k] = job[k]

(* A publication moves on, or ends.                                        *)
Moves(j, step) ==
  /\ job' \in [Job -> Publication] /\ Others(j)
  /\ job'[j].at = step /\ job'[j] = [job[j] EXCEPT !.at = step]
Stops(j) ==
  /\ job' \in [Job -> Publication] /\ Others(j) /\ job'[j] = Idle
  /\ busy' = IF busy = j THEN None ELSE busy

(* A publication that is not going on has its type, and no pin.             *)
LEMMA IdleIsTyped == Idle \in Publication /\ Idle.at = "idle" /\ Idle.pin = None
BY FeishuAssumption DEF Idle, Publication, Steps

(* Going to a step changes nothing else of a publication.                   *)
LEMMA GotoMoves ==
  ASSUME TypeOK, NEW j \in Job, NEW step \in Steps, Goto(j, step)
  PROVE  Moves(j, step)
<1>1. job[j] \in Publication /\ job \in [Job -> Publication]
  BY DEF TypeOK
<1>2. [job[j] EXCEPT !.at = step] \in Publication
  BY <1>1 DEF Publication
<1>3. job' = [job EXCEPT ![j] = [job[j] EXCEPT !.at = step]]
  BY DEF Goto
<1>4. [job[j] EXCEPT !.at = step].at = step
  BY <1>1 DEF Publication
<1> QED
  BY <1>1, <1>2, <1>3, <1>4 DEF Moves, Others

(* An end sets the publication back, and gives up the operation.            *)
LEMMA EndsStops ==
  ASSUME TypeOK, NEW j \in Job, Ends(j)
  PROVE  Stops(j)
BY IdleIsTyped DEF TypeOK, Ends, Stops, Others

(* After a check a publication goes on if it passed, or stops.              *)
LEMMA CheckedMoves ==
  ASSUME TypeOK, NEW j \in Job, NEW step \in Steps, NEW ok, Checked(j, ok, step)
  PROVE  (ok /\ Moves(j, step) /\ busy' = busy) \/ Stops(j)
BY GotoMoves, EndsStops DEF Checked

(* A step of one publication that changes neither notes nor documents nor    *)
(* the account its pin will be compared with disturbs no other.             *)
LEMMA JobStepKeeps ==
  ASSUME IInv, NEW j \in Job, TypeOK', Others(j), UNCHANGED <<text, link, doc, cache>>,
         \A k \in Job \ {j} : busy = k => busy' = k,
         KnownInv(j)', PinInv(j)', PlanInv(j)', SendInv(j)'
  PROVE  IInv'
<1>1. ASSUME NEW k \in Job, k # j PROVE KnownInv(k)' /\ PinInv(k)' /\ PlanInv(k)' /\ SendInv(k)'
  <2>1. job'[k] = job[k] /\ (busy = k => busy' = k)
    BY <1>1 DEF Others
  <2>2. KnownInv(k) /\ PinInv(k) /\ PlanInv(k) /\ SendInv(k)
    BY DEF IInv
  <2>3. KnownInv(k)'
    BY <2>1, <2>2 DEF KnownInv
  <2>4. PinInv(k)'
    BY <2>1, <2>2 DEF PinInv
  <2>5. PlanInv(k)'
    BY <2>1, <2>2 DEF PlanInv, Own
  <2>6. SendInv(k)'
    BY <2>1, <2>2 DEF SendInv, PendingLink
  <2> QED
    BY <2>3, <2>4, <2>5, <2>6
<1>2. ASSUME NEW n \in Note PROVE LinkInv(n)' /\ Synced(n)'
  BY DEF IInv, LinkInv, Synced
<1>3. ASSUME NEW d \in 1..MaxDoc PROVE WrittenInv(d)'
  BY DEF IInv, WrittenInv
<1> QED
  BY <1>1, <1>2, <1>3 DEF IInv

(* An end leaves everything in order, wherever it comes.                    *)
LEMMA StopKeeps ==
  ASSUME IInv, NEW j \in Job, Stops(j), UNCHANGED <<disk, doc, client, starts>>
  PROVE  IInv'
<1>1. TypeOK'
  BY DEF IInv, TypeOK, Stops, disk, client
<1>2. job'[j].at = "idle" /\ job'[j].pin = None
  BY IdleIsTyped DEF Stops
<1>3. KnownInv(j)' /\ PinInv(j)' /\ PlanInv(j)' /\ SendInv(j)'
  BY <1>2 DEF KnownInv, PinInv, PlanInv, SendInv, Transaction, Sending, Between, Planned, Entered
<1>4. \A k \in Job \ {j} : busy = k => busy' = k
  BY DEF Stops
<1> QED
  BY <1>1, <1>3, <1>4, JobStepKeeps DEF Stops, disk, client

(* The fields that a move leaves.                                          *)
LEMMA MoveFields ==
  ASSUME TypeOK, NEW j \in Job, NEW step, Moves(j, step)
  PROVE  /\ job'[j].at = step
         /\ job'[j].id = job[j].id /\ job'[j].note = job[j].note /\ job'[j].fresh = job[j].fresh
         /\ job'[j].text = job[j].text /\ job'[j].base = job[j].base /\ job'[j].doc = job[j].doc
         /\ job'[j].adopt = job[j].adopt /\ job'[j].account = job[j].account
         /\ job'[j].pin = job[j].pin /\ job'[j].shared = job[j].shared
         /\ job'[j].shaken = job[j].shaken
BY DEF TypeOK, Moves, Publication

(* Waiting for the connection.                                             *)
LEMMA WaitsKeeps ==
  ASSUME IInv, NEW j \in Job, Waits(j)
  PROVE  IInv'
<1>2. ASSUME TRUE, Moves(j, "connecting"), busy' = busy PROVE IInv'
  <2> USE <1>2 DEF At
  <2>1. TypeOK'
    BY DEF IInv, TypeOK, Moves, Waits, disk, client, Ask
  <2>2. /\ job[j].at = "connect" /\ UNCHANGED <<text, link, doc, cache>>
    BY DEF Waits, disk, client
  <2>3. KnownInv(j)' /\ PinInv(j)'
    BY <2>2, MoveFields DEF IInv, KnownInv, PinInv, Transaction, Sending, Planned, Entered, Unpinned, Between
  <2>4. PlanInv(j)'
    BY <2>2, MoveFields DEF IInv, PlanInv, Own, Planned, Entered
  <2>5. SendInv(j)'
    BY <2>2, MoveFields DEF IInv, SendInv, PendingLink, Sending
  <2> QED
    BY <2>1, <2>2, <2>3, <2>4, <2>5, JobStepKeeps DEF Moves
<1> QED
  <2>1. "connecting" \in Steps
    BY DEF Steps
  <2> QED
    BY <1>2, <2>1, GotoMoves DEF IInv, Waits

(* The probe begins when no operation is under way, as the transaction does. *)
LEMMA ProbeEntersKeeps ==
  ASSUME IInv, NEW j \in Job, ProbeEnters(j)
  PROVE  IInv'
<1>1. CASE Stops(j)
  BY <1>1, StopKeeps DEF ProbeEnters
<1>2. ASSUME busy = None, busy' = j, Moves(j, "probing") PROVE IInv'
  <2> USE <1>2 DEF At
  <2>1. TypeOK'
    BY DEF IInv, TypeOK, Moves, ProbeEnters, disk, client
  <2>2. job[j].at = "probe" /\ UNCHANGED <<text, link, doc, cache>>
    BY DEF ProbeEnters, disk, client
  <2>3. KnownInv(j)' /\ PinInv(j)'
    BY <2>2, MoveFields
    DEF IInv, KnownInv, PinInv, Transaction, Sending, Planned, Entered, Unpinned, Between
  <2>4. PlanInv(j)' /\ SendInv(j)'
    BY <2>2, MoveFields DEF IInv, PlanInv, SendInv, Own, Planned, Entered, Sending
  <2>5. \A k \in Job \ {j} : busy = k => busy' = k
    BY FeishuAssumption
  <2> QED
    BY <2>1, <2>2, <2>3, <2>4, <2>5, JobStepKeeps DEF Moves
<1> QED
  <2>1. "probing" \in Steps
    BY DEF Steps
  <2> QED
    BY <1>1, <1>2, <2>1, GotoMoves, EndsStops DEF IInv, ProbeEnters

(* The probe only stops the publication, or lets it go on; the operation is  *)
(* over either way.                                                        *)
LEMMA ProbesKeeps ==
  ASSUME IInv, NEW j \in Job, Probes(j)
  PROVE  IInv'
<1>1. CASE Stops(j)
  BY <1>1, StopKeeps DEF Probes
<1>2. ASSUME Moves(j, "confirm"), busy' = None PROVE IInv'
  <2> USE <1>2 DEF At
  <2>1. TypeOK'
    BY DEF IInv, TypeOK, Moves, Probes, disk, client
  <2>2. job[j].at = "probing" /\ UNCHANGED <<text, link, doc, cache>>
    BY DEF Probes, disk, client
  <2>3. KnownInv(j)' /\ PinInv(j)'
    BY <2>2, MoveFields
    DEF IInv, KnownInv, PinInv, Transaction, Sending, Planned, Entered, Unpinned, Between
  <2>4. PlanInv(j)' /\ SendInv(j)'
    BY <2>2, MoveFields DEF IInv, PlanInv, SendInv, Own, Planned, Entered, Sending
  <2>5. \A k \in Job \ {j} : busy = k => busy' = k
    BY <2>2 DEF IInv, KnownInv, Transaction
  <2> QED
    BY <2>1, <2>2, <2>3, <2>4, <2>5, JobStepKeeps DEF Moves
<1> QED
  <2>1. "confirm" \in Steps
    BY DEF Steps
  <2> QED
    BY <1>1, <1>2, <2>1, GotoMoves, EndsStops DEF IInv, Probes

(* What was planned is what is confirmed.                                  *)
LEMMA ConfirmsKeeps ==
  ASSUME IInv, NEW j \in Job, Confirms(j)
  PROVE  IInv'
<1>2. ASSUME TRUE, Moves(j, "destination"), busy' = busy PROVE IInv'
  <2> USE <1>2 DEF At
  <2>1. TypeOK'
    BY DEF IInv, TypeOK, Moves, Confirms, disk, client, Ask
  <2>2. /\ job[j].at = "confirm" /\ UNCHANGED <<text, link, doc, cache>>
    BY DEF Confirms, disk, client
  <2>3. KnownInv(j)' /\ PinInv(j)'
    BY <2>2, MoveFields DEF IInv, KnownInv, PinInv, Transaction, Sending, Planned, Entered, Unpinned, Between
  <2>4. PlanInv(j)'
    BY <2>2, MoveFields DEF IInv, PlanInv, Own, Planned, Entered
  <2>5. SendInv(j)'
    BY <2>2, MoveFields DEF IInv, SendInv, PendingLink, Sending
  <2> QED
    BY <2>1, <2>2, <2>3, <2>4, <2>5, JobStepKeeps DEF Moves
<1> QED
  <2>1. "destination" \in Steps
    BY DEF Steps
  <2> QED
    BY <1>2, <2>1, GotoMoves DEF IInv, Confirms

(* Waiting for the second check.                                           *)
LEMMA WaitsAgainKeeps ==
  ASSUME IInv, NEW j \in Job, WaitsAgain(j)
  PROVE  IInv'
<1>2. ASSUME TRUE, Moves(j, "checking"), busy' = busy PROVE IInv'
  <2> USE <1>2 DEF At
  <2>1. TypeOK'
    BY DEF IInv, TypeOK, Moves, WaitsAgain, disk, client, Ask
  <2>2. /\ job[j].at = "destination" /\ UNCHANGED <<text, link, doc, cache>>
    BY DEF WaitsAgain, disk, client
  <2>3. KnownInv(j)' /\ PinInv(j)'
    BY <2>2, MoveFields DEF IInv, KnownInv, PinInv, Transaction, Sending, Planned, Entered, Unpinned, Between
  <2>4. PlanInv(j)'
    BY <2>2, MoveFields DEF IInv, PlanInv, Own, Planned, Entered
  <2>5. SendInv(j)'
    BY <2>2, MoveFields DEF IInv, SendInv, PendingLink, Sending
  <2> QED
    BY <2>1, <2>2, <2>3, <2>4, <2>5, JobStepKeeps DEF Moves
<1> QED
  <2>1. "checking" \in Steps
    BY DEF Steps
  <2> QED
    BY <1>2, <2>1, GotoMoves DEF IInv, WaitsAgain

(* The link to be adopted is not trusted, any other is.                    *)
LEMMA SnapshotKeeps ==
  ASSUME IInv, NEW j \in Job, Snapshot(j)
  PROVE  IInv'
<1>1. CASE Stops(j)
  BY <1>1, StopKeeps DEF Snapshot
<1>2. ASSUME TRUE, Moves(j, (IF job[j].adopt THEN "adopt" ELSE "enter")), busy' = busy PROVE IInv'
  <2> USE <1>2 DEF At
  <2>1. TypeOK'
    BY DEF IInv, TypeOK, Moves, Snapshot, disk, client, Ask
  <2>2. /\ job[j].at = "snapshot" /\ UNCHANGED <<text, link, doc, cache>>
    BY DEF Snapshot, disk, client
  <2>3. KnownInv(j)' /\ PinInv(j)'
    BY <2>2, MoveFields DEF IInv, KnownInv, PinInv, Transaction, Sending, Planned, Entered, Unpinned, Between
  <2>4. PlanInv(j)'
    BY <2>2, MoveFields DEF IInv, PlanInv, Own, Planned, Entered
  <2>5. SendInv(j)'
    BY <2>2, MoveFields DEF IInv, SendInv, PendingLink, Sending
  <2> QED
    BY <2>1, <2>2, <2>3, <2>4, <2>5, JobStepKeeps DEF Moves
<1> QED
  <2>1. (IF job[j].adopt THEN "adopt" ELSE "enter") \in Steps
    BY DEF Steps
  <2> QED
    BY <1>1, <1>2, <2>1, CheckedMoves DEF IInv, Snapshot, IntentHolds

(* What was confirmed is still so: the transaction may write.              *)
LEMMA IntendsKeeps ==
  ASSUME IInv, NEW j \in Job, Intends(j)
  PROVE  IInv'
<1>1. CASE Stops(j)
  BY <1>1, StopKeeps DEF Intends
<1>2. ASSUME IntentHolds(j), Moves(j, (IF job[j].doc = None THEN "create" ELSE "mark")), busy' = busy PROVE IInv'
  <2> USE <1>2 DEF At
  <2>1. TypeOK'
    BY DEF IInv, TypeOK, Moves, Intends, disk, client, Ask
  <2>2. /\ job[j].at = "intent" /\ UNCHANGED <<text, link, doc, cache>>
    BY DEF Intends, disk, client
  <2>3. KnownInv(j)' /\ PinInv(j)'
    BY <2>2, MoveFields DEF IInv, KnownInv, PinInv, Transaction, Sending, Planned, Entered, Unpinned, Between
  <2>4. PlanInv(j)'
    BY <2>2, MoveFields DEF IInv, PlanInv, Own, Planned, Entered
  <2>5. SendInv(j)'
    BY <2>2, MoveFields DEF IInv, SendInv, PendingLink, Sending
  <2> QED
    BY <2>1, <2>2, <2>3, <2>4, <2>5, JobStepKeeps DEF Moves
<1> QED
  <2>1. (IF job[j].doc = None THEN "create" ELSE "mark") \in Steps
    BY DEF Steps
  <2> QED
    BY <1>1, <1>2, <2>1, CheckedMoves DEF IInv, Intends, IntentHolds

(* And still so after the note was marked.                                 *)
LEMMA IntendsAgainKeeps ==
  ASSUME IInv, NEW j \in Job, IntendsAgain(j)
  PROVE  IInv'
<1>1. CASE Stops(j)
  BY <1>1, StopKeeps DEF IntendsAgain
<1>2. ASSUME IntentHolds(j), Moves(j, "update"), busy' = busy PROVE IInv'
  <2> USE <1>2 DEF At
  <2>1. TypeOK'
    BY DEF IInv, TypeOK, Moves, IntendsAgain, disk, client, Ask
  <2>2. /\ job[j].at = "again" /\ UNCHANGED <<text, link, doc, cache>>
    BY DEF IntendsAgain, disk, client
  <2>3. KnownInv(j)' /\ PinInv(j)'
    BY <2>2, MoveFields DEF IInv, KnownInv, PinInv, Transaction, Sending, Planned, Entered, Unpinned, Between
  <2>4. PlanInv(j)'
    BY <2>2, MoveFields DEF IInv, PlanInv, Own, Planned, Entered
  <2>5. SendInv(j)'
    BY <2>2, MoveFields DEF IInv, SendInv, PendingLink, Sending
  <2> QED
    BY <2>1, <2>2, <2>3, <2>4, <2>5, JobStepKeeps DEF Moves
<1> QED
  <2>1. "update" \in Steps
    BY DEF Steps
  <2> QED
    BY <1>1, <1>2, <2>1, CheckedMoves DEF IInv, IntendsAgain, IntentHolds

(* Nobody else writes documents meanwhile: what was verified stays.        *)
LEMMA VerifiesKeeps ==
  ASSUME IInv, NEW j \in Job, Verifies(j)
  PROVE  IInv'
<1>1. CASE Stops(j)
  BY <1>1, StopKeeps DEF Verifies
<1>2. ASSUME doc[job[j].doc].whole /\ doc[job[j].doc].text = job[j].text, Moves(j, "complete"), busy' = busy PROVE IInv'
  <2> USE <1>2 DEF At
  <2>1. TypeOK'
    BY DEF IInv, TypeOK, Moves, Verifies, disk, client, Ask
  <2>2. /\ job[j].at = "verify" /\ UNCHANGED <<text, link, doc, cache>>
    BY DEF Verifies, disk, client
  <2>3. KnownInv(j)' /\ PinInv(j)'
    BY <2>2, MoveFields DEF IInv, KnownInv, PinInv, Transaction, Sending, Planned, Entered, Unpinned, Between
  <2>4. PlanInv(j)'
    BY <2>2, MoveFields DEF IInv, PlanInv, Own, Planned, Entered
  <2>5. SendInv(j)'
    BY <2>2, MoveFields DEF IInv, SendInv, PendingLink, Sending
  <2> QED
    BY <2>1, <2>2, <2>3, <2>4, <2>5, JobStepKeeps DEF Moves
<1> QED
  <2>1. "complete" \in Steps
    BY DEF Steps
  <2> QED
    BY <1>1, <1>2, <2>1, CheckedMoves DEF IInv, Verifies, IntentHolds

-----------------------------------------------------------------------------
(* Steps of a publication that do more than move on.                        *)

(* A started publication has nothing planned, nor pinned.                   *)
LEMMA StartKeeps ==
  ASSUME IInv, NEW j \in Job, NEW n \in Note, Start(j, n)
  PROVE  IInv'
<1>1. /\ text[n] > 0 /\ starts' = starts + 1 /\ starts' \in 0..MaxStart
      /\ UNCHANGED <<text, link, doc, login, cache, check, auth, switches, busy>>
  BY FeishuAssumption DEF IInv, TypeOK, Start, disk, client
<1>2. (cache # None /\ Duplicate(n, cache)) \in BOOLEAN
  BY DEF Duplicate
<1>3. PICK fresh \in BOOLEAN :
        job' = [job EXCEPT ![j] = [Idle EXCEPT !.at = "connect", !.id = starts + 1, !.note = n,
                                               !.fresh = fresh]]
  BY <1>2 DEF Start
<1> DEFINE new == [Idle EXCEPT !.at = "connect", !.id = starts + 1, !.note = n, !.fresh = fresh]
<1>4. new \in Publication /\ new.at = "connect" /\ new.note = n /\ new.pin = None
  <2>1. starts + 1 \in 0..MaxStart /\ "connect" \in Steps
    BY <1>1 DEF Steps
  <2> QED
    BY <2>1, IdleIsTyped DEF Publication
<1>5. job' = [job EXCEPT ![j] = new] /\ job \in [Job -> Publication]
  BY <1>3 DEF IInv, TypeOK
<1> HIDE DEF new
<1>6. job'[j] = new /\ Others(j) /\ job' \in [Job -> Publication]
  BY <1>4, <1>5 DEF Others
<1>7. TypeOK'
  BY <1>1, <1>6 DEF IInv, TypeOK
<1>8. KnownInv(j)' /\ PinInv(j)' /\ PlanInv(j)' /\ SendInv(j)'
  BY <1>1, <1>4, <1>6
  DEF KnownInv, PinInv, PlanInv, SendInv, Transaction, Sending, Planned, Entered, Between
<1> QED
  BY <1>1, <1>6, <1>7, <1>8, JobStepKeeps

(* What is read is planned: a document to update is that of the link, which  *)
(* is trusted or to be adopted.                                            *)
LEMMA ReadsKeeps ==
  ASSUME IInv, NEW j \in Job, Reads(j)
  PROVE  IInv'
<1> DEFINE n == job[j].note
           old == link[n]
<1>1. /\ n \in Note /\ job[j].account \in Account /\ text[n] > 0 /\ text[n] \in 0..MaxText
      /\ old \in Link \cup {None} /\ job[j] \in Publication /\ job[j].pin = None
      /\ job \in [Job -> Publication]
  BY DEF IInv, TypeOK, KnownInv, PinInv, Unpinned, Reads, At
<1>2. job[j].at = "read" /\ UNCHANGED <<text, link, doc, login, cache, check, auth, switches, busy, starts>>
  BY DEF Reads, At, disk, client
<1>3. PICK shared \in BOOLEAN, update \in BOOLEAN, adopt \in BOOLEAN :
        /\ update <=> (old # None /\ ~job[j].fresh /\ ~shared)
        /\ adopt <=> (update /\ ~Trusted(n, job[j].account))
        /\ job' = [job EXCEPT ![j].at = IF adopt THEN "probe" ELSE "confirm",
                              ![j].text = text[n], ![j].base = old,
                              ![j].doc = IF update THEN old.doc ELSE None, ![j].shared = shared,
                              ![j].adopt = adopt]
  <2>1. Duplicate(n, job[j].account) \in BOOLEAN
    BY DEF Duplicate
  <2> DEFINE shared == Duplicate(n, job[j].account)
             update == old # None /\ ~job[j].fresh /\ ~shared
             adopt == update /\ ~Trusted(n, job[j].account)
  <2> WITNESS shared \in BOOLEAN, update \in BOOLEAN, adopt \in BOOLEAN
  <2> QED
    BY DEF Reads
<1>4. PICK at \in Steps, to \in 1..MaxDoc \cup {None}, now \in 0..MaxText, p \in Publication,
           base \in Link \cup {None} :
        /\ now = text[n] /\ p = job[j] /\ base = old
        /\ at = IF adopt THEN "probe" ELSE "confirm"
        /\ to = IF update THEN old.doc ELSE None
  BY <1>1, <1>3 DEF Link, Steps
<1> DEFINE new == [p EXCEPT !.at = at, !.text = now, !.base = base, !.doc = to,
                            !.shared = shared, !.adopt = adopt]
<1>5. job' = [job EXCEPT ![j] = new]
  BY <1>3, <1>4
<1>6. /\ update => old # None /\ old.doc \in 1..MaxDoc /\ ~job[j].fresh
      /\ update /\ ~adopt => old.sig = Signature(n, job[j].account)
      /\ ~update => old = None \/ job[j].fresh \/ shared
      /\ adopt => update
  BY <1>1, <1>3 DEF Link, Trusted
<1> HIDE DEF n, old
<1>7. /\ new \in Publication /\ new.at = at /\ new.text = text[n] /\ new.base = old
      /\ new.doc = to /\ new.shared = shared /\ new.adopt = adopt /\ new.note = job[j].note
      /\ new.account = job[j].account /\ new.fresh = job[j].fresh /\ new.pin = None
  <2>1. /\ new \in Publication /\ new.at = at /\ new.text = now /\ new.base = base
        /\ new.doc = to /\ new.shared = shared /\ new.adopt = adopt /\ new.note = p.note
        /\ new.account = p.account /\ new.fresh = p.fresh /\ new.pin = p.pin
    BY DEF Publication
  <2> QED
    BY <1>1, <1>4, <2>1
<1> HIDE DEF new
<1>8. job'[j] = new /\ Others(j) /\ job' \in [Job -> Publication]
  BY <1>1, <1>5, <1>7 DEF Others
<1>9. TypeOK'
  BY <1>2, <1>8 DEF IInv, TypeOK
<1>10. KnownInv(j)' /\ PinInv(j)'
  BY <1>1, <1>2, <1>4, <1>7, <1>8 DEF KnownInv, PinInv, Transaction, Sending, Between, n
<1>11. PlanInv(j)' /\ SendInv(j)'
  <2>1. job'[j].doc = None <=> ~update
    BY <1>4, <1>6, <1>7, <1>8, FeishuAssumption
  <2> QED
    BY <1>4, <1>6, <1>7, <1>8, <2>1 DEF PlanInv, SendInv, Own, Planned, Entered, Sending, n
<1> QED
  BY <1>2, <1>8, <1>9, <1>10, <1>11, JobStepKeeps

(* One transaction at a time.                                              *)
LEMMA EntersKeeps ==
  ASSUME IInv, NEW j \in Job, Enters(j)
  PROVE  IInv'
<1>1. CASE Stops(j)
  BY <1>1, StopKeeps DEF Enters
<1>2. ASSUME busy = None, busy' = j, Moves(j, "pin") PROVE IInv'
  <2> USE <1>2 DEF At
  <2>1. TypeOK'
    BY DEF IInv, TypeOK, Moves, Enters, disk, client
  <2>2. job[j].at = "enter" /\ UNCHANGED <<text, link, doc, cache>>
    BY DEF Enters, disk, client
  <2>3. KnownInv(j)' /\ PinInv(j)'
    BY <2>2, MoveFields
    DEF IInv, KnownInv, PinInv, Transaction, Sending, Planned, Entered, Unpinned, Between
  <2>4. PlanInv(j)' /\ SendInv(j)'
    BY <2>2, MoveFields DEF IInv, PlanInv, SendInv, Own, Planned, Entered, Sending
  <2>5. \A k \in Job \ {j} : busy = k => busy' = k
    BY FeishuAssumption
  <2> QED
    BY <2>1, <2>2, <2>3, <2>4, <2>5, JobStepKeeps DEF Moves
<1> QED
  <2>1. "pin" \in Steps
    BY DEF Steps
  <2> QED
    BY <1>1, <1>2, <2>1, GotoMoves, EndsStops DEF IInv, Enters

(* The pin: nobody having checked in between, the client goes by the account *)
(* of the check, or the publication ends.                                  *)
LEMMA PinsKeeps ==
  ASSUME IInv, NEW j \in Job, Pins(j)
  PROVE  IInv'
<1>1. CASE Stops(j)
  BY <1>1, StopKeeps DEF Pins
<1>2. ASSUME cache \in {None, login}, busy' = busy,
             job' = [job EXCEPT ![j].at = "intent", ![j].pin = login]
      PROVE  IInv'
  <2>1. /\ job[j].at = "pin" /\ UNCHANGED <<text, link, doc, login, cache, check, auth, switches, starts>>
        /\ job \in [Job -> Publication] /\ login \in Account
    BY DEF Pins, At, disk, client, IInv, TypeOK
  <2>2. /\ Others(j) /\ job' \in [Job -> Publication] /\ job'[j].at = "intent" /\ job'[j].pin = login
        /\ job'[j].note = job[j].note /\ job'[j].text = job[j].text /\ job'[j].base = job[j].base
        /\ job'[j].doc = job[j].doc /\ job'[j].adopt = job[j].adopt /\ job'[j].account = job[j].account
        /\ job'[j].fresh = job[j].fresh /\ job'[j].shared = job[j].shared
        /\ job'[j].shaken = job[j].shaken
    <3> DEFINE new == [job[j] EXCEPT !.at = "intent", !.pin = login]
    <3>1. job' = [job EXCEPT ![j] = new]
      BY <1>2
    <3>2. /\ new \in Publication /\ new.at = "intent" /\ new.pin = login
          /\ new.note = job[j].note /\ new.text = job[j].text /\ new.base = job[j].base
          /\ new.doc = job[j].doc /\ new.adopt = job[j].adopt /\ new.account = job[j].account
          /\ new.fresh = job[j].fresh /\ new.shared = job[j].shared /\ new.shaken = job[j].shaken
      BY <2>1 DEF Publication, Steps
    <3> HIDE DEF new
    <3> QED
      BY <2>1, <3>1, <3>2 DEF Others
  <2>3. TypeOK'
    BY <1>2, <2>1, <2>2 DEF IInv, TypeOK
  <2>4. KnownInv(j)'
    BY <1>2, <2>1, <2>2 DEF IInv, KnownInv, Transaction, Sending
  <2>5. PinInv(j)'
    <3>1. job[j].shaken \/ (cache = job[j].account /\ job[j].account # None)
      BY <2>1, FeishuAssumption DEF IInv, PinInv, KnownInv, Between
    <3> QED
      BY <1>2, <2>2, <3>1 DEF PinInv, Unpinned, Planned, Between
  <2>6. PlanInv(j)' /\ SendInv(j)'
    BY <2>1, <2>2 DEF IInv, PlanInv, SendInv, Own, Planned, Entered, Sending
  <2> QED
    BY <1>2, <2>1, <2>2, <2>3, <2>4, <2>5, <2>6, JobStepKeeps
<1> QED
  BY <1>1, <1>2, EndsStops DEF IInv, Pins

-----------------------------------------------------------------------------
(* Steps of the client.                                                    *)

(* An answer, or an authorization, changes what pins are compared with, and  *)
(* with it the mark of every publication that relied on it.                *)
LEMMA ClientStepKeeps ==
  ASSUME IInv, TypeOK', UNCHANGED <<disk, doc, busy, starts>>,
         \A k \in Job : KnownInv(k)' /\ PinInv(k)' /\ PlanInv(k)' /\ SendInv(k)'
  PROVE  IInv'
<1>1. ASSUME NEW n \in Note PROVE LinkInv(n)' /\ Synced(n)'
  BY DEF IInv, LinkInv, Synced, disk
<1>2. ASSUME NEW d \in 1..MaxDoc PROVE WrittenInv(d)'
  BY DEF IInv, WrittenInv, disk
<1> QED
  BY <1>1, <1>2 DEF IInv

(* What a shaken publication keeps.                                        *)
LEMMA ShakenFields ==
  ASSUME TypeOK, NEW k \in Job
  PROVE  /\ Shaken(k) \in Publication /\ Shaken(k).at = job[k].at
         /\ Shaken(k).id = job[k].id /\ Shaken(k).note = job[k].note
         /\ Shaken(k).fresh = job[k].fresh /\ Shaken(k).text = job[k].text
         /\ Shaken(k).base = job[k].base /\ Shaken(k).doc = job[k].doc
         /\ Shaken(k).adopt = job[k].adopt /\ Shaken(k).account = job[k].account
         /\ Shaken(k).pin = job[k].pin /\ Shaken(k).shared = job[k].shared
         /\ Shaken(k).shaken = (job[k].shaken \/ job[k].at \in Between)
<1>1. job[k] \in Publication
  BY DEF TypeOK
<1> QED
  BY <1>1 DEF Shaken, Publication

(* It keeps all that is known of it.                                       *)
LEMMA ShakenKeeps ==
  ASSUME IInv, NEW k \in Job, job'[k] = Shaken(k), UNCHANGED <<disk, doc, busy>>
  PROVE  KnownInv(k)' /\ PinInv(k)' /\ PlanInv(k)' /\ SendInv(k)'
<1> USE ShakenFields DEF disk
<1>1. KnownInv(k)'
  BY DEF IInv, KnownInv
<1>2. PinInv(k)'
  BY DEF IInv, PinInv
<1>3. PlanInv(k)'
  BY DEF IInv, PlanInv, Own
<1>4. SendInv(k)'
  BY DEF IInv, SendInv, PendingLink
<1> QED
  BY <1>1, <1>2, <1>3, <1>4

(* The answer of a check: a publication in its second one goes on only if    *)
(* the account is the confirmed one, which pins are then compared with.     *)
LEMMA AnswerKeeps ==
  ASSUME IInv, Answer
  PROVE  IInv'
<1>1. PICK ok \in BOOLEAN : /\ cache' = IF ok THEN check ELSE None
                            /\ job' = [k \in Job |-> Answered(k, ok)]
  BY DEF Answer
<1>2. /\ check \in Account /\ check' = None
      /\ UNCHANGED <<text, link, doc, login, auth, switches, busy, starts>>
  BY DEF Answer, IInv, TypeOK, disk
<1>3. ASSUME NEW k \in Job
      PROVE job'[k] \in Publication /\ KnownInv(k)' /\ PinInv(k)' /\ PlanInv(k)' /\ SendInv(k)'
  <2>1. job[k] \in Publication /\ job'[k] = Answered(k, ok)
    BY <1>1 DEF IInv, TypeOK
  <2>2. CASE job'[k] = Idle
    BY <2>2, IdleIsTyped DEF KnownInv, PinInv, PlanInv, SendInv, Transaction, Sending, Between, Planned, Entered
  <2>3. CASE job'[k] = Shaken(k)
    BY <1>2, <2>3, ShakenFields, ShakenKeeps DEF IInv, disk
  <2>4. CASE job[k].at = "connecting" /\ job'[k] = [job[k] EXCEPT !.at = "read", !.account = check]
    <3>1. /\ job'[k] \in Publication /\ job'[k].at = "read" /\ job'[k].account = check
          /\ job'[k].note = job[k].note /\ job'[k].pin = job[k].pin
      BY <1>2, <2>1, <2>4 DEF Publication, Steps
    <3> QED
      BY <1>2, <2>4, <3>1
      DEF IInv, KnownInv, PinInv, PlanInv, SendInv, Transaction, Sending, Between, Planned, Entered, Unpinned
  <2>5. CASE ok /\ check = job[k].account /\ job[k].at = "checking"
             /\ job'[k] = [job[k] EXCEPT !.at = "snapshot"]
    <3>1. /\ job'[k] \in Publication /\ job'[k].at = "snapshot"
          /\ job'[k].account = job[k].account /\ job'[k].note = job[k].note /\ job'[k].pin = job[k].pin
          /\ job'[k].text = job[k].text /\ job'[k].base = job[k].base /\ job'[k].doc = job[k].doc
          /\ job'[k].adopt = job[k].adopt /\ job'[k].fresh = job[k].fresh
          /\ job'[k].shared = job[k].shared /\ job'[k].shaken = job[k].shaken
      BY <2>1, <2>5 DEF Publication, Steps
    <3>2. KnownInv(k)'
      BY <1>2, <2>5, <3>1 DEF IInv, KnownInv, Transaction, Sending
    <3>3. PinInv(k)'
      BY <1>1, <1>2, <2>5, <3>1 DEF IInv, PinInv, Unpinned, Planned
    <3>4. PlanInv(k)' /\ SendInv(k)'
      BY <1>2, <2>5, <3>1 DEF IInv, PlanInv, SendInv, Own, Planned, Entered, Sending
    <3> QED
      BY <3>1, <3>2, <3>3, <3>4
  <2> QED
    BY <2>1, <2>2, <2>3, <2>4, <2>5 DEF Answered
<1>4. TypeOK'
  BY <1>1, <1>2, <1>3 DEF IInv, TypeOK
<1> QED
  BY <1>2, <1>3, <1>4, ClientStepKeeps DEF disk

(* A login may change the account, and shakes what relied on the old one.   *)
LEMMA CompleteAuthorizationKeeps ==
  ASSUME IInv, CompleteAuthorization
  PROVE  IInv'
<1>1. /\ job' = [k \in Job |-> Shaken(k)] /\ UNCHANGED <<text, link, doc, check, busy, starts>>
      /\ auth' = FALSE /\ login' \in Account /\ cache' \in Account \cup {None}
      /\ switches' \in 0..MaxSwitch
  BY FeishuAssumption DEF CompleteAuthorization, IInv, TypeOK, disk
<1>2. ASSUME NEW k \in Job
      PROVE job'[k] \in Publication /\ KnownInv(k)' /\ PinInv(k)' /\ PlanInv(k)' /\ SendInv(k)'
  BY <1>1, ShakenFields, ShakenKeeps DEF IInv, disk
<1>3. TypeOK'
  BY <1>1, <1>2 DEF IInv, TypeOK
<1> QED
  BY <1>1, <1>2, <1>3, ClientStepKeeps DEF disk

(* The client's own business, and the beginning of a check.                 *)
LEMMA QuietClientKeeps ==
  ASSUME IInv, SwitchAccount \/ CheckConnection \/ BeginAuthorization \/ CancelAuthorization
  PROVE  IInv'
<1>1. UNCHANGED <<text, link, doc, job, busy, starts, cache>>
  BY DEF disk, SwitchAccount, CheckConnection, BeginAuthorization, CancelAuthorization
<1>2. TypeOK'
  <2>1. CASE SwitchAccount
    BY <1>1, <2>1, FeishuAssumption DEF SwitchAccount, IInv, TypeOK
  <2>2. CASE CheckConnection
    BY <1>1, <2>2 DEF CheckConnection, Ask, IInv, TypeOK
  <2>3. CASE BeginAuthorization \/ CancelAuthorization
    BY <1>1, <2>3 DEF BeginAuthorization, CancelAuthorization, IInv, TypeOK
  <2> QED
    BY <2>1, <2>2, <2>3
<1>3. ASSUME NEW k \in Job PROVE KnownInv(k)' /\ PinInv(k)' /\ PlanInv(k)' /\ SendInv(k)'
  BY <1>1 DEF IInv, KnownInv, PinInv, PlanInv, SendInv, Own, PendingLink
<1> QED
  BY <1>1, <1>2, <1>3, ClientStepKeeps DEF disk

(* A crash ends all publications.                                          *)
LEMMA CrashKeeps ==
  ASSUME IInv, Crash
  PROVE  IInv'
<1>1. ASSUME NEW k \in Job PROVE job'[k] \in Publication /\ job'[k].at = "idle" /\ job'[k].pin = None
  BY IdleIsTyped DEF Crash
<1>2. UNCHANGED <<text, link, doc, login, switches, starts>>
  BY DEF Crash, disk
<1>3. TypeOK'
  BY <1>1, <1>2 DEF IInv, TypeOK, Crash
<1>4. ASSUME NEW k \in Job PROVE KnownInv(k)' /\ PinInv(k)' /\ PlanInv(k)' /\ SendInv(k)'
  BY <1>1 DEF KnownInv, PinInv, PlanInv, SendInv, Transaction, Sending, Between, Planned, Entered
<1>5. ASSUME NEW n \in Note PROVE LinkInv(n)' /\ Synced(n)'
  BY <1>2 DEF IInv, LinkInv, Synced
<1>6. ASSUME NEW d \in 1..MaxDoc PROVE WrittenInv(d)'
  BY <1>2 DEF IInv, WrittenInv
<1> QED
  BY <1>3, <1>4, <1>5, <1>6 DEF IInv

-----------------------------------------------------------------------------
(* Steps of the user.                                                      *)

(* An edit only makes a new text of a note that exists.                     *)
LEMMA EditKeeps ==
  ASSUME IInv, NEW n \in Note, Edit(n)
  PROVE  IInv'
<1>1. PICK t \in Text : text' = [text EXCEPT ![n] = t]
  BY DEF Edit
<1>2. /\ UNCHANGED <<link, doc, login, cache, check, auth, switches, busy, job, starts>>
      /\ text \in [Note -> 0..MaxText] /\ t \in 1..MaxText
  BY DEF Edit, client, IInv, TypeOK, Text
<1>3. text' \in [Note -> 0..MaxText] /\ \A m \in Note : text[m] > 0 => text'[m] > 0
  BY <1>1, <1>2, FeishuAssumption
<1>4. TypeOK'
  BY <1>2, <1>3 DEF IInv, TypeOK
<1>5. ASSUME NEW k \in Job PROVE KnownInv(k)' /\ PinInv(k)' /\ PlanInv(k)' /\ SendInv(k)'
  <2>1. KnownInv(k)'
    BY <1>2, <1>3 DEF IInv, KnownInv
  <2>2. PinInv(k)' /\ PlanInv(k)' /\ SendInv(k)'
    BY <1>2 DEF IInv, PinInv, PlanInv, SendInv, Own, PendingLink
  <2> QED
    BY <2>1, <2>2
<1>6. ASSUME NEW m \in Note PROVE LinkInv(m)' /\ Synced(m)'
  <2>1. link[m] # None /\ link[m].sig # None => link[m].sig.note \in Note
    BY DEF IInv, TypeOK, Link
  <2> QED
    BY <1>2, <1>3, <2>1 DEF IInv, LinkInv, Synced
<1>7. ASSUME NEW d \in 1..MaxDoc PROVE WrittenInv(d)'
  <2>1. doc[d] # None => doc[d].by \in Note
    BY DEF IInv, TypeOK, Document
  <2> QED
    BY <1>2, <1>3, <2>1 DEF IInv, WrittenInv
<1> QED
  BY <1>4, <1>5, <1>6, <1>7 DEF IInv

(* A copy is a note that nobody publishes yet and no document is of.        *)
LEMMA CopyNoteKeeps ==
  ASSUME IInv, NEW n \in Note, NEW m \in Note, CopyNote(n, m)
  PROVE  IInv'
<1>1. /\ text[n] > 0 /\ text[m] = 0
      /\ text' = [text EXCEPT ![m] = text[n]] /\ link' = [link EXCEPT ![m] = link[n]]
      /\ UNCHANGED <<doc, login, cache, check, auth, switches, busy, job, starts>>
  BY DEF CopyNote, client
<1>2. text \in [Note -> 0..MaxText] /\ link \in [Note -> Link \cup {None}]
  BY DEF IInv, TypeOK
<1>3. /\ text' \in [Note -> 0..MaxText] /\ link' \in [Note -> Link \cup {None}]
      /\ \A k \in Note : text[k] > 0 => text'[k] > 0 /\ k # m
      /\ \A k \in Note \ {m} : link'[k] = link[k]
      /\ link'[m] = link[n] /\ text'[m] > 0
  BY <1>1, <1>2
<1>4. TypeOK'
  BY <1>1, <1>3 DEF IInv, TypeOK
<1>5. ASSUME NEW k \in Job PROVE KnownInv(k)' /\ PinInv(k)' /\ PlanInv(k)' /\ SendInv(k)'
  <2>1. KnownInv(k)'
    BY <1>1, <1>3 DEF IInv, KnownInv
  <2>2. PinInv(k)' /\ PlanInv(k)'
    BY <1>1 DEF IInv, PinInv, PlanInv, Own
  <2>3. job[k].at \in Sending => job[k].note \in Note /\ link'[job[k].note] = link[job[k].note]
    BY <1>3 DEF IInv, KnownInv, Sending
  <2>4. SendInv(k)'
    BY <1>1, <2>3 DEF IInv, SendInv, PendingLink
  <2> QED
    BY <2>1, <2>2, <2>4
<1>6. ASSUME NEW k \in Note PROVE LinkInv(k)' /\ Synced(k)'
  <2>1. \A i \in Note : link[i] # None =>
          /\ link[i].doc \in 1..MaxDoc
          /\ link[i].sig # None => link[i].sig.note \in Note
    BY <1>2 DEF Link
  <2>2. LinkInv(k)'
    BY <1>1, <1>3, <2>1 DEF IInv, LinkInv
  <2>3. CASE k # m
    BY <1>1, <1>3, <2>2, <2>3 DEF IInv, Synced
  <2>4. CASE k = m
    <3>1. link[n] # None => doc[link[n].doc].by # m
      BY <1>1, <2>1 DEF IInv, LinkInv, WrittenInv
    <3> QED
      BY <1>1, <1>3, <2>2, <2>4, <3>1 DEF Synced
  <2> QED
    BY <2>2, <2>3, <2>4
<1>7. ASSUME NEW d \in 1..MaxDoc PROVE WrittenInv(d)'
  <2>1. doc[d] # None => doc[d].by \in Note
    BY DEF IInv, TypeOK, Document
  <2> QED
    BY <1>1, <1>3, <2>1 DEF IInv, WrittenInv
<1> QED
  BY <1>4, <1>5, <1>6, <1>7 DEF IInv

-----------------------------------------------------------------------------
(* Steps that write a note's link.                                         *)

(* A link that a publication writes disturbs no other publication: only the  *)
(* one under way changes whether the note says that it is being published.  *)
LEMMA LinkStepKeeps ==
  ASSUME IInv, NEW j \in Job, NEW n \in Note, NEW new \in Link, TypeOK', Others(j),
         link' = [link EXCEPT ![n] = new], UNCHANGED <<text, doc, cache>>,
         \A k \in Job \ {j} : busy = k => busy' = k,
         busy = j \/ (link[n] # None /\ new.hash = link[n].hash),
         text[n] > 0, doc[new.doc] # None, new.sig # None => text[new.sig.note] > 0,
         Synced(n)', KnownInv(j)', PinInv(j)', PlanInv(j)', SendInv(j)'
  PROVE  IInv'
<1>1. /\ link \in [Note -> Link \cup {None}] /\ link'[n] = new /\ new # None
      /\ \A m \in Note \ {n} : link'[m] = link[m]
  BY FeishuAssumption DEF IInv, TypeOK
<1>2. ASSUME NEW k \in Job, k # j PROVE KnownInv(k)' /\ PinInv(k)' /\ PlanInv(k)' /\ SendInv(k)'
  <2>1. job'[k] = job[k] /\ (busy = k => busy' = k)
    BY <1>2 DEF Others
  <2>2. KnownInv(k)'
    BY <2>1 DEF IInv, KnownInv
  <2>3. PinInv(k)' /\ PlanInv(k)'
    BY <2>1 DEF IInv, PinInv, PlanInv, Own
  <2>4. job[k].at \in Sending =>
          /\ job[k].note \in Note
          /\ link'[job[k].note] # None /\ link'[job[k].note].hash = link[job[k].note].hash
    <3>1. job[k].at \in Sending => busy # j /\ job[k].note \in Note /\ link[job[k].note] # None
      BY <1>2 DEF IInv, KnownInv, SendInv, Transaction, Sending
    <3> QED
      BY <1>1, <3>1
  <2>5. SendInv(k)'
    BY <2>1, <2>4 DEF IInv, SendInv, PendingLink
  <2> QED
    BY <2>2, <2>3, <2>5
<1>3. ASSUME NEW m \in Note PROVE LinkInv(m)' /\ Synced(m)'
  BY <1>1 DEF IInv, LinkInv, Synced
<1>4. ASSUME NEW d \in 1..MaxDoc PROVE WrittenInv(d)'
  BY DEF IInv, WrittenInv
<1> QED
  BY <1>2, <1>3, <1>4 DEF IInv

(* What a publication that wrote a link is, and what it leaves.             *)
Wrote(j, new, step) ==
  /\ job' \in [Job -> Publication] /\ Others(j) /\ busy' = busy
  /\ job'[j].at = step /\ job'[j].base = new
  /\ job'[j].id = job[j].id /\ job'[j].note = job[j].note /\ job'[j].fresh = job[j].fresh
  /\ job'[j].text = job[j].text /\ job'[j].doc = job[j].doc /\ job'[j].adopt = job[j].adopt
  /\ job'[j].account = job[j].account /\ job'[j].pin = job[j].pin
  /\ job'[j].shared = job[j].shared /\ job'[j].shaken = job[j].shaken

(* It writes only over the link it knows, or stops.                         *)
LEMMA PersistWrites ==
  ASSUME TypeOK, NEW j \in Job, NEW new \in Link, NEW step \in Steps \ {"idle"},
         Persist(j, new, step)
  PROVE  \/ Stops(j) /\ link' = link
         \/ /\ Wrote(j, new, step) /\ link[job[j].note] = job[j].base
            /\ link' = [link EXCEPT ![job[j].note] = new]
<1>1. CASE link[job[j].note] = job[j].base
  <2>1. /\ job' = [job EXCEPT ![j].at = step, ![j].base = new] /\ busy' = busy
        /\ link' = [link EXCEPT ![job[j].note] = new] /\ job \in [Job -> Publication]
    BY <1>1 DEF Persist, TypeOK
  <2>2. PICK p \in Publication : p = job[j]
    BY <2>1
  <2> DEFINE next == [p EXCEPT !.at = step, !.base = new]
  <2>3. /\ next \in Publication /\ next.at = step /\ next.base = new
        /\ next.id = p.id /\ next.note = p.note /\ next.fresh = p.fresh /\ next.text = p.text
        /\ next.doc = p.doc /\ next.adopt = p.adopt /\ next.account = p.account
        /\ next.pin = p.pin /\ next.shared = p.shared /\ next.shaken = p.shaken
    BY DEF Publication
  <2>4. job' = [job EXCEPT ![j] = next]
    BY <2>1, <2>2
  <2> HIDE DEF next
  <2> QED
    BY <1>1, <2>1, <2>2, <2>3, <2>4 DEF Wrote, Others
<1>2. CASE link[job[j].note] # job[j].base
  BY <1>2, EndsStops DEF Persist
<1> QED
  BY <1>1, <1>2

(* A pending link is the note's own, and a link.                            *)
LEMMA PendingIsOwn ==
  ASSUME TypeOK, NEW j \in Job, job[j].note \in Note, job[j].account \in Account,
         NEW d \in 1..MaxDoc
  PROVE  /\ PendingLink(j, d) \in Link /\ PendingLink(j, d).doc = d
         /\ PendingLink(j, d).hash = Pending
         /\ PendingLink(j, d).sig = Own(j) /\ Own(j) # None /\ Own(j).note = job[j].note
         /\ Own(j) \in [note : Note, account : Account]
BY FeishuAssumption DEF TypeOK, Publication, PendingLink, Link, Own, Signature, Pending

(* The consent of the user signs the link that was read.                    *)
LEMMA AdoptsKeeps ==
  ASSUME IInv, NEW j \in Job, Adopts(j)
  PROVE  IInv'
<1>0. PICK n \in Note : n = job[j].note
  BY DEF Adopts, At, IInv, KnownInv
<1> DEFINE new == [job[j].base EXCEPT !.sig = Signature(job[j].note, job[j].account)]
<1>1. /\ job[j].at = "adopt" /\ Persist(j, new, "enter")
      /\ UNCHANGED <<text, doc, login, cache, check, auth, switches, starts>>
  BY DEF Adopts, At, client
<1>2. /\ n \in Note /\ text[n] > 0 /\ job[j].account \in Account /\ job[j].text > 0
      /\ job[j].pin = None /\ (~job[j].shaken => cache = job[j].account)
      /\ job[j].doc # None /\ job[j].base # None /\ job[j].base.doc = job[j].doc
      /\ job[j].base \in Link
  BY <1>0, <1>1 DEF IInv, TypeOK, KnownInv, PinInv, PlanInv, Planned, Unpinned, Between, Publication
<1>3. /\ new \in Link /\ new.doc = job[j].doc /\ new.hash = job[j].base.hash
      /\ new.sig = Own(j) /\ Own(j) # None /\ Own(j).note = n /\ new # None
  <2>1. Own(j) \in [note : Note, account : Account] /\ Own(j).note = n /\ Own(j) # None
    BY <1>0, <1>2, FeishuAssumption DEF Own, Signature
  <2>2. new = [job[j].base EXCEPT !.sig = Own(j)]
    BY DEF Own
  <2>3. PICK b \in Link, s \in [note : Note, account : Account] : b = job[j].base /\ s = Own(j)
    BY <1>2, <2>1
  <2>4. /\ [b EXCEPT !.sig = s] \in Link /\ [b EXCEPT !.sig = s].doc = b.doc
        /\ [b EXCEPT !.sig = s].hash = b.hash /\ [b EXCEPT !.sig = s].sig = s
    BY DEF Link
  <2> QED
    BY <1>2, <2>1, <2>2, <2>3, <2>4, FeishuAssumption
<1> HIDE DEF new
<1>4. CASE Stops(j) /\ link' = link
  BY <1>1, <1>4, StopKeeps DEF disk, client
<1>5. ASSUME Wrote(j, new, "enter"), link[n] = job[j].base, link' = [link EXCEPT ![n] = new]
      PROVE  IInv'
  <2>1. link' \in [Note -> Link \cup {None}] /\ link'[n] = new
    BY <1>2, <1>3, <1>5 DEF IInv, TypeOK
  <2>2. TypeOK'
    BY <1>1, <1>5, <2>1 DEF IInv, TypeOK, Wrote
  <2>3. doc[new.doc] # None
    BY <1>2, <1>3, <1>5 DEF IInv, LinkInv
  <2>4. Synced(n)'
    BY <1>1, <1>2, <1>3, <1>5, <2>1 DEF IInv, Synced
  <2>5. KnownInv(j)' /\ PinInv(j)'
    BY <1>0, <1>1, <1>2, <1>5 DEF Wrote, KnownInv, PinInv, Transaction, Sending, Between
  <2>6. PlanInv(j)' /\ SendInv(j)'
    BY <1>2, <1>3, <1>5 DEF Wrote, PlanInv, SendInv, Own, Planned, Entered, Sending
  <2> QED
    BY <1>1, <1>2, <1>3, <1>5, <2>2, <2>3, <2>4, <2>5, <2>6, LinkStepKeeps DEF Wrote
<1> QED
  BY <1>0, <1>1, <1>3, <1>4, <1>5, PersistWrites DEF IInv, Steps

(* The mark on the note, before its document is overwritten or after it was *)
(* created.                                                                *)
LEMMA PendingKeeps ==
  ASSUME IInv, NEW j \in Job, NEW step \in Steps, busy = j, job[j].doc \in 1..MaxDoc,
         doc[job[j].doc] # None, job[j].note \in Note, text[job[j].note] > 0,
         job[j].account \in Account, job[j].text > 0,
         job[j].pin # None => job[j].pin = job[j].account \/ job[j].shaken,
         \/ step = "again"
         \/ step = "insert" /\ doc[job[j].doc].by = job[j].note,
         Persist(j, PendingLink(j, job[j].doc), step),
         UNCHANGED <<text, doc, client, starts>>
  PROVE  IInv'
<1>0. PICK n \in Note : n = job[j].note
  OBVIOUS
<1> DEFINE new == PendingLink(j, job[j].doc)
<1>1. /\ new \in Link /\ new # None /\ new.doc = job[j].doc /\ new.hash = Pending
      /\ new.sig # None /\ new.sig.note = n /\ job[j].doc # None
  BY <1>0, PendingIsOwn, FeishuAssumption DEF IInv
<1> HIDE DEF new
<1>2. CASE Stops(j) /\ link' = link
  BY <1>2, StopKeeps DEF disk
<1>3. ASSUME Wrote(j, new, step), link' = [link EXCEPT ![n] = new] PROVE IInv'
  <2>1. link' \in [Note -> Link \cup {None}] /\ link'[n] = new
    BY <1>1, <1>3 DEF IInv, TypeOK
  <2>2. TypeOK'
    BY <1>3, <2>1 DEF IInv, TypeOK, Wrote, client
  <2>3. Synced(n)'
    BY <1>1, <2>1 DEF Synced
  <2>4. KnownInv(j)' /\ PinInv(j)'
    BY <1>0, <1>3 DEF Wrote, KnownInv, PinInv, Transaction, Sending, Between, Unpinned, Planned, client
  <2>5. PlanInv(j)'
    BY <1>3 DEF Wrote, PlanInv, Planned, Entered
  <2>6. SendInv(j)'
    BY <1>0, <1>1, <1>3, <2>1 DEF Wrote, SendInv, Sending, PendingLink, new
  <2> QED
    BY <1>0, <1>1, <1>3, <2>2, <2>3, <2>4, <2>5, <2>6, LinkStepKeeps DEF Wrote, client
<1> QED
  BY <1>0, <1>1, <1>2, <1>3, PersistWrites DEF IInv, new

(* The mark before an update: the document is that of the note's link.      *)
LEMMA MarksKeeps ==
  ASSUME IInv, NEW j \in Job, Marks(j)
  PROVE  IInv'
<1>1. job[j].at = "mark" /\ Persist(j, PendingLink(j, job[j].doc), "again")
  BY DEF Marks, At
<1>2. /\ busy = j /\ job[j].note \in Note /\ text[job[j].note] > 0
      /\ job[j].account \in Account /\ job[j].text > 0
      /\ job[j].pin # None => job[j].pin = job[j].account \/ job[j].shaken
  BY <1>1 DEF IInv, KnownInv, PinInv, Transaction
<1>3. job[j].doc \in 1..MaxDoc /\ job[j].base # None /\ job[j].base.doc = job[j].doc
  BY <1>1 DEF IInv, TypeOK, Publication, PlanInv, Entered
<1>4. CASE link[job[j].note] = job[j].base
  <2>1. doc[job[j].doc] # None
    BY <1>2, <1>3, <1>4 DEF IInv, LinkInv
  <2> QED
    BY <1>1, <1>2, <1>3, <2>1, PendingKeeps DEF Marks, Steps
<1>5. CASE link[job[j].note] # job[j].base
  BY <1>1, <1>5, EndsStops, StopKeeps DEF IInv, Persist, Marks, disk
<1> QED
  BY <1>4, <1>5

(* The mark after a creation: the document is the note's, which wrote it.   *)
LEMMA RecordsKeeps ==
  ASSUME IInv, NEW j \in Job, Records(j)
  PROVE  IInv'
<1>1. job[j].at = "record" /\ Persist(j, PendingLink(j, job[j].doc), "insert")
  BY DEF Records, At
<1>2. /\ busy = j /\ job[j].note \in Note /\ text[job[j].note] > 0
      /\ job[j].account \in Account /\ job[j].text > 0
      /\ job[j].pin # None => job[j].pin = job[j].account \/ job[j].shaken
  BY <1>1 DEF IInv, KnownInv, PinInv, Transaction
<1>3. /\ job[j].doc \in 1..MaxDoc /\ doc[job[j].doc] # None
      /\ doc[job[j].doc].by = job[j].note
  BY <1>1 DEF IInv, TypeOK, Publication, SendInv
<1> QED
  BY <1>1, <1>2, <1>3, PendingKeeps DEF Records, Steps

(* The note says that it is published when the document is checked to hold   *)
(* its text, and nobody else writes.                                       *)
LEMMA CompletesKeeps ==
  ASSUME IInv, NEW j \in Job, Completes(j)
  PROVE  IInv'
<1>0. PICK n \in Note : n = job[j].note
  BY DEF Completes, At, IInv, KnownInv
<1> DEFINE new == [PendingLink(j, job[j].doc) EXCEPT !.hash = job[j].text]
<1>1. /\ job[j].at = "complete" /\ Persist(j, new, "idle")
      /\ UNCHANGED <<text, doc, login, cache, check, auth, switches, starts>>
  BY DEF Completes, At, client
<1>2. /\ busy = j /\ n \in Note /\ text[n] > 0 /\ job[j].account \in Account
      /\ job[j].text \in Text /\ job[j].doc \in 1..MaxDoc /\ doc[job[j].doc] # None
      /\ doc[job[j].doc].whole /\ doc[job[j].doc].text = job[j].text
  <2>1. /\ busy = j /\ text[job[j].note] > 0 /\ job[j].account \in Account /\ job[j].text > 0
    BY <1>1 DEF IInv, KnownInv, Transaction, Sending
  <2>2. /\ job[j].doc # None /\ doc[job[j].doc] # None
        /\ doc[job[j].doc].whole /\ doc[job[j].doc].text = job[j].text
    BY <1>1 DEF IInv, SendInv, Sending
  <2>3. job[j].text \in 0..MaxText /\ job[j].doc \in 1..MaxDoc \cup {None}
    BY DEF IInv, TypeOK, Publication
  <2>4. job[j].text \in Text
    BY <2>1, <2>3, FeishuAssumption DEF Text
  <2> QED
    BY <1>0, <2>1, <2>2, <2>3, <2>4
<1>3. /\ new \in Link /\ new # None /\ new.doc = job[j].doc /\ new.hash = job[j].text
      /\ new.sig # None /\ new.sig.note = n
  <2>1. PICK p \in Link, t \in Text : p = PendingLink(j, job[j].doc) /\ t = job[j].text
    BY <1>0, <1>2, PendingIsOwn DEF IInv
  <2>2. /\ [p EXCEPT !.hash = t] \in Link /\ [p EXCEPT !.hash = t].doc = p.doc
        /\ [p EXCEPT !.hash = t].hash = t /\ [p EXCEPT !.hash = t].sig = p.sig
    BY DEF Link
  <2>3. p.doc = job[j].doc /\ p.sig # None /\ p.sig.note = n
    BY <1>0, <1>2, <2>1, PendingIsOwn DEF IInv
  <2> QED
    BY <2>1, <2>2, <2>3, FeishuAssumption
<1> HIDE DEF new
<1>4. CASE link[n] # job[j].base
  BY <1>0, <1>1, <1>4, EndsStops, StopKeeps DEF IInv, Persist, disk, client
<1>5. CASE link[n] = job[j].base
  <2>1. Stops(j) /\ link' = [link EXCEPT ![n] = new]
    BY <1>0, <1>1, <1>5, EndsStops DEF IInv, Persist
  <2>2. link' \in [Note -> Link \cup {None}] /\ link'[n] = new
    BY <1>2, <1>3, <2>1 DEF IInv, TypeOK
  <2>3. TypeOK'
    BY <1>1, <2>1, <2>2 DEF IInv, TypeOK, Stops
  <2>4. Synced(n)'
    BY <1>1, <1>2, <1>3, <2>2 DEF Synced
  <2>5. KnownInv(j)' /\ PinInv(j)' /\ PlanInv(j)' /\ SendInv(j)'
    BY <2>1, IdleIsTyped
    DEF Stops, KnownInv, PinInv, PlanInv, SendInv, Transaction, Sending, Between, Planned, Entered
  <2>6. Others(j) /\ \A k \in Job \ {j} : busy = k => busy' = k
    BY <2>1 DEF Stops
  <2>7. doc[new.doc] # None /\ text[new.sig.note] > 0
    BY <1>2, <1>3
  <2> QED
    BY <1>1, <1>2, <1>3, <2>1, <2>3, <2>4, <2>5, <2>6, <2>7, LinkStepKeeps
<1> QED
  BY <1>4, <1>5

-----------------------------------------------------------------------------
(* Steps that write a document.                                            *)

(* Only the operation under way writes documents: what it writes disturbs no *)
(* other publication, and is to leave the notes' words true.                *)
LEMMA DocStepKeeps ==
  ASSUME IInv, NEW j \in Job, busy = j, NEW d \in 1..MaxDoc, NEW w \in Document,
         doc' = [doc EXCEPT ![d] = w], text[w.by] > 0, TypeOK', Others(j),
         UNCHANGED <<text, link, cache>>,
         \A n \in Note : Synced(n)',
         KnownInv(j)', PinInv(j)', PlanInv(j)', SendInv(j)'
  PROVE  IInv'
<1>1. /\ doc \in [1..MaxDoc -> Document \cup {None}] /\ doc'[d] = w /\ w # None
      /\ \A e \in 1..MaxDoc \ {d} : doc'[e] = doc[e]
  BY FeishuAssumption DEF IInv, TypeOK
<1>2. ASSUME NEW k \in Job, k # j PROVE KnownInv(k)' /\ PinInv(k)' /\ PlanInv(k)' /\ SendInv(k)'
  <2>1. job'[k] = job[k] /\ job[k].at \notin Transaction
    BY <1>2 DEF Others, IInv, KnownInv
  <2>2. KnownInv(k)'
    BY <2>1 DEF IInv, KnownInv
  <2>3. PinInv(k)' /\ PlanInv(k)'
    BY <2>1 DEF IInv, PinInv, PlanInv, Own
  <2>4. SendInv(k)'
    BY <2>1 DEF SendInv, Transaction, Sending
  <2> QED
    BY <2>2, <2>3, <2>4
<1>3. ASSUME NEW n \in Note PROVE LinkInv(n)' /\ Synced(n)'
  <2>1. link[n] # None => link[n].doc \in 1..MaxDoc
    BY DEF IInv, TypeOK, Link
  <2> QED
    BY <1>1, <2>1 DEF IInv, LinkInv
<1>4. ASSUME NEW e \in 1..MaxDoc PROVE WrittenInv(e)'
  BY <1>1 DEF IInv, WrittenInv
<1> QED
  BY <1>2, <1>3, <1>4 DEF IInv

(* The text is sent while the note says that it is being published.         *)
LEMMA UpdatesKeeps ==
  ASSUME IInv, NEW j \in Job, Updates(j)
  PROVE  IInv'
<1>1. /\ job[j].at = "update"
      /\ UNCHANGED <<text, link, login, cache, check, auth, switches, starts>>
  BY DEF Updates, At, disk, client
<1>2. PICK n \in Note, d \in 1..MaxDoc : n = job[j].note /\ d = job[j].doc
  BY <1>1 DEF IInv, TypeOK, Publication, KnownInv, SendInv, Sending
<1>3. /\ busy = j /\ text[n] > 0 /\ link[n] # None /\ link[n].hash = Pending
      /\ job[j].text \in 0..MaxText
  BY <1>1, <1>2
  DEF IInv, TypeOK, Publication, KnownInv, SendInv, Transaction, Sending
<1>4. PICK t \in {0, job[j].text} :
        /\ doc' = [doc EXCEPT ![d] = Written(j, t)]
        /\ (Goto(j, "insert") /\ busy' = busy) \/ Ends(j)
  BY <1>2 DEF Updates
<1>5. Written(j, t) \in Document /\ Written(j, t).by = n
  BY <1>2, <1>3, <1>4, FeishuAssumption DEF Written, Document
<1>6. doc' \in [1..MaxDoc -> Document \cup {None}] /\ doc'[d].by = n /\ doc'[d] # None
  BY <1>4, <1>5, FeishuAssumption DEF IInv, TypeOK
<1>7. ASSUME NEW m \in Note PROVE Synced(m)'
  BY <1>1, <1>2, <1>3, <1>4, <1>6 DEF IInv, TypeOK, Synced, Link
<1>8. CASE Stops(j)
  <2>1. TypeOK'
    BY <1>1, <1>6, <1>8 DEF IInv, TypeOK, Stops
  <2>2. KnownInv(j)' /\ PinInv(j)' /\ PlanInv(j)' /\ SendInv(j)'
    BY <1>8, IdleIsTyped
    DEF Stops, KnownInv, PinInv, PlanInv, SendInv, Transaction, Sending, Between, Planned, Entered
  <2> QED
    BY <1>1, <1>3, <1>4, <1>5, <1>7, <1>8, <2>1, <2>2, DocStepKeeps DEF Stops
<1>9. ASSUME Moves(j, "insert"), busy' = busy PROVE IInv'
  <2>1. TypeOK'
    BY <1>1, <1>6, <1>9 DEF IInv, TypeOK, Moves
  <2>2. KnownInv(j)' /\ PinInv(j)' /\ PlanInv(j)'
    BY <1>1, <1>9, MoveFields
    DEF IInv, KnownInv, PinInv, PlanInv, Transaction, Sending, Between, Unpinned, Planned, Entered
  <2>3. SendInv(j)'
    BY <1>1, <1>2, <1>6, <1>9, MoveFields DEF IInv, SendInv, Sending, PendingLink
  <2> QED
    BY <1>1, <1>3, <1>4, <1>5, <1>7, <1>9, <2>1, <2>2, <2>3, DocStepKeeps DEF Moves
<1> QED
  <2>1. "insert" \in Steps
    BY DEF Steps
  <2> QED
    BY <1>4, <1>8, <1>9, <2>1, GotoMoves, EndsStops DEF IInv

(* A new document is nobody's yet.                                         *)
LEMMA CreatesKeeps ==
  ASSUME IInv, NEW j \in Job, Creates(j)
  PROVE  IInv'
<1>1. /\ job[j].at = "create"
      /\ UNCHANGED <<text, link, login, cache, check, auth, switches, starts>>
  BY DEF Creates, At, disk, client
<1>2. PICK d \in 1..MaxDoc :
        /\ doc[d] = None /\ doc' = [doc EXCEPT ![d] = Written(j, job[j].text)]
        /\ \/ job' = [job EXCEPT ![j].at = "record", ![j].doc = d] /\ busy' = busy
           \/ Ends(j)
  BY DEF Creates
<1>3. PICK n \in Note : n = job[j].note
  BY <1>1 DEF IInv, KnownInv
<1>4. /\ busy = j /\ text[n] > 0 /\ job[j].text \in 0..MaxText /\ job \in [Job -> Publication]
  BY <1>1, <1>3 DEF IInv, TypeOK, Publication, KnownInv, Transaction
<1>5. Written(j, job[j].text) \in Document /\ Written(j, job[j].text).by = n
  BY <1>3, <1>4 DEF Written, Document
<1>6. doc' \in [1..MaxDoc -> Document \cup {None}] /\ doc'[d].by = n /\ doc'[d] # None
  BY <1>2, <1>5, FeishuAssumption DEF IInv, TypeOK
<1>7. ASSUME NEW m \in Note PROVE Synced(m)'
  <2>1. link[m] # None => link[m].doc \in 1..MaxDoc /\ link[m].doc # d
    BY <1>2 DEF IInv, TypeOK, Link, LinkInv
  <2>2. link[m] # None => doc'[link[m].doc] = doc[link[m].doc]
    BY <1>2, <2>1 DEF IInv, TypeOK
  <2> QED
    BY <1>1, <2>2 DEF IInv, Synced
<1>8. CASE Stops(j)
  <2>1. TypeOK'
    BY <1>1, <1>6, <1>8 DEF IInv, TypeOK, Stops
  <2>2. KnownInv(j)' /\ PinInv(j)' /\ PlanInv(j)' /\ SendInv(j)'
    BY <1>8, IdleIsTyped
    DEF Stops, KnownInv, PinInv, PlanInv, SendInv, Transaction, Sending, Between, Planned, Entered
  <2> QED
    BY <1>1, <1>2, <1>4, <1>5, <1>7, <1>8, <2>1, <2>2, DocStepKeeps DEF Stops
<1>9. CASE job' = [job EXCEPT ![j].at = "record", ![j].doc = d] /\ busy' = busy
  <2>1. PICK p \in Publication : p = job[j]
    BY <1>4
  <2> DEFINE next == [p EXCEPT !.at = "record", !.doc = d]
  <2>2. /\ next \in Publication /\ next.at = "record" /\ next.doc = d
        /\ next.id = p.id /\ next.note = p.note /\ next.text = p.text
        /\ next.account = p.account /\ next.pin = p.pin /\ next.shaken = p.shaken
    BY DEF Publication, Steps
  <2>3. job' = [job EXCEPT ![j] = next]
    BY <1>9, <2>1
  <2> HIDE DEF next
  <2>4. job'[j] = next /\ Others(j) /\ job' \in [Job -> Publication]
    BY <1>4, <2>2, <2>3 DEF Others
  <2>5. TypeOK'
    BY <1>1, <1>6, <1>9, <2>4 DEF IInv, TypeOK
  <2>6. KnownInv(j)' /\ PinInv(j)'
    BY <1>1, <1>9, <2>1, <2>2, <2>4
    DEF IInv, KnownInv, PinInv, Transaction, Sending, Between, Unpinned, Planned
  <2>7. PlanInv(j)' /\ SendInv(j)'
    BY <1>3, <1>6, <2>1, <2>2, <2>4, FeishuAssumption
    DEF PlanInv, SendInv, Planned, Entered, Sending
  <2> QED
    BY <1>1, <1>2, <1>4, <1>5, <1>7, <2>4, <2>5, <2>6, <2>7, DocStepKeeps
<1> QED
  BY <1>2, <1>8, <1>9, EndsStops DEF IInv

(* Images take the place of their markers in the document just written.     *)
LEMMA InsertsKeeps ==
  ASSUME IInv, NEW j \in Job, Inserts(j)
  PROVE  IInv'
<1>1. /\ job[j].at = "insert"
      /\ UNCHANGED <<text, link, login, cache, check, auth, switches, starts>>
  BY DEF Inserts, At, disk, client
<1>2. PICK n \in Note, d \in 1..MaxDoc : n = job[j].note /\ d = job[j].doc
  BY <1>1 DEF IInv, TypeOK, Publication, KnownInv, SendInv, Sending
<1>3. /\ busy = j /\ text[n] > 0 /\ link[n] # None /\ link[n].hash = Pending
      /\ doc[d] \in Document /\ doc[d].by = n
  BY <1>1, <1>2 DEF IInv, TypeOK, KnownInv, SendInv, Transaction, Sending
<1>4. CASE Stops(j) /\ doc' = doc
  BY <1>1, <1>4, StopKeeps DEF disk, client
<1>5. ASSUME doc' = [doc EXCEPT ![d].whole = TRUE], Moves(j, "verify"), busy' = busy PROVE IInv'
  <2>1. PICK o \in Document : o = doc[d]
    BY <1>3
  <2> DEFINE w == [o EXCEPT !.whole = TRUE]
  <2>2. w \in Document /\ w.by = o.by
    BY DEF Document
  <2>3. doc' = [doc EXCEPT ![d] = w]
    BY <1>5, <2>1 DEF IInv, TypeOK
  <2> HIDE DEF w
  <2>4. doc' \in [1..MaxDoc -> Document \cup {None}] /\ doc'[d].by = n /\ doc'[d] # None
    BY <1>3, <2>1, <2>2, <2>3, FeishuAssumption DEF IInv, TypeOK
  <2>5. ASSUME NEW m \in Note PROVE Synced(m)'
    BY <1>1, <1>2, <1>3, <2>3, <2>4 DEF IInv, TypeOK, Synced, Link
  <2>6. TypeOK'
    BY <1>1, <1>5, <2>4 DEF IInv, TypeOK, Moves
  <2>7. KnownInv(j)' /\ PinInv(j)' /\ PlanInv(j)'
    BY <1>1, <1>5, MoveFields
    DEF IInv, KnownInv, PinInv, PlanInv, Transaction, Sending, Between, Unpinned, Planned, Entered
  <2>8. SendInv(j)'
    BY <1>1, <1>2, <1>5, <2>4, MoveFields DEF IInv, SendInv, Sending, PendingLink
  <2> QED
    BY <1>1, <1>3, <1>5, <2>1, <2>2, <2>3, <2>5, <2>6, <2>7, <2>8, DocStepKeeps DEF Moves
<1> QED
  <2>1. "verify" \in Steps
    BY DEF Steps
  <2> QED
    BY <1>2, <1>4, <1>5, <2>1, GotoMoves, EndsStops DEF IInv, Inserts

(* Anything may fail.                                                      *)
LEMMA FailsKeeps ==
  ASSUME IInv, NEW j \in Job, Fails(j)
  PROVE  IInv'
BY EndsStops, StopKeeps DEF IInv, Fails

-----------------------------------------------------------------------------
(* The theorems.                                                           *)

(* At the start nobody publishes, and the one note there is either has no    *)
(* link, or has one of an earlier session to the document it wrote.         *)
LEMMA InitInv == Init => IInv
<1> SUFFICES ASSUME Init PROVE IInv
  OBVIOUS
<1>0. PICK n \in Note : \E old \in {None} \cup Earlier(n) :
        /\ text = [m \in Note |-> IF m = n THEN 1 ELSE 0]
        /\ link = [m \in Note |-> IF m = n THEN old ELSE None]
        /\ doc = [d \in 1..MaxDoc |->
                    IF d = 1 /\ old # None THEN [text |-> 1, whole |-> TRUE, by |-> n] ELSE None]
  BY DEF Init
<1>1. PICK old \in {None} \cup Earlier(n) :
        /\ text = [m \in Note |-> IF m = n THEN 1 ELSE 0]
        /\ link = [m \in Note |-> IF m = n THEN old ELSE None]
        /\ doc = [d \in 1..MaxDoc |->
                    IF d = 1 /\ old # None THEN [text |-> 1, whole |-> TRUE, by |-> n] ELSE None]
  BY <1>0
<1>2. /\ login \in Account /\ cache = None /\ check = None /\ auth = FALSE /\ busy = None
      /\ job = [j \in Job |-> Idle] /\ starts = 0 /\ switches = 0
  BY DEF Init
<1>3. old # None => /\ old \in Link /\ old.doc = 1 /\ old.hash = 1
                    /\ old.sig # None => old.sig.note = n
  BY <1>1, FeishuAssumption DEF Earlier, Link, Text, Signature
<1>4. [text |-> 1, whole |-> TRUE, by |-> n] \in Document
  BY FeishuAssumption DEF Document
<1>5. TypeOK
  <2>1. text \in [Note -> 0..MaxText] /\ link \in [Note -> Link \cup {None}]
    BY <1>1, <1>3, FeishuAssumption
  <2>2. doc \in [1..MaxDoc -> Document \cup {None}]
    BY <1>1, <1>4
  <2>3. job \in [Job -> Publication]
    BY <1>2, IdleIsTyped
  <2>4. starts \in 0..MaxStart /\ switches \in 0..MaxSwitch
    BY <1>2, FeishuAssumption
  <2>5. /\ login \in Account /\ {cache, check} \subseteq Account \cup {None} /\ auth \in BOOLEAN
        /\ busy \in Job \cup {None}
    BY <1>2
  <2> QED
    BY <2>1, <2>2, <2>3, <2>4, <2>5 DEF TypeOK
<1>6. ASSUME NEW j \in Job PROVE KnownInv(j) /\ PinInv(j) /\ PlanInv(j) /\ SendInv(j)
  <2>1. job[j].at = "idle" /\ job[j].pin = None
    BY <1>2, IdleIsTyped
  <2> QED
    BY <2>1 DEF KnownInv, PinInv, PlanInv, SendInv, Transaction, Sending, Between, Planned, Entered
<1>7. ASSUME NEW m \in Note PROVE LinkInv(m) /\ Synced(m)
  <2>1. text[m] = (IF m = n THEN 1 ELSE 0) /\ link[m] = (IF m = n THEN old ELSE None)
    BY <1>1
  <2>2. old # None => doc[old.doc] = [text |-> 1, whole |-> TRUE, by |-> n] /\ doc[old.doc] # None
    <3>1. 1 \in 1..MaxDoc
      BY FeishuAssumption
    <3>2. old # None => doc[1] = [text |-> 1, whole |-> TRUE, by |-> n]
      BY <1>1, <3>1
    <3> QED
      BY <1>3, <1>4, <3>2, FeishuAssumption
  <2>3. CASE m = n /\ old # None
    <3>1. text[n] = 1
      BY <2>1, <2>3
    <3> QED
      BY <1>3, <2>1, <2>2, <2>3, <3>1 DEF LinkInv, Synced
  <2>4. CASE link[m] = None
    BY <2>4 DEF LinkInv, Synced
  <2> QED
    BY <2>1, <2>3, <2>4
<1>8. ASSUME NEW d \in 1..MaxDoc PROVE WrittenInv(d)
  BY <1>1, FeishuAssumption DEF WrittenInv
<1> QED
  BY <1>5, <1>6, <1>7, <1>8 DEF IInv

(* Nor does a step that changes nothing disturb it.                         *)
LEMMA StutterKeeps ==
  ASSUME IInv, UNCHANGED vars
  PROVE  IInv'
<1>1. UNCHANGED <<text, link, doc, login, cache, check, auth, switches, busy, job, starts>>
  BY DEF vars, disk, client
<1>2. TypeOK'
  BY <1>1 DEF IInv, TypeOK
<1>3. ASSUME NEW k \in Job PROVE KnownInv(k)' /\ PinInv(k)' /\ PlanInv(k)' /\ SendInv(k)'
  BY <1>1 DEF IInv, KnownInv, PinInv, PlanInv, SendInv, Own, PendingLink
<1> QED
  BY <1>1, <1>2, <1>3, ClientStepKeeps DEF disk

(* Every step keeps the invariant.                                         *)
LEMMA NextKeeps ==
  ASSUME IInv, [Next]_vars
  PROVE  IInv'
<1>1. ASSUME NEW j \in Job, Step(j) PROVE IInv'
  <2>0. CASE ProbeEnters(j) \/ Probes(j)
    BY <2>0, ProbeEntersKeeps, ProbesKeeps
  <2>1. CASE Waits(j) \/ Reads(j) \/ WaitsAgain(j) \/ Snapshot(j) \/ Adopts(j)
    BY <2>1, WaitsKeeps, ReadsKeeps, WaitsAgainKeeps, SnapshotKeeps, AdoptsKeeps
  <2>2. CASE Enters(j) \/ Pins(j) \/ Intends(j) \/ Marks(j) \/ IntendsAgain(j) \/ Updates(j)
    BY <2>2, EntersKeeps, PinsKeeps, IntendsKeeps, MarksKeeps, IntendsAgainKeeps, UpdatesKeeps
  <2>3. CASE Creates(j) \/ Records(j) \/ Inserts(j) \/ Verifies(j) \/ Completes(j)
    BY <2>3, CreatesKeeps, RecordsKeeps, InsertsKeeps, VerifiesKeeps, CompletesKeeps
  <2> QED
    BY <1>1, <2>0, <2>1, <2>2, <2>3 DEF Step
<1>2. ASSUME NEW j \in Job, Confirms(j) \/ Fails(j) \/ \E n \in Note : Start(j, n) PROVE IInv'
  BY <1>2, ConfirmsKeeps, FailsKeeps, StartKeeps
<1>3. ASSUME NEW n \in Note, Edit(n) \/ \E m \in Note : CopyNote(n, m) PROVE IInv'
  BY <1>3, EditKeeps, CopyNoteKeeps
<1>4. CASE SwitchAccount \/ CheckConnection \/ BeginAuthorization \/ CancelAuthorization
  BY <1>4, QuietClientKeeps
<1>5. CASE Answer \/ CompleteAuthorization \/ Crash
  BY <1>5, AnswerKeeps, CompleteAuthorizationKeeps, CrashKeeps
<1>6. CASE UNCHANGED vars
  BY <1>6, StutterKeeps
<1> QED
  BY <1>1, <1>2, <1>3, <1>4, <1>5, <1>6 DEF Next

(* The inductive invariant holds in every state of every run of the plugin. *)
THEOREM FeishuInvariant == Spec => []IInv
<1>1. Init => IInv
  BY InitInv
<1>2. IInv /\ [Next]_vars => IInv'
  BY NextKeeps
<1> QED
  BY <1>1, <1>2, PTL DEF Spec

(* Notes, links, documents, the client and the publications keep their      *)
(* types: no publication is left half described.                           *)
THEOREM TypeCorrect == Spec => []TypeOK
<1>1. IInv => TypeOK
  BY DEF IInv
<1> QED
  BY <1>1, FeishuInvariant, PTL

(* A note whose frontmatter says that it was published says so truly,        *)
(* wherever publications stopped, failed or crashed.                        *)
THEOREM SyncedIsTrue == Spec => []SyncedMeansEqual
<1>1. IInv => SyncedMeansEqual
  BY DEF IInv, SyncedMeansEqual, Synced
<1> QED
  BY <1>1, FeishuInvariant, PTL

(* The commands of a publication run under the account the user confirmed,   *)
(* unless another check moved what the pin was compared with.               *)
THEOREM CommandsAreConfirmed == Spec => []PinnedIsConfirmed
<1>1. IInv => PinnedIsConfirmed
  BY DEF IInv, PinnedIsConfirmed, PinInv
<1> QED
  BY <1>1, FeishuInvariant, PTL

-----------------------------------------------------------------------------
(* What a step may not do.                                                 *)

(* Where the steps of a publication lead, those apart that look once more    *)
(* before something is sent.                                               *)
Lands(j, S) == Others(j) /\ job'[j].at \in S
Elsewhere == Steps \ {"update", "create"}

LEMMA OthersLandElsewhere ==
  ASSUME TypeOK, NEW j \in Job,
         Step(j) \/ Confirms(j) \/ Fails(j) \/ \E n \in Note : Start(j, n)
  PROVE  Lands(j, Elsewhere) \/ Intends(j) \/ IntendsAgain(j)
<1>1. ASSUME Stops(j) PROVE Lands(j, Elsewhere)
  BY <1>1, IdleIsTyped DEF Stops, Lands, Elsewhere, Steps
<1>2. ASSUME NEW step \in Elsewhere, Moves(j, step) PROVE Lands(j, Elsewhere)
  BY <1>2 DEF Moves, Lands
<1>3. ASSUME NEW step \in Elsewhere, Goto(j, step) PROVE Lands(j, Elsewhere)
  BY <1>2, <1>3, GotoMoves DEF Elsewhere
<1>4. ASSUME NEW step \in Elsewhere, NEW ok, Checked(j, ok, step) PROVE Lands(j, Elsewhere)
  BY <1>1, <1>2, <1>4, CheckedMoves DEF Elsewhere
<1>5. ASSUME Ends(j) PROVE Lands(j, Elsewhere)
  BY <1>1, <1>5, EndsStops
<1>6. ASSUME NEW new, NEW step \in Elsewhere, Persist(j, new, step) PROVE Lands(j, Elsewhere)
  BY <1>5, <1>6 DEF Persist, Lands, Others, TypeOK, Publication
<1>7. {"idle", "connect", "connecting", "read", "probe", "probing", "confirm", "destination", "checking",
       "snapshot", "adopt", "enter", "pin", "intent", "mark", "again", "record", "insert",
       "verify", "complete"} = Elsewhere
  BY DEF Elsewhere, Steps
<1>8. CASE Waits(j) \/ WaitsAgain(j) \/ Confirms(j) \/ ProbeEnters(j) \/ Probes(j) \/ Enters(j) \/ Fails(j)
  BY <1>3, <1>5, <1>7, <1>8 DEF Waits, WaitsAgain, Confirms, ProbeEnters, Probes, Enters, Fails
<1>9. CASE Snapshot(j) \/ Verifies(j)
  BY <1>4, <1>7, <1>9 DEF Snapshot, Verifies
<1>10. CASE Adopts(j) \/ Marks(j) \/ Records(j) \/ Completes(j)
  BY <1>6, <1>7, <1>10 DEF Adopts, Marks, Records, Completes
<1>11. CASE Updates(j) \/ Inserts(j)
  BY <1>3, <1>5, <1>7, <1>11 DEF Updates, Inserts
<1>12. CASE Reads(j)
  <2>1. PICK step \in {"probe", "confirm"} :
          \E t, b, d, shared, adopt :
            job' = [job EXCEPT ![j].at = step, ![j].text = t, ![j].base = b, ![j].doc = d,
                               ![j].shared = shared, ![j].adopt = adopt]
    BY <1>12 DEF Reads
  <2>2. PICK t, b, d, shared, adopt :
          job' = [job EXCEPT ![j].at = step, ![j].text = t, ![j].base = b, ![j].doc = d,
                             ![j].shared = shared, ![j].adopt = adopt]
    BY <2>1
  <2>3. PICK p \in Publication : p = job[j]
    BY DEF TypeOK
  <2> DEFINE new == [p EXCEPT !.at = step, !.text = t, !.base = b, !.doc = d,
                              !.shared = shared, !.adopt = adopt]
  <2>4. job' = [job EXCEPT ![j] = new] /\ new.at = step
    BY <2>2, <2>3 DEF Publication
  <2> HIDE DEF new
  <2> QED
    BY <1>7, <2>4 DEF Lands, Others, TypeOK
<1>13. CASE Pins(j) \/ Creates(j)
  BY <1>5, <1>7, <1>13 DEF Pins, Creates, Lands, Others, TypeOK, Publication
<1>14. ASSUME NEW n \in Note, Start(j, n) PROVE Lands(j, Elsewhere)
  BY <1>7, <1>14 DEF Start, Idle, Lands, Others, TypeOK
<1> QED
  BY <1>8, <1>9, <1>10, <1>11, <1>12, <1>13, <1>14 DEF Step

(* Nor does the client, the user or a crash make a publication send.        *)
LEMMA NobodyElseSends ==
  ASSUME TypeOK, NEW j \in Job,
         \/ UNCHANGED job \/ Answer \/ CompleteAuthorization \/ Crash
  PROVE  job'[j].at = job[j].at \/ job'[j].at \in Elsewhere
<1>1. CASE Answer
  <2>1. PICK ok \in BOOLEAN : job'[j] = Answered(j, ok)
    BY <1>1 DEF Answer
  <2>2. job[j] \in Publication
    BY DEF TypeOK
  <2> QED
    BY <2>1, <2>2, ShakenFields, IdleIsTyped DEF Answered, Elsewhere, Steps, Publication
<1>2. CASE CompleteAuthorization
  BY <1>2, ShakenFields DEF CompleteAuthorization
<1>3. CASE Crash
  BY <1>3, IdleIsTyped DEF Crash, Elsewhere, Steps
<1> QED
  BY <1>1, <1>2, <1>3

(* The last look before sending is at what the plan was made of.            *)
LEMMA LooksBeforeSending ==
  ASSUME IInv, NEW j \in Job, Intends(j) \/ IntendsAgain(j), job'[j].at \in {"update", "create"}
  PROVE  LET now == link[job[j].note] IN
         /\ text[job[j].note] = job[j].text
         /\ job'[j].at = "update" => Ownership(now) = [doc |-> job[j].doc,
                                        sig |-> Signature(job[j].note, job[j].account)]
         /\ job'[j].at = "create" => now = None \/ job[j].fresh \/ job[j].shared
<1>1. CASE Intends(j)
  <2> DEFINE step == IF job[j].doc = None THEN "create" ELSE "mark"
  <2>1. job[j].at = "intent" /\ Checked(j, IntentHolds(j), step) /\ step \in Steps
    BY <1>1 DEF Intends, At, Steps
  <2> HIDE DEF step
  <2>2. IntentHolds(j) /\ job'[j].at = step
    BY <2>1, CheckedMoves, IdleIsTyped DEF IInv, Moves, Stops
  <2>3. job'[j].at = "create" /\ job[j].doc = None
    BY <2>2 DEF step
  <2> QED
    BY <2>1, <2>2, <2>3 DEF IInv, PlanInv, Entered, IntentHolds
<1>2. CASE IntendsAgain(j)
  <2>1. job[j].at = "again" /\ IntentHolds(j) /\ job'[j].at = "update"
    BY <1>2, CheckedMoves, IdleIsTyped DEF IntendsAgain, At, Steps, IInv, Moves, Stops
  <2>2. /\ job[j].doc \in 1..MaxDoc /\ job[j].note \in Note /\ job[j].account \in Account
        /\ link[job[j].note] = PendingLink(j, job[j].doc) /\ link[job[j].note] # None
    BY <2>1 DEF IInv, TypeOK, Publication, KnownInv, SendInv, Sending, IntentHolds
  <2>3. Ownership(link[job[j].note]) = [doc |-> job[j].doc, sig |-> Own(j)]
    BY <2>2, PendingIsOwn DEF IInv, Ownership
  <2> QED
    BY <2>1, <2>3 DEF IntentHolds, Own
<1> QED
  BY <1>1, <1>2

(* What is sent is what the user confirmed and the note still says: an update *)
(* goes to the document the note is linked to, under its signed mark, and a  *)
(* document is created only where the confirmation said so.                 *)
THEOREM SendingIsConfirmed == Spec => SendsAsConfirmed
<1> DEFINE Sends(j) == job'[j].at \in {"update", "create"} /\ ~At(j, job'[j].at)
           Confirmed(j) == LET now == link[job[j].note] IN
             /\ text[job[j].note] = job[j].text
             /\ job'[j].at = "update" => Ownership(now) = [doc |-> job[j].doc,
                                            sig |-> Signature(job[j].note, job[j].account)]
             /\ job'[j].at = "create" => now = None \/ job[j].fresh \/ job[j].shared
<1>1. ASSUME IInv, [Next]_vars, NEW j \in Job, Sends(j) PROVE Confirmed(j)
  <2>1. ~(job'[j].at = job[j].at \/ job'[j].at \in Elsewhere)
    BY <1>1 DEF At, Elsewhere
  <2>2. ASSUME NEW k \in Job, Step(k) \/ Confirms(k) \/ Fails(k) \/ \E n \in Note : Start(k, n)
        PROVE  Confirmed(j)
    <3>1. CASE k # j
      <4>1. Others(k)
        BY <1>1, <2>2, OthersLandElsewhere, CheckedMoves
        DEF IInv, Lands, Intends, IntendsAgain, Moves, Stops, Steps
      <4> QED
        BY <2>1, <3>1, <4>1 DEF Others
    <3>2. CASE k = j
      <4>1. Intends(j) \/ IntendsAgain(j)
        BY <1>1, <2>1, <2>2, <3>2, OthersLandElsewhere DEF IInv, Lands
      <4> QED
        BY <1>1, <4>1, LooksBeforeSending
    <3> QED
      BY <3>1, <3>2
  <2>3. ASSUME \/ \E n \in Note : Edit(n) \/ \E m \in Note : CopyNote(n, m)
               \/ SwitchAccount \/ CheckConnection \/ BeginAuthorization \/ CancelAuthorization
               \/ UNCHANGED vars
        PROVE  UNCHANGED job
    BY <2>3
    DEF Edit, CopyNote, SwitchAccount, CheckConnection, BeginAuthorization, CancelAuthorization, vars
  <2> QED
    BY <1>1, <2>1, <2>2, <2>3, NobodyElseSends DEF IInv, Next
<1>2. IInv /\ [Next]_vars => [\A j \in Job : Sends(j) => Confirmed(j)]_vars
  BY <1>1
<1> QED
  BY <1>2, FeishuInvariant, PTL DEF Spec, SendsAsConfirmed

(* The steps that write links, and what they make of an ownership.          *)
LEMMA LinksChange ==
  ASSUME IInv, [Next]_vars, NEW n \in Note, link'[n] # link[n]
  PROVE  \/ \E m \in Note : CopyNote(m, n)
         \/ \E j \in Job : job[j].note = n /\ (Adopts(j) \/ Marks(j) \/ Records(j) \/ Completes(j))
<1>1. ASSUME NEW m \in Note, NEW k \in Note, CopyNote(m, k) PROVE k = n
  BY <1>1 DEF CopyNote, IInv, TypeOK
<1>2. ASSUME NEW j \in Job, Adopts(j) \/ Marks(j) \/ Records(j) \/ Completes(j)
      PROVE  job[j].note = n
  BY <1>2 DEF Adopts, Marks, Records, Completes, Persist, IInv, TypeOK
<1>3. ASSUME NEW j \in Job,
             \/ Waits(j) \/ Reads(j) \/ ProbeEnters(j) \/ Probes(j) \/ WaitsAgain(j) \/ Snapshot(j)
             \/ Enters(j) \/ Pins(j) \/ Intends(j) \/ IntendsAgain(j) \/ Updates(j) \/ Creates(j) \/ Inserts(j)
             \/ Verifies(j) \/ Confirms(j) \/ Fails(j) \/ \E m \in Note : Start(j, m)
      PROVE  UNCHANGED link
  BY <1>3
  DEF Waits, Reads, ProbeEnters, Probes, WaitsAgain, Snapshot, Enters, Pins, Intends, IntendsAgain, Updates,
      Creates, Inserts, Verifies, Confirms, Fails, Start, disk
<1>4. ASSUME \/ \E m \in Note : Edit(m)
             \/ SwitchAccount \/ CheckConnection \/ Answer \/ BeginAuthorization
             \/ CompleteAuthorization \/ CancelAuthorization \/ Crash \/ UNCHANGED vars
      PROVE  UNCHANGED link
  BY <1>4
  DEF Edit, SwitchAccount, CheckConnection, Answer, BeginAuthorization, CompleteAuthorization,
      CancelAuthorization, Crash, vars, disk
<1> QED
  BY <1>1, <1>2, <1>3, <1>4 DEF Next, Step

(* A note comes to own a document only by creating it or with the consent of *)
(* the user: no copy of a note overwrites the document of the original.     *)
THEOREM OwnershipIsConsented == Spec => OwnsByConsent
<1> DEFINE Comes(n) == LET own == Ownership(link'[n]) IN
             own \notin {None, Ownership(link[n])} /\ own.sig.note = n
           Consented(n) == LET own == Ownership(link'[n]) IN
             \E j \in Job : /\ job[j].note = n /\ job[j].doc = own.doc
                            /\ At(j, "adopt") \/ (At(j, "record") /\ doc[own.doc].by = n)
<1>1. ASSUME IInv, [Next]_vars, NEW n \in Note, Comes(n) PROVE Consented(n)
  <2>1. /\ link'[n] # link[n] /\ link'[n] # None /\ link'[n].sig # None
        /\ Ownership(link'[n]) = [doc |-> link'[n].doc, sig |-> link'[n].sig]
        /\ link'[n].sig.note = n
    BY <1>1 DEF Ownership
  <2>2. ASSUME NEW m \in Note, CopyNote(m, n) PROVE FALSE
    <3>1. text[n] = 0 /\ link'[n] = link[m]
      BY <1>1, <2>2 DEF CopyNote, IInv, TypeOK
    <3> QED
      BY <1>1, <2>1, <3>1 DEF IInv, LinkInv
  <2>3. ASSUME NEW j \in Job, job[j].note = n,
               NEW new, NEW step, Persist(j, new, step)
        PROVE  link[n] = job[j].base /\ link'[n] = new
    BY <1>1, <2>1, <2>3 DEF Persist, IInv, TypeOK
  <2>4. ASSUME NEW j \in Job, job[j].note = n, Adopts(j) PROVE Consented(n)
    <3>1. /\ job[j].at = "adopt"
          /\ link'[n] = [job[j].base EXCEPT !.sig = Signature(job[j].note, job[j].account)]
      BY <2>3, <2>4 DEF Adopts, At
    <3>2. job[j].base \in Link /\ job[j].base.doc = job[j].doc
      BY <1>1, <3>1 DEF IInv, TypeOK, Publication, PlanInv, Planned
    <3>3. link'[n].doc = job[j].doc
      BY <3>1, <3>2 DEF Link
    <3> QED
      BY <2>1, <2>4, <3>1, <3>3 DEF At
  <2>5. ASSUME NEW j \in Job, job[j].note = n, Marks(j) PROVE FALSE
    <3>1. job[j].at = "mark" /\ link[n] = job[j].base /\ link'[n] = PendingLink(j, job[j].doc)
      BY <2>3, <2>5 DEF Marks, At
    <3>2. /\ job[j].base # None /\ job[j].base.doc = job[j].doc /\ job[j].base.sig = Own(j)
          /\ job[j].doc \in 1..MaxDoc /\ job[j].account \in Account
      BY <1>1, <3>1 DEF IInv, TypeOK, Publication, KnownInv, PlanInv, Entered
    <3>3. link'[n].doc = job[j].doc /\ link'[n].sig = Own(j) /\ Own(j) # None
      BY <1>1, <2>5, <3>1, <3>2, PendingIsOwn DEF IInv
    <3> QED
      BY <1>1, <2>1, <3>1, <3>2, <3>3 DEF Ownership
  <2>6. ASSUME NEW j \in Job, job[j].note = n, Records(j) PROVE Consented(n)
    <3>1. job[j].at = "record" /\ link'[n] = PendingLink(j, job[j].doc)
      BY <2>3, <2>6 DEF Records, At
    <3>2. doc[job[j].doc].by = n
      BY <1>1, <2>6, <3>1 DEF IInv, SendInv
    <3>3. link'[n].doc = job[j].doc
      BY <3>1 DEF PendingLink
    <3> QED
      BY <2>1, <2>6, <3>1, <3>2, <3>3 DEF At
  <2>7. ASSUME NEW j \in Job, job[j].note = n, Completes(j) PROVE FALSE
    <3>1. /\ job[j].at = "complete" /\ link[n] = job[j].base
          /\ link'[n] = [PendingLink(j, job[j].doc) EXCEPT !.hash = job[j].text]
      BY <2>3, <2>7 DEF Completes, At
    <3>2. link[n] # None /\ link[n] = PendingLink(j, job[j].doc)
      BY <1>1, <2>7, <3>1 DEF IInv, SendInv, Sending
    <3>3. link'[n].doc = link[n].doc /\ link'[n].sig = link[n].sig
      BY <3>1, <3>2 DEF PendingLink
    <3> QED
      BY <1>1, <2>1, <3>2, <3>3 DEF Ownership
  <2> QED
    BY <1>1, <2>1, <2>2, <2>4, <2>5, <2>6, <2>7, LinksChange
<1>2. IInv /\ [Next]_vars => [\A n \in Note : Comes(n) => Consented(n)]_vars
  BY <1>1
<1> QED
  BY <1>2, FeishuInvariant, PTL DEF Spec, OwnsByConsent
=============================================================================
