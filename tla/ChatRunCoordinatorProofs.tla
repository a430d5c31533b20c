---------------------- MODULE ChatRunCoordinatorProofs ----------------------
(*****************************************************************************)
(* Proofs about ChatRunCoordinator, for any conversations and runs and any   *)
(* number of failing writes: that a run enters the runtime with nothing      *)
(* unsaved anywhere and as the one whose turn runs, that a turn asked to     *)
(* stop has its output in the store, that unsaved output is kept, and that   *)
(* a completion comes after the writes of its run.                           *)
(*****************************************************************************)
EXTENDS ChatRunCoordinator, TLAPS

Checkpoint == [draining : BOOLEAN, stopped : BOOLEAN, writes : 0..MaxWrites]

-----------------------------------------------------------------------------
(* The inductive invariant, in parts.  First the types, in four groups.      *)

LaneTypes ==
  /\ laneOf \in [Run -> Lane \cup {NoLane}]
  /\ queue \in [Lane -> Seq(Run)]
  /\ loaded \in [Lane -> {"no", "yes", "error"}]
  /\ marker \in [Lane -> Run \cup {NoRun}]
  /\ window \in [Lane -> SUBSET Run]
  /\ tail \in Seq(Run)
  /\ shutting \in BOOLEAN
  /\ circuits \subseteq Run \X Stages
  /\ faults \in 0..MaxFaults

SetTypes ==
  /\ cancelled \subseteq Run /\ open \subseteq Run /\ failed \subseteq Run
  /\ activated \subseteq Run /\ blocked \subseteq Run /\ final \subseteq Run /\ dirty \subseteq Run

Asks == {"no", "start", "late", "activation", "flush", "write", "done"}
Ends == {"completed", "cancelled", "failed"}

StateTypes ==
  /\ at \in [Run -> Steps]
  /\ initial \in [Run -> {"active", "queued"}]
  /\ asking \in [Run -> Asks]
  /\ status \in [Run -> {"none"} \cup Ends]
  /\ told \in [Run -> {"none", "paused", "interrupted"}]
  /\ turn \in [Run -> Unended \cup {"none"} \cup Ends]

CountTypes ==
  /\ claims \in [Run -> 0..MaxClaims]
  /\ arts \in [Run -> 0..MaxArts]
  /\ ckpt \in [Run -> Checkpoint]

(* The places of a run that was admitted and has not ended, and its queue.   *)
Executing == {"activate", "resume", "enter", "turn", "effects", "blocked"} \cup Closing
Mine(r) == IF laneOf[r] \in Lane THEN queue[laneOf[r]] ELSE <<>>

(* The output of a run is in the store, or a checkpoint that stopped for good*)
(* keeps the rest in memory; or this is so once the one that drains is done. *)
Saved(r) == ~ckpt[r].draining /\ (r \notin dirty \/ ckpt[r].stopped)
Saving(r) == ckpt[r].draining \/ r \notin dirty \/ ckpt[r].stopped

(* A run that waits for the global start is in its tail; the one that starts *)
(* is at its head.                                                           *)
TailInv ==
  /\ \A r \in Run : at[r] \in {"tail", "start"} => \E i \in DOMAIN tail : tail[i] = r
  /\ \A r \in Run : at[r] = "start" => tail[1] = r

(* A run that was not submitted has left no trace.                           *)
FreshInv ==
  \A r \in Run : at[r] = "none" =>
    /\ laneOf[r] = NoLane /\ turn[r] = "none" /\ told[r] = "none"
    /\ r \notin cancelled \cup open \cup activated \cup dirty \cup final
    /\ asking[r] = "no" /\ ckpt[r].draining = FALSE

(* The queue of a conversation: whoever has not ended is in it, once; only   *)
(* the first has got past its admission; and a stop of the conversation      *)
(* reaches whoever is before a run that it reaches.                          *)
QueueInv ==
  /\ \A r \in Run : at[r] # "none" => laneOf[r] \in Lane
  /\ \A r \in Run : at[r] \notin {"none"} \cup Over => \E i \in DOMAIN Mine(r) : Mine(r)[i] = r
  /\ \A l \in Lane : \A i \in DOMAIN queue[l] : laneOf[queue[l][i]] = l
  /\ \A l \in Lane : \A i, j \in DOMAIN queue[l] : queue[l][i] = queue[l][j] => i = j
  /\ \A l \in Lane : \A i \in DOMAIN queue[l] : i > 1 =>
       /\ initial[queue[l][i]] = "queued" /\ queue[l][i] \notin activated
       /\ at[queue[l][i]] \in Admission \cup {"admitted", "rejected"}
  /\ \A l \in Lane : \A i, j \in DOMAIN queue[l] :
       i < j /\ queue[l][j] \in cancelled /\ at[queue[l][i]] \notin Closing \cup Over
         => queue[l][i] \in cancelled

(* What the place of a run tells of its turn, its side effects, the stop that*)
(* was asked for and the status it ends with.                                *)
StageInv ==
  /\ \A r \in Run : claims[r] > 0 \/ arts[r] > 0 => at[r] \in {"turn", "effects"}
  /\ \A r \in Run : at[r] \in Admission =>
       turn[r] = "none" /\ r \notin activated
  /\ \A r \in Run : at[r] \in {"admitted"} \cup Executing =>
       turn[r] \in Unended /\ (initial[r] = "active" => r \in activated)
  /\ \A r \in Run : at[r] \in {"resume", "enter"} => r \in activated
  /\ \A r \in activated : at[r] \notin Over /\ r \notin cancelled => turn[r] = "active"
  /\ \A r \in Run : told[r] # "none" => at[r] = "done"
  /\ \A r \in Run : told[r] = "interrupted" => r \in activated
  /\ \A r \in Run : at[r] = "rejected" => turn[r] # "cancelRequested" /\ asking[r] \in {"no", "done"}
  /\ \A r \in Run : at[r] = "final" =>
       status[r] # "none" /\ (r \in cancelled => status[r] = "cancelled")
  /\ \A r \in Run : at[r] = "flush" =>
       status[r] # "none" /\ (r \in cancelled => status[r] = "cancelled")
  /\ \A r \in Run : at[r] = "settle" => status[r] # "none"

(* A stop closes the run first, then drains its output, then writes the      *)
(* request: the turn is asked to stop only once the output is in the store.  *)
StopInv ==
  /\ \A r \in Run : asking[r] # "no" => r \in cancelled
  /\ \A r \in Run : r \in cancelled => r \notin open
  /\ \A r \in Run : turn[r] = "cancelRequested" => r \in cancelled /\ Saved(r)
  /\ \A r \in Run : asking[r] = "flush" => Saving(r)
  /\ \A r \in Run : asking[r] = "write" => Saved(r)

(* A run that ends has its side effects and its output behind it.            *)
EndInv ==
  /\ \A r \in Run : at[r] = "flush" => Quiet(r) /\ Saving(r)
  /\ \A r \in Run : at[r] = "final" => Quiet(r) /\ Saved(r)
  /\ \A r \in Run : at[r] = "done" /\ told[r] = "none" => Quiet(r) /\ ~ckpt[r].draining

(* A marker names a run that has ended   with something unsaved; nothing of  *)
(* its conversation executes meanwhile; and what ended without a final write *)
(* is kept in the window behind its circuit.                                 *)
SaveInv ==
  /\ \A l \in Lane : marker[l] # NoRun =>
       LET x == marker[l] IN
       /\ laneOf[x] = l /\ at[x] = "done" /\ told[x] = "none"
       /\ PersistenceError(x) \/ SessionError(x)
  /\ \A r \in Run : at[r] \in Executing /\ marker[laneOf[r]] # NoRun => at[r] = "blocked"
  /\ \A r \in final : at[r] = "done" /\ told[r] = "none" /\ turn[r] = status[r]
  /\ \A r \in Run : at[r] = "done" /\ told[r] = "none" /\ r \notin final =>
       r \in window[laneOf[r]] /\ marker[laneOf[r]] = r

(* One turn of a conversation runs at a time, and none beside a turn that ran*)
(* and is asked to stop.                                                     *)
ActiveInv ==
  /\ \A r \in Run : turn[r] = "active" => \A q \in Mates(r) : turn[q] # "active"
  /\ \A q \in activated : turn[q] \in {"active", "cancelRequested"} =>
       \A r \in Mates(q) : turn[r] # "active"
  /\ \A q \in activated : turn[q] # "queued"
-----------------------------------------------------------------------------
(* Lemmas about the operators: sequences, and what a write does.             *)

(* The names of places and turns that the actions use are among the types.   *)
LEMMA StateNames ==
  /\ {"load", "tail", "start", "settle", "flush", "final", "none", "admitted", "activate", "resume",
      "enter", "turn", "effects", "blocked", "done", "rejected"} \subseteq Steps
  /\ {"no", "start", "late", "activation", "flush", "write", "done"} \subseteq Asks
  /\ {"completed", "cancelled", "failed"} \subseteq Ends
  /\ {"queued", "active", "cancelRequested"} \subseteq Unended
BY DEF Steps, Admission, Closing, Asks, Ends, Unended

(* An append keeps what was there and adds one at the end.                   *)
LEMMA AppendIs ==
  ASSUME NEW S, NEW t \in Seq(S), NEW r \in S
  PROVE  /\ Append(t, r) \in Seq(S)
         /\ \A i \in DOMAIN t : i \in DOMAIN Append(t, r) /\ Append(t, r)[i] = t[i]
         /\ Len(t) + 1 \in DOMAIN Append(t, r) /\ Append(t, r)[Len(t) + 1] = r
         /\ \A i \in DOMAIN Append(t, r) : i \in DOMAIN t \/ i = Len(t) + 1
         /\ \A i \in DOMAIN t : i \in Nat /\ i >= 1 /\ i < Len(t) + 1
         /\ t # <<>> => Len(t) + 1 > 1 /\ 1 \in DOMAIN t
         /\ t = <<>> => Len(t) + 1 = 1
<1>1. DOMAIN Append(t, r) = 1..Len(t) + 1 /\ DOMAIN t = 1..Len(t) /\ Len(t) \in Nat
  OBVIOUS
<1>2. \A i \in DOMAIN Append(t, r) : i \in DOMAIN t \/ i = Len(t) + 1
  BY <1>1
<1> QED BY <1>1, <1>2

(* A tail is the sequence without its first, moved by one.                   *)
LEMMA TailIs ==
  ASSUME NEW S, NEW t \in Seq(S), t # <<>>
  PROVE  /\ Tail(t) \in Seq(S)
         /\ 1 \in DOMAIN t /\ Head(t) = t[1] /\ t[1] \in S
         /\ \A i \in DOMAIN Tail(t) : i \in Nat /\ i >= 1 /\ i + 1 \in DOMAIN t /\ Tail(t)[i] = t[i + 1]
         /\ \A i \in DOMAIN t : i = 1 \/ (i - 1 \in DOMAIN Tail(t) /\ Tail(t)[i - 1] = t[i])
OBVIOUS

(* What the next write of a checkpoint leaves: it drains exactly when it writes.*)
LEMMA NextWriteIs ==
  ASSUME NEW r, NEW c \in Checkpoint, NEW ds, NEW n, n = NextWrite(r, c, r \in ds)
  PROVE  \/ /\ n.stopped \/ r \notin ds
            /\ n \in Checkpoint /\ ~n.draining /\ n.writes = c.writes
         \/ /\ r \in ds /\ ~c.stopped
            /\ n \in Checkpoint /\ n.stopped /\ n.writes = c.writes
         \/ /\ r \in ds /\ ~c.stopped
            /\ n \in Checkpoint /\ n.draining /\ n.writes > c.writes
<1> USE ChatAssumption
<1>1. CASE c.stopped \/ r \notin ds
  <2>1. n = [c EXCEPT !.draining = FALSE]
    BY <1>1 DEF NextWrite, Checkpoint
  <2> QED BY ONLY <1>1, <2>1, c \in Checkpoint DEF Checkpoint
<1>2. CASE ~c.stopped /\ r \in ds /\ c.writes >= MaxWrites
  <2>1. n = [c EXCEPT !.draining = FALSE, !.stopped = TRUE]
    BY <1>2 DEF NextWrite, Checkpoint
  <2> QED BY ONLY <1>2, <2>1, c \in Checkpoint DEF Checkpoint
<1>3. CASE ~c.stopped /\ r \in ds /\ ~(c.writes >= MaxWrites)
  <2>1. n = [c EXCEPT !.draining = TRUE, !.writes = @ + 1]
    BY <1>3 DEF NextWrite, Checkpoint
  <2>2. c.writes \in Nat /\ c.writes + 1 \in 0..MaxWrites
    BY <1>3 DEF Checkpoint
  <2>3. n \in Checkpoint
    BY ONLY <2>1, <2>2, c \in Checkpoint DEF Checkpoint
  <2>4. n.draining = TRUE /\ n.writes = c.writes + 1
    BY ONLY <2>1, c \in Checkpoint DEF Checkpoint
  <2>5. n.writes > c.writes
    BY ONLY <2>2, <2>4
  <2> QED BY ONLY <1>3, <2>3, <2>4, <2>5
<1> QED BY <1>1, <1>2, <1>3

(* The next write touches one run: its mark of newer output and its checkpoint.*)
LEMMA WriteNextIs ==
  ASSUME NEW r \in Run, NEW c \in Checkpoint, NEW ds \in SUBSET Run,
         ckpt \in [Run -> Checkpoint], WriteNext(r, c, ds)
  PROVE  /\ ckpt' \in [Run -> Checkpoint] /\ dirty' \in SUBSET Run
         /\ \A q \in Run \ {r} : ckpt'[q] = ckpt[q] /\ (q \in dirty' <=> q \in ds)
         /\ ckpt'[r].draining \/ r \notin dirty' \/ ckpt'[r].stopped
         /\ c.stopped \/ r \notin ds =>
              /\ ~ckpt'[r].draining /\ dirty' = ds
<1>0. PICK n : n = NextWrite(r, c, r \in ds)
  OBVIOUS
<1>1. \/ /\ n.stopped \/ r \notin ds
         /\ n \in Checkpoint /\ ~n.draining /\ n.writes = c.writes
      \/ /\ r \in ds /\ ~c.stopped
         /\ n \in Checkpoint /\ n.stopped /\ n.writes = c.writes
      \/ /\ r \in ds /\ ~c.stopped
         /\ n \in Checkpoint /\ n.draining /\ n.writes > c.writes
  BY <1>0, NextWriteIs
<1>2. ckpt' = [ckpt EXCEPT ![r] = n] /\ dirty' = IF n.writes > c.writes THEN ds \ {r} ELSE ds
  BY <1>0 DEF WriteNext
<1>3. c.writes \in Nat
  BY ChatAssumption DEF Checkpoint
<1>4. ckpt'[r] = n /\ ckpt' \in [Run -> Checkpoint] /\ \A q \in Run \ {r} : ckpt'[q] = ckpt[q]
  BY <1>1, <1>2
<1>5. dirty' = IF n.writes > c.writes THEN ds \ {r} ELSE ds
  BY <1>2
<1>6. CASE n.writes = c.writes
  <2>1. dirty' = ds BY <1>3, <1>5, <1>6
  <2>2. ~(n.writes > c.writes) BY <1>3, <1>6
  <2>3. \/ (n.stopped \/ r \notin ds) /\ ~n.draining
        \/ r \in ds /\ ~c.stopped /\ n.stopped
    BY ONLY <1>1, <2>2
  <2>4. n \in Checkpoint BY ONLY <1>1
  <2>5. /\ ckpt' \in [Run -> Checkpoint] /\ dirty' \in SUBSET Run
        /\ \A q \in Run \ {r} : ckpt'[q] = ckpt[q] /\ (q \in dirty' <=> q \in ds)
    BY <1>4, <2>1, <2>4
  <2>6. ckpt'[r].draining \/ r \notin dirty' \/ ckpt'[r].stopped
    BY <1>4, <2>1, <2>3
  <2>7. c.stopped \/ r \notin ds => ~ckpt'[r].draining /\ dirty' = ds
    BY <1>4, <2>1, <2>3
  <2> QED BY <2>5, <2>6, <2>7
<1>7. CASE n.writes > c.writes
  <2>1. dirty' = ds \ {r} BY <1>5, <1>7
  <2>2. n.writes # c.writes BY <1>3, <1>7
  <2> QED BY <1>1, <1>4, <2>1, <2>2
<1> QED BY <1>1, <1>6, <1>7

(* A flush leaves the run draining, or with nothing to drain.                *)
LEMMA FlushFromIs ==
  ASSUME NEW r \in Run, NEW ds \in SUBSET Run,
         ckpt \in [Run -> Checkpoint], FlushFrom(r, ds)
  PROVE  /\ ckpt' \in [Run -> Checkpoint] /\ dirty' \in SUBSET Run
         /\ \A q \in Run \ {r} : ckpt'[q] = ckpt[q] /\ (q \in dirty' <=> q \in ds)
         /\ ckpt'[r].draining \/ r \notin dirty' \/ ckpt'[r].stopped
         /\ ~ckpt[r].draining /\ (ckpt[r].stopped \/ r \notin ds) =>
              /\ ~ckpt'[r].draining /\ dirty' = ds
<1>1. CASE ckpt[r].draining
  BY <1>1 DEF FlushFrom
<1>2. CASE ~ckpt[r].draining
  <2>1. WriteNext(r, ckpt[r], ds) BY <1>2 DEF FlushFrom
  <2> QED BY <1>2, <2>1, WriteNextIs
<1> QED BY <1>1, <1>2

(* What a write, or a flush that may begin one, does to the checkpoints: it  *)
(* is about one run, newer output is on its way, and what is saved stays so. *)
Written(r) ==
  /\ ckpt' \in [Run -> Checkpoint] /\ dirty' \subseteq Run
  /\ \A q \in Run \ {r} : ckpt'[q] = ckpt[q] /\ (q \in dirty' <=> q \in dirty)
  /\ ckpt'[r].draining \/ r \notin dirty' \/ ckpt'[r].stopped

KeepsSaved(r) ==
  ~ckpt[r].draining /\ (r \notin dirty \/ ckpt[r].stopped)
    => ~ckpt'[r].draining /\ (r \notin dirty' \/ ckpt'[r].stopped)

(* A flush keeps the types and all that is saved.                            *)
LEMMA FlushWrites ==
  ASSUME SetTypes, CountTypes, NEW r \in Run, FlushFrom(r, dirty)
  PROVE  Written(r) /\ KeepsSaved(r)
<1>1. /\ dirty \in SUBSET Run /\ ckpt \in [Run -> Checkpoint]
  BY DEF SetTypes, CountTypes
<1>2. Written(r)
  BY <1>1, FlushFromIs DEF Written
<1>3. ASSUME ~ckpt[r].draining, r \notin dirty \/ ckpt[r].stopped
      PROVE  ~ckpt'[r].draining /\ (r \notin dirty' \/ ckpt'[r].stopped)
  BY <1>1, <1>2, <1>3, FlushFromIs DEF Written
<1> QED BY <1>2, <1>3 DEF KeepsSaved

(* So does a checkpoint that is due.                                         *)
LEMMA DueWrites ==
  ASSUME SetTypes, CountTypes, NEW r \in Run, CheckpointDue(r)
  PROVE  /\ UNCHANGED <<lanevars, runvars, asking, claims, arts, circuits, turn, faults>>
         /\ at[r] \notin Over /\ ~ckpt[r].draining /\ r \in dirty /\ ~ckpt[r].stopped
         /\ Written(r) /\ KeepsSaved(r)
BY FlushWrites DEF CheckpointDue

(* The answer to a write: it stops the checkpoint for good or writes the rest.*)
LEMMA DoneWrites ==
  ASSUME SetTypes, CountTypes, NEW r \in Run, CheckpointDone(r)
  PROVE  /\ UNCHANGED <<lanevars, runvars, asking, claims, arts, turn>>
         /\ ckpt[r].draining
         /\ Written(r) /\ KeepsSaved(r)
<1>1. PICK c \in Checkpoint : WriteNext(r, c, dirty)
  BY DEF CheckpointDone, CountTypes, Checkpoint
<1>2. Written(r)
  BY <1>1, WriteNextIs DEF SetTypes, CountTypes, Written
<1>3. UNCHANGED <<lanevars, runvars, asking, claims, arts, turn>> /\ ckpt[r].draining
  BY DEF CheckpointDone
<1> QED BY <1>2, <1>3 DEF KeepsSaved

(* The steps of a request to stop that flush the output.                     *)
LEMMA AskWrites ==
  ASSUME SetTypes, CountTypes, NEW r \in Run, AskAfterStart(r) \/ AskAfterActivation(r)
  PROVE  /\ UNCHANGED <<lanevars, runvars, claims, arts, circuits, turn, faults>>
         /\ asking[r] \in {"start", "late", "activation"}
         /\ \/ asking' = [asking EXCEPT ![r] = "activation"] /\ UNCHANGED <<dirty, ckpt>>
            \/ asking' = [asking EXCEPT ![r] = "flush"] /\ Written(r) /\ KeepsSaved(r)
BY FlushWrites DEF AskAfterStart, AskAfterActivation, AskTo

(* The flush at the end of a run.                                            *)
LEMMA FinalizeWrites ==
  ASSUME SetTypes, CountTypes, NEW r \in Run, FinalizeRun(r)
  PROVE  /\ UNCHANGED <<lanevars, initial, cancelled, open, failed, activated, blocked, final, told,
                        asking, claims, arts, circuits, turn, faults>>
         /\ at[r] = "settle" /\ Quiet(r) /\ at' = [at EXCEPT ![r] = "flush"]
         /\ status' = [status EXCEPT ![r] = IF r \in cancelled THEN "cancelled" ELSE status[r]]
         /\ Written(r) /\ (r \in cancelled => KeepsSaved(r))
<1>1. ASSUME FlushFrom(r, dirty \cup {r}) PROVE Written(r)
  <2> DEFINE ds == dirty \cup {r}
  <2>1. ds \in SUBSET Run /\ ckpt \in [Run -> Checkpoint] /\ \A q \in Run \ {r} : q \in ds <=> q \in dirty
    BY DEF SetTypes, CountTypes
  <2>2. FlushFrom(r, ds) BY <1>1
  <2> HIDE DEF ds
  <2> QED BY <2>1, <2>2, FlushFromIs DEF Written
<1> QED BY <1>1, FlushWrites DEF FinalizeRun, Go, Stamp

-----------------------------------------------------------------------------
(* What an answer to an admission does, all of it to its own run.            *)
AdmissionMoves(r) ==
  \/ /\ at'[r] = "rejected" /\ turn'[r] \in {turn[r], initial[r]} /\ UNCHANGED <<initial, activated>>
     /\ asking'[r] \in {"no", "done"} /\ (asking[r] = "no" => asking'[r] = "no") /\ r \notin open'
  \/ /\ at'[r] \in {"tail", "start"} /\ initial'[r] \in {initial[r], "queued"}
     /\ UNCHANGED <<turn, asking, open, activated>>
  \/ /\ at[r] = "start" /\ at'[r] = "admitted" /\ turn'[r] = initial[r] /\ UNCHANGED <<initial, asking, open>>
     /\ activated' = IF initial[r] = "active" THEN activated \cup {r} ELSE activated

(* The admission of a run, as AdmissionMoves says.                           *)
LEMMA AdmissionIs ==
  ASSUME StateTypes, NEW r \in Run, AdmitRun(r) \/ StartRun(r) \/ Started(r)
  PROVE  /\ UNCHANGED <<laneOf, queue, loaded, marker, window, cancelled, final, told,
                        claims, arts, dirty, ckpt, circuits>>
         /\ at[r] \in Admission
         /\ \A q \in Run \ {r} : /\ at'[q] = at[q] /\ turn'[q] = turn[q] /\ initial'[q] = initial[q]
                                 /\ asking'[q] = asking[q] /\ status'[q] = status[q]
                                 /\ (q \in open' <=> q \in open)
                                 /\ (q \in activated' <=> q \in activated)
         /\ AdmissionMoves(r)
<1>1. ASSUME Reject(r)
      PROVE  /\ at'[r] = "rejected" /\ r \notin open'
             /\ asking'[r] \in {"no", "done"} /\ (asking[r] = "no" => asking'[r] = "no")
             /\ \A q \in Run \ {r} : /\ at'[q] = at[q] /\ asking'[q] = asking[q] /\ status'[q] = status[q]
                                     /\ (q \in open' <=> q \in open)
  BY <1>1 DEF Reject, Go, Stamp, StateTypes
<1>2. CASE AdmitRun(r)
  <2>1. /\ UNCHANGED <<laneOf, queue, loaded, marker, window, initial, cancelled, activated, final, told,
                       claims, arts, dirty, ckpt, circuits, turn>>
        /\ at[r] = "load"
        /\ Reject(r) \/ (Go(r, "tail") /\ UNCHANGED <<status, open, asking>>)
    BY <1>2 DEF AdmitRun
  <2>2. CASE Reject(r)
    BY <1>1, <2>1, <2>2 DEF AdmissionMoves, Admission
  <2>3. CASE Go(r, "tail") /\ UNCHANGED <<status, open, asking>>
    BY <2>1, <2>3 DEF Go, AdmissionMoves, Admission, StateTypes
  <2> QED BY <2>1, <2>2, <2>3
<1>3. CASE StartRun(r)
  <2>1. /\ UNCHANGED <<laneOf, queue, loaded, marker, window, cancelled, activated, final, told,
                       claims, arts, dirty, ckpt, circuits, turn>>
        /\ at[r] = "tail"
        /\ \/ Reject(r) /\ UNCHANGED initial
           \/ /\ initial' = [initial EXCEPT ![r] = IF r \in cancelled THEN "queued" ELSE @]
              /\ Go(r, "start") /\ UNCHANGED <<status, open, asking>>
    BY <1>3 DEF StartRun
  <2>2. CASE Reject(r) /\ UNCHANGED initial
    BY <1>1, <2>1, <2>2 DEF AdmissionMoves, Admission
  <2>3. CASE /\ initial' = [initial EXCEPT ![r] = IF r \in cancelled THEN "queued" ELSE @]
             /\ Go(r, "start") /\ UNCHANGED <<status, open, asking>>
    BY <2>1, <2>3 DEF Go, AdmissionMoves, Admission, StateTypes
  <2> QED BY <2>1, <2>2, <2>3
<1>4. CASE Started(r)
  <2>1. /\ UNCHANGED <<laneOf, queue, loaded, marker, window, cancelled, initial, final, told,
                       claims, arts, dirty, ckpt, circuits>>
        /\ at[r] = "start"
        /\ \/ /\ Reject(r) /\ UNCHANGED activated
              /\ (UNCHANGED turn \/ TurnTo(r, initial[r]))
           \/ /\ TurnTo(r, initial[r]) /\ Go(r, "admitted") /\ UNCHANGED <<status, open, asking>>
              /\ activated' = IF initial[r] = "active" THEN activated \cup {r} ELSE activated
    BY <1>4 DEF Started, FaultAfter
  <2>2. CASE /\ Reject(r) /\ UNCHANGED activated
             /\ (UNCHANGED turn \/ TurnTo(r, initial[r]))
    BY <1>1, <2>1, <2>2 DEF AdmissionMoves, Admission, TurnTo, StateTypes
  <2>3. CASE /\ TurnTo(r, initial[r]) /\ Go(r, "admitted") /\ UNCHANGED <<status, open, asking>>
             /\ activated' = IF initial[r] = "active" THEN activated \cup {r} ELSE activated
    BY <2>1, <2>3 DEF Go, AdmissionMoves, Admission, TurnTo, StateTypes
  <2> QED BY <2>1, <2>2, <2>3
<1> QED BY <1>2, <1>3, <1>4

(* What the steps of an execution before its end do: they block, end or go   *)
(* on.  A first step goes anywhere but to "blocked" only if no circuit is open.*)
ExecutionMoves(r) ==
  /\ \/ at'[r] = "blocked" /\ UNCHANGED <<status, open>>
     \/ at'[r] = "settle" /\ status'[r] \in Ends /\ open' = open \ {r}
     \/ at'[r] \in {"activate", "resume", "enter", "turn"} /\ UNCHANGED <<status, open>>
  /\ at[r] = "admitted" => at'[r] = "blocked" \/ circuits = {}

(* The execution of a run up to the runtime: open circuits block it.         *)
LEMMA ExecutionIs ==
  ASSUME StateTypes, NEW r \in Run, ExecuteRun(r) \/ Activated(r) \/ Resumed(r) \/ EnterRuntime(r)
  PROVE  /\ UNCHANGED <<lanevars, initial, cancelled, final, told, fxvars>>
         /\ at[r] \in {"admitted", "activate", "resume", "enter"}
         /\ \A q \in Run \ {r} : /\ at'[q] = at[q] /\ status'[q] = status[q]
                                 /\ (q \in activated' <=> q \in activated)
         /\ ExecutionMoves(r)
         /\ at[r] = "admitted" => Head(queue[laneOf[r]]) = r
         /\ circuits' = circuits \/ circuits' = circuits \cup {<<r, "activation">>}
<1> USE DEF StateTypes
<1>1. ASSUME Block(r), UNCHANGED <<status, open>>
      PROVE  ExecutionMoves(r) /\ \A q \in Run \ {r} : at'[q] = at[q] /\ status'[q] = status[q]
  BY <1>1 DEF Block, Go, ExecutionMoves
<1>2. ASSUME NEW st \in Ends, Settle(r, st), at[r] = "admitted" => circuits = {}
      PROVE  ExecutionMoves(r) /\ \A q \in Run \ {r} : at'[q] = at[q] /\ status'[q] = status[q]
  BY <1>2 DEF Settle, Go, Stamp, ExecutionMoves
<1>3. ASSUME NEW step \in {"activate", "resume", "enter", "turn"}, Go(r, step), UNCHANGED <<status, open>>,
             at[r] = "admitted" => circuits = {}
      PROVE  ExecutionMoves(r) /\ \A q \in Run \ {r} : at'[q] = at[q] /\ status'[q] = status[q]
  BY <1>3 DEF Go, ExecutionMoves
<1>4. ASSUME BlockOrCancel(r)
      PROVE  ExecutionMoves(r) /\ \A q \in Run \ {r} : at'[q] = at[q] /\ status'[q] = status[q]
  BY <1>1, <1>2, <1>4 DEF BlockOrCancel, ShouldBlock, Ends
<1>5. CASE ExecuteRun(r)
  <2>1. /\ UNCHANGED <<lanevars, initial, cancelled, activated, final, told, fxvars, circuits>>
        /\ at[r] = "admitted" /\ Head(queue[laneOf[r]]) = r
        /\ \/ BlockOrCancel(r)
           \/ /\ circuits = {} /\ UNCHANGED <<status, open>>
              /\ Go(r, "activate") \/ Go(r, "resume")
    BY <1>5 DEF ExecuteRun, Clear, ShouldBlock
  <2> QED BY <1>3, <1>4, <2>1 DEF lanevars
<1>6. CASE Activated(r)
  <2>1. /\ UNCHANGED <<lanevars, initial, cancelled, final, told, fxvars>>
        /\ at[r] = "activate"
        /\ circuits' = circuits \/ circuits' = circuits \cup {<<r, "activation">>}
        /\ activated' = activated \/ activated' = activated \cup {r}
        /\ \/ BlockOrCancel(r)
           \/ Go(r, "resume") /\ UNCHANGED <<status, open>>
           \/ Settle(r, "failed")
    BY <1>6 DEF Activated, Opened
  <2> QED BY <1>2, <1>3, <1>4, <2>1 DEF lanevars, Ends
<1>7. CASE Resumed(r)
  <2>1. /\ UNCHANGED <<lanevars, initial, cancelled, activated, final, told, fxvars, circuits>>
        /\ at[r] = "resume"
        /\ \/ Block(r) /\ UNCHANGED <<status, open>>
           \/ Go(r, "enter") /\ UNCHANGED <<status, open>>
           \/ Settle(r, "failed")
    BY <1>7 DEF Resumed
  <2> QED BY <1>1, <1>2, <1>3, <2>1 DEF lanevars, Ends
<1>8. CASE EnterRuntime(r)
  <2>1. /\ UNCHANGED <<lanevars, initial, cancelled, activated, final, told, fxvars, circuits>>
        /\ at[r] = "enter"
        /\ \/ Block(r) /\ UNCHANGED <<status, open>>
           \/ Go(r, "turn") /\ UNCHANGED <<status, open>>
           \/ Settle(r, "cancelled")
    BY <1>8 DEF EnterRuntime
  <2> QED BY <1>1, <1>2, <1>3, <2>1 DEF lanevars, Ends
<1> QED BY <1>5, <1>6, <1>7, <1>8

(* The queue of a lane keeps its order when a run in it moves on: as one that*)
(* is not first only within the admission, and never back.                   *)
LEMMA QueueStays ==
  ASSUME LaneTypes, StateTypes, QueueInv, NEW r \in Run, UNCHANGED <<laneOf, queue, cancelled>>,
         \A q \in Run \ {r} : /\ at'[q] = at[q] /\ initial'[q] = initial[q]
                              /\ (q \in activated' <=> q \in activated),
         at[r] # "none" /\ at'[r] # "none" /\ at[r] \notin Over,
         at[r] \in Closing => at'[r] \in Closing \cup Over,
         \/ /\ initial'[r] \in {initial[r], "queued"}
            /\ r \in activated' => r \in activated \/ initial[r] = "active"
            /\ at'[r] \in Admission \cup {"admitted", "rejected"}
         \/ \A l \in Lane : \A i \in DOMAIN queue[l] : i > 1 => queue[l][i] # r
  PROVE  QueueInv'
<1>1. \A l \in Lane : \A i \in DOMAIN queue[l] : queue[l][i] \in Run
  BY DEF LaneTypes
<1>2. \A q \in Run : at'[q] # "none" => at[q] # "none"
  OBVIOUS
<1>3. \A q \in Run : at'[q] \notin {"none"} \cup Over => at[q] \notin {"none"} \cup Over
  OBVIOUS
<1>4. \A q \in Run : Mine(q)' = Mine(q)
  BY DEF Mine
<1>5. \A q \in Run : at'[q] \notin Closing \cup Over => at[q] \notin Closing \cup Over
  OBVIOUS
<1>6. (\A q \in Run : at[q] # "none" => laneOf[q] \in Lane)'
  BY <1>2 DEF QueueInv
<1>7. (\A q \in Run : at[q] \notin {"none"} \cup Over => \E i \in DOMAIN Mine(q) : Mine(q)[i] = q)'
  BY <1>3, <1>4 DEF QueueInv
<1>8. (\A l \in Lane : \A i \in DOMAIN queue[l] : i > 1 =>
         /\ initial[queue[l][i]] = "queued" /\ queue[l][i] \notin activated
         /\ at[queue[l][i]] \in Admission \cup {"admitted", "rejected"})'
  BY <1>1 DEF QueueInv
<1>9. (\A l \in Lane : \A i, j \in DOMAIN queue[l] :
         i < j /\ queue[l][j] \in cancelled /\ at[queue[l][i]] \notin Closing \cup Over
           => queue[l][i] \in cancelled)'
  BY <1>1, <1>5 DEF QueueInv
<1> QED BY <1>6, <1>7, <1>8, <1>9 DEF QueueInv

-----------------------------------------------------------------------------
(* The invariant is kept, part by part and action by action.                 *)

(* Every step keeps the types of the lanes.                                  *)
LEMMA LaneStep ==
  ASSUME LaneTypes, TailInv,
         [Next]_vars
  PROVE  LaneTypes'
<1>1. ASSUME NEW r \in Run, NEW l \in Lane, Submit(r, l) PROVE LaneTypes'
  BY <1>1, ChatAssumption DEF LaneTypes, Submit
<1>2. ASSUME NEW r \in Run, AdmitRun(r) PROVE LaneTypes'
  <2>1. tail' \in {tail, Append(tail, r)}
    BY <1>2 DEF AdmitRun
  <2>2. Append(tail, r) \in Seq(Run)
    BY AppendIs DEF LaneTypes
  <2> QED BY <1>2, <2>1, <2>2 DEF LaneTypes, AdmitRun
<1>3. ASSUME NEW r \in Run, StartRun(r) PROVE LaneTypes'
  <2>1. tail # <<>>
    BY <1>3 DEF TailInv, LaneTypes, StartRun
  <2>2. tail' \in {tail, Tail(tail)}
    BY <1>3 DEF StartRun
  <2>3. Tail(tail) \in Seq(Run)
    BY <2>1, TailIs DEF LaneTypes
  <2> QED BY <1>3, <2>2, <2>3 DEF LaneTypes, StartRun
<1>4. ASSUME NEW r \in Run, Started(r) PROVE LaneTypes'
  BY <1>4, ChatAssumption DEF LaneTypes, TailInv, Started, TurnTo, FaultAfter, Fault
<1>5. ASSUME NEW r \in Run, Activated(r) PROVE LaneTypes'
  BY <1>5, ChatAssumption DEF LaneTypes, Stages, Activated, Opened, FaultAfter, Fault, lanevars
<1>6. ASSUME NEW r \in Run, ExecuteRun(r) \/ Resumed(r) \/ EnterRuntime(r) PROVE LaneTypes'
  BY <1>6, ChatAssumption DEF LaneTypes, ExecuteRun, lanevars, Resumed, EnterRuntime
<1>7. ASSUME NEW r \in Run, RuntimeEvent(r) \/ RuntimeSettles(r) \/ EffectsSettled(r)
      PROVE LaneTypes'
  BY <1>7, ChatAssumption
  DEF LaneTypes, RuntimeEvent, Accepting, lanevars, RuntimeSettles, EffectsSettled
<1>8. ASSUME NEW r \in Run, FinalDone(r) PROVE LaneTypes'
  <2>1. circuits' \subseteq Run \X Stages /\ faults' \in 0..MaxFaults
    BY <1>8, ChatAssumption DEF LaneTypes, Stages, FinalDone, Opened, Cleared, FaultAfter, Fault, Fold, Go, Stamp, TurnTo
  <2>2. \/ UNCHANGED <<marker, window>>
        \/ /\ marker' = [marker EXCEPT ![laneOf[r]] = IF @ = NoRun THEN r ELSE @]
           /\ window' = [window EXCEPT ![laneOf[r]] = @ \cup {r}]
    BY <1>8 DEF FinalDone, Fold
  <2>3. marker' \in [Lane -> Run \cup {NoRun}] /\ window' \in [Lane -> SUBSET Run]
    <3>1. CASE laneOf[r] \in Lane
      <4>1. marker' \in [Lane -> Run \cup {NoRun}]
        BY <2>2, <3>1 DEF LaneTypes
      <4>2. window' \in [Lane -> SUBSET Run]
        <5>1. window[laneOf[r]] \cup {r} \in SUBSET Run
          BY <3>1 DEF LaneTypes
        <5> QED BY <2>2, <3>1, <5>1 DEF LaneTypes
      <4> QED BY <4>1, <4>2
    <3>2. CASE laneOf[r] \notin Lane
      BY <2>2, <3>2 DEF LaneTypes
    <3> QED BY <3>1, <3>2
  <2> QED BY <1>8, <2>1, <2>2, <2>3 DEF LaneTypes, FinalDone
<1>9. ASSUME NEW r \in Run, FinalizeRun(r) \/ Flushed(r) \/ BlockedDone(r) PROVE LaneTypes'
  BY <1>9, ChatAssumption DEF LaneTypes, FinalizeRun, lanevars, Flushed, BlockedDone
<1>10. ASSUME NEW r \in Run, ClaimDone(r) PROVE LaneTypes'
  BY <1>10, ChatAssumption DEF LaneTypes, Stages, ClaimDone, Opened, Cleared, Fault, lanevars
<1>11. ASSUME NEW r \in Run, ArtDone(r) PROVE LaneTypes'
  BY <1>11, ChatAssumption DEF LaneTypes, ArtDone, lanevars
<1>12. ASSUME NEW r \in Run, CheckpointDone(r) PROVE LaneTypes'
  BY <1>12, ChatAssumption DEF LaneTypes, Stages, CheckpointDone, Opened, Cleared, Fault, lanevars
<1>13. ASSUME NEW r \in Run, CheckpointDue(r) PROVE LaneTypes'
  BY <1>13, ChatAssumption DEF LaneTypes, CheckpointDue, lanevars
<1>14. ASSUME NEW r \in Run, AskAfterStart(r) \/ AskAfterActivation(r) PROVE LaneTypes'
  BY <1>14, ChatAssumption DEF LaneTypes, AskAfterStart, lanevars, AskAfterActivation
<1>15. ASSUME NEW r \in Run, AskDone(r) PROVE LaneTypes'
  BY <1>15, ChatAssumption DEF LaneTypes, Stages, AskDone, Opened, FaultAfter, Fault, lanevars
<1>16. ASSUME NEW r \in Run, AskAfterFlush(r) PROVE LaneTypes'
  BY <1>16, ChatAssumption DEF LaneTypes, AskAfterFlush, lanevars
<1>17. ASSUME NEW l \in Lane, LoadLane(l) PROVE LaneTypes'
  <2>1. loaded' \in [Lane -> {"no", "yes", "error"}]
    BY <1>17 DEF LaneTypes, LoadLane
  <2>2. faults' \in 0..MaxFaults
    BY <1>17, ChatAssumption DEF LaneTypes, LoadLane, Fault
  <2> QED BY <1>17, <2>1, <2>2 DEF LaneTypes, LoadLane
<1>18. ASSUME NEW l \in Lane, DrainNext(l) PROVE LaneTypes'
  BY <1>18, ChatAssumption DEF LaneTypes, DrainNext
<1>19. ASSUME NEW l \in Lane, PruneLane(l) PROVE LaneTypes'
  BY <1>19, ChatAssumption DEF LaneTypes, PruneLane
<1>20. ASSUME (\E l \in Lane : StopConversation(l)) \/ Shutdown PROVE LaneTypes'
  BY <1>20, ChatAssumption DEF LaneTypes, StopConversation, CancelRuns, lanevars, Shutdown
<1>21. CASE UNCHANGED vars
  BY <1>21, ChatAssumption DEF LaneTypes, vars, lanevars, runvars, fxvars
<1> QED
  BY <1>1, <1>2, <1>3, <1>4, <1>5, <1>6, <1>7, <1>8, <1>9, <1>10, <1>11, <1>12, <1>13, <1>14, <1>15,
     <1>16, <1>17, <1>18, <1>19, <1>20, <1>21
  DEF Next, Progress, Effect

(* Every step keeps the types of the sets.                                   *)
LEMMA SetStep ==
  ASSUME SetTypes, CountTypes,
         [Next]_vars
  PROVE  SetTypes'
<1>1. ASSUME NEW r \in Run, NEW l \in Lane, Submit(r, l) PROVE SetTypes'
  BY <1>1 DEF SetTypes, Submit, Go, fxvars
<1>2. ASSUME NEW r \in Run, AdmitRun(r) \/ StartRun(r) \/ Started(r) PROVE SetTypes'
  BY <1>2 DEF SetTypes, AdmitRun, Go, Reject, Stamp, StartRun, Started, TurnTo, FaultAfter, Fault
<1>3. ASSUME NEW r \in Run, ExecuteRun(r) \/ Activated(r) \/ Resumed(r) \/ EnterRuntime(r)
      PROVE SetTypes'
  BY <1>3
  DEF SetTypes, ExecuteRun, BlockOrCancel, Settle, Stamp, Go, Block, lanevars, fxvars, Activated,
      Opened, TurnTo, FaultAfter, Fault, Resumed, EnterRuntime
<1>4. ASSUME NEW r \in Run, RuntimeEvent(r) \/ RuntimeSettles(r) \/ EffectsSettled(r)
      PROVE SetTypes'
  BY <1>4
  DEF SetTypes, RuntimeEvent, MarkDirty, Accepting, lanevars, RuntimeSettles, Go, fxvars,
      EffectsSettled, Settle, Stamp
<1>5. ASSUME NEW r \in Run, FinalizeRun(r) PROVE SetTypes'
  BY <1>5, FlushFromIs, WriteNextIs DEF SetTypes, CountTypes, FinalizeRun, Stamp, Go, lanevars
<1>6. ASSUME NEW r \in Run, Flushed(r) \/ FinalDone(r) \/ BlockedDone(r) PROVE SetTypes'
  BY <1>6
  DEF SetTypes, Flushed, Stamp, Go, lanevars, fxvars, FinalDone, Opened, Cleared, TurnTo,
      FaultAfter, Fault, Fold, Finalized, BlockedDone
<1>7. ASSUME NEW r \in Run, ClaimDone(r) \/ ArtDone(r) PROVE SetTypes'
  BY <1>7 DEF SetTypes, ClaimDone, Opened, Cleared, Fault, lanevars, ArtDone, MarkDirty
<1>8. ASSUME NEW r \in Run, CheckpointDone(r) PROVE SetTypes'
  <2>1. PICK c \in Checkpoint : WriteNext(r, c, dirty)
    BY <1>8 DEF CheckpointDone, CountTypes, Checkpoint
  <2> QED BY <1>8, <2>1, WriteNextIs DEF SetTypes, CountTypes, CheckpointDone, runvars
<1>9. ASSUME NEW r \in Run, CheckpointDue(r) PROVE SetTypes'
  BY <1>9, FlushFromIs, WriteNextIs DEF SetTypes, CountTypes, CheckpointDue, lanevars, runvars
<1>10. ASSUME NEW r \in Run, AskAfterStart(r) PROVE SetTypes'
  BY <1>10, FlushFromIs, WriteNextIs
  DEF SetTypes, CountTypes, AskAfterStart, AskTo, lanevars, runvars
<1>11. ASSUME NEW r \in Run, AskAfterActivation(r) PROVE SetTypes'
  BY <1>11, FlushFromIs, WriteNextIs
  DEF SetTypes, CountTypes, AskAfterActivation, AskTo, lanevars, runvars
<1>12. ASSUME NEW r \in Run, AskAfterFlush(r) \/ AskDone(r) PROVE SetTypes'
  BY <1>12
  DEF SetTypes, AskAfterFlush, AskTo, lanevars, runvars, AskDone, Opened, TurnTo, FaultAfter, Fault,
      Asked
<1>13. ASSUME NEW l \in Lane, LoadLane(l) \/ DrainNext(l) \/ PruneLane(l) PROVE SetTypes'
  BY <1>13 DEF SetTypes, LoadLane, Fault, runvars, fxvars, DrainNext, PruneLane
<1>14. ASSUME (\E l \in Lane : StopConversation(l)) \/ Shutdown PROVE SetTypes'
  BY <1>14 DEF SetTypes, StopConversation, CancelRuns, lanevars, Shutdown
<1>15. CASE UNCHANGED vars
  BY <1>15 DEF SetTypes, vars, lanevars, runvars, fxvars
<1> QED
  BY <1>1, <1>2, <1>3, <1>4, <1>5, <1>6, <1>7, <1>8, <1>9, <1>10, <1>11, <1>12, <1>13, <1>14, <1>15
  DEF Next, Progress, Effect

(* Every step keeps the types of the states.                                 *)
LEMMA StateStep ==
  ASSUME StateTypes,
         [Next]_vars
  PROVE  StateTypes'
<1>1. ASSUME NEW r \in Run, NEW l \in Lane, Submit(r, l) PROVE StateTypes'
  BY <1>1, StateNames DEF StateTypes, Submit, Go, fxvars
<1>2. ASSUME NEW r \in Run, AdmitRun(r) \/ StartRun(r) \/ Started(r) PROVE StateTypes'
  BY <1>2, StateNames
  DEF StateTypes, AdmitRun, Go, Reject, Stamp, StartRun, Started, TurnTo, FaultAfter, Fault
<1>3. ASSUME NEW r \in Run, ExecuteRun(r) \/ Activated(r) \/ Resumed(r) \/ EnterRuntime(r)
      PROVE StateTypes'
  BY <1>3, StateNames
  DEF StateTypes, ExecuteRun, BlockOrCancel, Settle, Stamp, Go, Block, lanevars, fxvars, Activated,
      Opened, TurnTo, FaultAfter, Fault, Resumed, EnterRuntime
<1>4. ASSUME NEW r \in Run, RuntimeEvent(r) \/ RuntimeSettles(r) \/ EffectsSettled(r)
      PROVE StateTypes'
  BY <1>4, StateNames
  DEF StateTypes, RuntimeEvent, MarkDirty, Accepting, lanevars, RuntimeSettles, Go, fxvars,
      EffectsSettled, Settle, Stamp
<1>5. ASSUME NEW r \in Run, FinalizeRun(r) \/ Flushed(r) \/ FinalDone(r) \/ BlockedDone(r)
      PROVE StateTypes'
  BY <1>5, StateNames
  DEF StateTypes, FinalizeRun, Stamp, Go, lanevars, Flushed, fxvars, FinalDone, Opened, Cleared,
      TurnTo, FaultAfter, Fault, Fold, Finalized, BlockedDone
<1>6. ASSUME NEW r \in Run, ClaimDone(r) \/ ArtDone(r) PROVE StateTypes'
  BY <1>6, StateNames
  DEF StateTypes, ClaimDone, Opened, Cleared, Fault, lanevars, ArtDone, MarkDirty
<1>7. ASSUME NEW r \in Run, CheckpointDue(r) \/ CheckpointDone(r) PROVE StateTypes'
  BY <1>7, StateNames
  DEF StateTypes, CheckpointDue, lanevars, runvars, CheckpointDone, Opened, Cleared, Fault
<1>8. ASSUME NEW r \in Run, AskAfterStart(r) \/ AskAfterActivation(r) PROVE StateTypes'
  BY <1>8, StateNames DEF StateTypes, AskAfterStart, AskTo, lanevars, runvars, AskAfterActivation
<1>9. ASSUME NEW r \in Run, AskAfterFlush(r) \/ AskDone(r) PROVE StateTypes'
  BY <1>9, StateNames
  DEF StateTypes, AskAfterFlush, AskTo, lanevars, runvars, AskDone, Opened, TurnTo, FaultAfter,
      Fault, Asked
<1>10. ASSUME NEW l \in Lane, LoadLane(l) \/ DrainNext(l) \/ PruneLane(l) PROVE StateTypes'
  BY <1>10, StateNames DEF StateTypes, LoadLane, Fault, runvars, fxvars, DrainNext, PruneLane
<1>11. ASSUME (\E l \in Lane : StopConversation(l)) \/ Shutdown PROVE StateTypes'
  BY <1>11, StateNames DEF StateTypes, StopConversation, CancelRuns, lanevars, Shutdown
<1>12. CASE UNCHANGED vars
  BY <1>12, StateNames DEF StateTypes, vars, lanevars, runvars, fxvars
<1> QED
  BY <1>1, <1>2, <1>3, <1>4, <1>5, <1>6, <1>7, <1>8, <1>9, <1>10, <1>11, <1>12
  DEF Next, Progress, Effect

(* Every step keeps the counters within their bounds.                        *)
LEMMA CountStep ==
  ASSUME SetTypes, StateTypes, CountTypes,
         [Next]_vars
  PROVE  CountTypes'
<1>1. ASSUME NEW r \in Run, NEW l \in Lane, Submit(r, l) PROVE CountTypes'
  BY <1>1, ChatAssumption DEF CountTypes, Submit, Go, fxvars
<1>2. ASSUME NEW r \in Run, AdmitRun(r) \/ StartRun(r) \/ Started(r) PROVE CountTypes'
  BY <1>2, ChatAssumption
  DEF CountTypes, AdmitRun, Go, Reject, Stamp, StartRun, Started, TurnTo, FaultAfter, Fault
<1>3. ASSUME NEW r \in Run, ExecuteRun(r) \/ Activated(r) \/ Resumed(r) \/ EnterRuntime(r)
      PROVE CountTypes'
  BY <1>3, ChatAssumption
  DEF CountTypes, ExecuteRun, BlockOrCancel, Settle, Stamp, Go, Block, lanevars, fxvars, Activated,
      Opened, TurnTo, FaultAfter, Fault, Resumed, EnterRuntime
<1>4. ASSUME NEW r \in Run, RuntimeEvent(r) PROVE CountTypes'
  <2>1. PICK c \in Checkpoint : c = ckpt[r]
    BY DEF CountTypes
  <2>2. [c EXCEPT !.stopped = TRUE] \in Checkpoint
    BY DEF Checkpoint
  <2>3. ckpt' = ckpt \/ ckpt' = [ckpt EXCEPT ![r] = [c EXCEPT !.stopped = TRUE]]
    BY <1>4, <2>1 DEF RuntimeEvent
  <2>4. ckpt' \in [Run -> Checkpoint]
    BY <2>2, <2>3 DEF CountTypes
  <2>5. claims' \in [Run -> 0..MaxClaims]
    BY <1>4, ChatAssumption DEF CountTypes, RuntimeEvent
  <2>6. arts' \in [Run -> 0..MaxArts]
    BY <1>4, ChatAssumption DEF CountTypes, RuntimeEvent
  <2> QED BY <2>4, <2>5, <2>6 DEF CountTypes
<1>5. ASSUME NEW r \in Run, RuntimeSettles(r) \/ EffectsSettled(r) PROVE CountTypes'
  BY <1>5, ChatAssumption
  DEF CountTypes, RuntimeSettles, Go, lanevars, fxvars, EffectsSettled, Settle, Stamp
<1>6. ASSUME NEW r \in Run, FinalizeRun(r) PROVE CountTypes'
  BY <1>6, FinalizeWrites DEF CountTypes, Written, fxvars
<1>7. ASSUME NEW r \in Run, Flushed(r) \/ FinalDone(r) \/ BlockedDone(r) PROVE CountTypes'
  BY <1>7, ChatAssumption
  DEF CountTypes, Flushed, Stamp, Go, lanevars, fxvars, FinalDone, Opened, Cleared, TurnTo,
      FaultAfter, Fault, Fold, Finalized, BlockedDone
<1>8. ASSUME NEW r \in Run, ClaimDone(r) PROVE CountTypes'
  BY <1>8, ChatAssumption DEF CountTypes, ClaimDone, Opened, Cleared, Fault, lanevars
<1>9. ASSUME NEW r \in Run, ArtDone(r) PROVE CountTypes'
  BY <1>9, ChatAssumption DEF CountTypes, ArtDone, MarkDirty, lanevars
<1>10. ASSUME NEW r \in Run, CheckpointDue(r) PROVE CountTypes'
  BY <1>10, DueWrites DEF CountTypes, Written, fxvars
<1>11. ASSUME NEW r \in Run, CheckpointDone(r) PROVE CountTypes'
  BY <1>11, DoneWrites DEF CountTypes, Written, fxvars
<1>12. ASSUME NEW r \in Run, AskAfterStart(r) \/ AskAfterActivation(r) PROVE CountTypes'
  BY <1>12, AskWrites DEF CountTypes, Written, fxvars
<1>13. ASSUME NEW r \in Run, AskAfterFlush(r) \/ AskDone(r) PROVE CountTypes'
  BY <1>13, ChatAssumption
  DEF CountTypes, AskAfterFlush, AskTo, lanevars, runvars, AskDone, Opened, TurnTo, FaultAfter,
      Fault, Asked
<1>14. ASSUME NEW l \in Lane, LoadLane(l) \/ DrainNext(l) \/ PruneLane(l) PROVE CountTypes'
  BY <1>14, ChatAssumption DEF CountTypes, LoadLane, Fault, runvars, fxvars, DrainNext, PruneLane
<1>15. ASSUME (\E l \in Lane : StopConversation(l)) \/ Shutdown PROVE CountTypes'
  BY <1>15, ChatAssumption DEF CountTypes, StopConversation, CancelRuns, lanevars, Shutdown
<1>16. CASE UNCHANGED vars
  BY <1>16, ChatAssumption DEF CountTypes, vars, lanevars, runvars, fxvars
<1> QED
  BY <1>1, <1>2, <1>3, <1>4, <1>5, <1>6, <1>7, <1>8, <1>9, <1>10, <1>11, <1>12, <1>13, <1>14, <1>15,
     <1>16
  DEF Next, Progress, Effect

(* The run at the head leaves the tail.                                      *)
LEMMA TailPops ==
  ASSUME LaneTypes, TailInv, NEW r \in Run, at[r] \in {"tail", "start"}, Head(tail) = r, tail' = Tail(tail),
         at'[r] \notin {"tail", "start"}, \A q \in Run \ {r} : at'[q] = at[q]
  PROVE  TailInv'
<1>1. PICK t \in Seq(Run) : t = tail /\ t # <<>>
  BY DEF LaneTypes, TailInv
<1>2. Head(t) = t[1]
  BY <1>1, TailIs
<1>3. \A i \in DOMAIN t : i = 1 \/ (i - 1 \in DOMAIN Tail(t) /\ Tail(t)[i - 1] = t[i])
  BY <1>1, TailIs
<1>4. \A q \in Run \ {r} : at[q] # "start"
  BY <1>1, <1>2 DEF TailInv
<1>5. ASSUME NEW q \in Run, at'[q] \in {"tail", "start"}
      PROVE  \E i \in DOMAIN Tail(t) : Tail(t)[i] = q
  <2>1. q # r /\ at[q] \in {"tail", "start"}
    BY <1>5
  <2>2. PICK i \in DOMAIN t : t[i] = q
    BY <1>1, <2>1 DEF TailInv
  <2>3. i # 1
    BY <1>1, <1>2, <2>1, <2>2
  <2> QED BY <1>3, <2>2, <2>3
<1>6. \A q \in Run : at'[q] # "start"
  BY <1>4
<1> QED BY <1>1, <1>5, <1>6 DEF TailInv

(* The tail of starts holds whoever waits for its start.                     *)
LEMMA TailStep ==
  ASSUME LaneTypes, StateTypes, TailInv,
         [Next]_vars
  PROVE  TailInv'
<1>1. ASSUME NEW r \in Run, NEW l \in Lane, Submit(r, l) PROVE TailInv'
  BY <1>1
  DEF LaneTypes, StateTypes, TailInv, Admission, Closing, Over, Executing, Submit, Go, fxvars
<1>2. ASSUME NEW r \in Run, AdmitRun(r) PROVE TailInv'
  <2>1. /\ at[r] = "load" /\ \A q \in Run \ {r} : at'[q] = at[q]
        /\ \/ at'[r] = "rejected" /\ UNCHANGED tail
           \/ at'[r] = "tail" /\ tail' = Append(tail, r)
    BY <1>2 DEF AdmitRun, Reject, Go, StateTypes
  <2>2. PICK t \in Seq(Run) : t = tail
    BY DEF LaneTypes
  <2>3. CASE at'[r] = "rejected" /\ UNCHANGED tail
    BY <2>1, <2>3 DEF TailInv
  <2>4. CASE at'[r] = "tail" /\ tail' = Append(tail, r)
    <3>1. /\ \A i \in DOMAIN t : i \in DOMAIN Append(t, r) /\ Append(t, r)[i] = t[i]
          /\ Len(t) + 1 \in DOMAIN Append(t, r) /\ Append(t, r)[Len(t) + 1] = r
          /\ t # <<>> => 1 \in DOMAIN t
      BY <2>2, AppendIs
    <3>2. \A q \in Run : at'[q] \in {"tail", "start"} => \E i \in DOMAIN tail' : tail'[i] = q
      BY <2>1, <2>2, <2>4, <3>1 DEF TailInv
    <3>3. \A q \in Run : at'[q] = "start" => tail'[1] = q
      BY <2>1, <2>2, <2>4, <3>1 DEF TailInv
    <3> QED BY <3>2, <3>3 DEF TailInv
  <2> QED BY <2>1, <2>3, <2>4
<1>3. ASSUME NEW r \in Run, StartRun(r) PROVE TailInv'
  <2>1. /\ at[r] = "tail" /\ Head(tail) = r /\ \A q \in Run \ {r} : at'[q] = at[q]
        /\ \/ at'[r] = "rejected" /\ tail' = Tail(tail)
           \/ at'[r] = "start" /\ UNCHANGED tail
    BY <1>3 DEF StartRun, Reject, Go, StateTypes
  <2>2. CASE at'[r] = "start" /\ UNCHANGED tail
    <3>1. tail[1] = r
      BY <2>1 DEF LaneTypes, TailInv
    <3> QED BY <2>1, <2>2, <3>1 DEF TailInv
  <2> QED BY <2>1, <2>2, TailPops
<1>4. ASSUME NEW r \in Run, Started(r) PROVE TailInv'
  <2>1. /\ at[r] = "start" /\ tail' = Tail(tail) /\ \A q \in Run \ {r} : at'[q] = at[q]
        /\ at'[r] \in {"admitted", "rejected"}
    BY <1>4 DEF Started, Reject, Go, StateTypes
  <2>2. Head(tail) = r
    BY <2>1 DEF LaneTypes, TailInv
  <2> QED BY <2>1, <2>2, TailPops
<1>5. ASSUME NEW r \in Run, ExecuteRun(r) \/ Activated(r) \/ Resumed(r) \/ EnterRuntime(r)
      PROVE TailInv'
  BY <1>5, ExecutionIs DEF TailInv, ExecutionMoves, lanevars
<1>6. ASSUME NEW r \in Run, RuntimeEvent(r) PROVE TailInv'
  BY <1>6
  DEF LaneTypes, StateTypes, TailInv, Admission, Closing, Over, Executing, RuntimeEvent, MarkDirty,
      Accepting, lanevars
<1>7. ASSUME NEW r \in Run, RuntimeSettles(r) PROVE TailInv'
  BY <1>7
  DEF LaneTypes, StateTypes, TailInv, Admission, Closing, Over, Executing, RuntimeSettles, Go,
      lanevars, fxvars
<1>8. ASSUME NEW r \in Run, EffectsSettled(r) PROVE TailInv'
  BY <1>8
  DEF LaneTypes, StateTypes, TailInv, Admission, Closing, Over, Executing, EffectsSettled, Settle,
      Stamp, Go, lanevars, fxvars
<1>9. ASSUME NEW r \in Run, FinalDone(r) PROVE TailInv'
  <2>1. at' = [at EXCEPT ![r] = "done"] /\ UNCHANGED tail
    BY <1>9 DEF FinalDone, Fold, Go
  <2> QED BY <2>1 DEF StateTypes, TailInv
<1>10. ASSUME NEW r \in Run, FinalizeRun(r) PROVE TailInv'
  BY <1>10
  DEF LaneTypes, StateTypes, TailInv, Admission, Closing, Over, Executing, FinalizeRun, Stamp, Go,
      lanevars
<1>11. ASSUME NEW r \in Run, Flushed(r) PROVE TailInv'
  BY <1>11
  DEF LaneTypes, StateTypes, TailInv, Admission, Closing, Over, Executing, Flushed, Stamp, Go,
      lanevars, fxvars
<1>12. ASSUME NEW r \in Run, BlockedDone(r) PROVE TailInv'
  BY <1>12
  DEF LaneTypes, StateTypes, TailInv, Admission, Closing, Over, Executing, BlockedDone, Stamp, Go,
      lanevars, fxvars
<1>13. ASSUME NEW r \in Run, ClaimDone(r) \/ ArtDone(r) PROVE TailInv'
  BY <1>13
  DEF LaneTypes, StateTypes, TailInv, Admission, Closing, Over, Executing, ClaimDone, Opened,
      Cleared, Fault, lanevars, ArtDone, MarkDirty
<1>14. ASSUME NEW r \in Run, CheckpointDue(r) \/ CheckpointDone(r) PROVE TailInv'
  BY <1>14
  DEF LaneTypes, StateTypes, TailInv, Admission, Closing, Over, Executing, CheckpointDue, lanevars,
      runvars, CheckpointDone, Opened, Cleared, Fault
<1>15. ASSUME NEW r \in Run, AskAfterStart(r) \/ AskAfterActivation(r) PROVE TailInv'
  BY <1>15
  DEF LaneTypes, StateTypes, TailInv, Admission, Closing, Over, Executing, AskAfterStart, AskTo,
      lanevars, runvars, AskAfterActivation
<1>16. ASSUME NEW r \in Run, AskAfterFlush(r) \/ AskDone(r) PROVE TailInv'
  BY <1>16
  DEF LaneTypes, StateTypes, TailInv, Admission, Closing, Over, Executing, AskAfterFlush, AskTo,
      lanevars, runvars, AskDone, Opened, TurnTo, FaultAfter, Fault, Asked
<1>17. ASSUME NEW l \in Lane, LoadLane(l) \/ DrainNext(l) \/ PruneLane(l) PROVE TailInv'
  BY <1>17
  DEF LaneTypes, StateTypes, TailInv, Admission, Closing, Over, Executing, LoadLane, Fault, runvars,
      fxvars, DrainNext, PruneLane
<1>18. ASSUME (\E l \in Lane : StopConversation(l)) \/ Shutdown PROVE TailInv'
  BY <1>18
  DEF LaneTypes, StateTypes, TailInv, Admission, Closing, Over, Executing, StopConversation,
      CancelRuns, lanevars, Shutdown
<1>19. CASE UNCHANGED vars
  BY <1>19
  DEF LaneTypes, StateTypes, TailInv, Admission, Closing, Over, Executing, vars, lanevars, runvars,
      fxvars
<1> QED
  BY <1>1, <1>2, <1>3, <1>4, <1>5, <1>6, <1>7, <1>8, <1>9, <1>10, <1>11, <1>12, <1>13, <1>14, <1>15,
     <1>16, <1>17, <1>18, <1>19
  DEF Next, Progress, Effect

(* A run that was not submitted stays without a trace.                       *)
LEMMA FreshStep ==
  ASSUME LaneTypes, SetTypes, StateTypes, CountTypes, FreshInv, StageInv, StopInv, SaveInv, EndInv,
         [Next]_vars
  PROVE  FreshInv'
<1> USE DEF SetTypes, StateTypes, CountTypes, StageInv, FreshInv, Cancellable, Admission, Closing,
           Over, Executing
<1>1. ASSUME NEW r \in Run, NEW l \in Lane, Submit(r, l) PROVE FreshInv'
  BY <1>1 DEF Submit, Go, fxvars
<1>2. ASSUME NEW r \in Run, AdmitRun(r) \/ StartRun(r) \/ Started(r) PROVE FreshInv'
  BY <1>2 DEF AdmitRun, Go, Reject, Stamp, StartRun, Started, TurnTo, FaultAfter, Fault
<1>3. ASSUME NEW r \in Run, ExecuteRun(r) \/ Activated(r) \/ Resumed(r) \/ EnterRuntime(r)
      PROVE FreshInv'
  BY <1>3
  DEF ExecuteRun, BlockOrCancel, Settle, Stamp, Go, Block, lanevars, fxvars, Activated, Opened,
      TurnTo, FaultAfter, Fault, Resumed, EnterRuntime
<1>4. ASSUME NEW r \in Run, RuntimeEvent(r) \/ RuntimeSettles(r) \/ EffectsSettled(r)
      PROVE FreshInv'
  BY <1>4
  DEF RuntimeEvent, MarkDirty, Accepting, lanevars, RuntimeSettles, Go, fxvars, EffectsSettled,
      Settle, Stamp
<1>5. ASSUME NEW r \in Run, FinalizeRun(r) PROVE FreshInv'
  BY <1>5, FinalizeWrites DEF Written, KeepsSaved, lanevars
<1>6. ASSUME NEW r \in Run, Flushed(r) \/ FinalDone(r) \/ BlockedDone(r) PROVE FreshInv'
  BY <1>6
  DEF Flushed, Stamp, Go, lanevars, fxvars, FinalDone, Opened, Cleared, TurnTo, FaultAfter, Fault,
      Fold, Finalized, BlockedDone
<1>7. ASSUME NEW r \in Run, ClaimDone(r) \/ ArtDone(r) PROVE FreshInv'
  BY <1>7 DEF ClaimDone, Opened, Cleared, Fault, lanevars, ArtDone, MarkDirty
<1>8. ASSUME NEW r \in Run, CheckpointDue(r) PROVE FreshInv'
  BY <1>8, DueWrites DEF Written, KeepsSaved, lanevars, runvars
<1>9. ASSUME NEW r \in Run, CheckpointDone(r) PROVE FreshInv'
  BY <1>9, DoneWrites DEF Written, KeepsSaved, lanevars, runvars
<1>10. ASSUME NEW r \in Run, AskAfterStart(r) \/ AskAfterActivation(r) PROVE FreshInv'
  BY <1>10, AskWrites DEF Written, KeepsSaved, lanevars, runvars
<1>11. ASSUME NEW r \in Run, AskAfterFlush(r) \/ AskDone(r) PROVE FreshInv'
  BY <1>11
  DEF AskAfterFlush, AskTo, lanevars, runvars, AskDone, Opened, TurnTo, FaultAfter, Fault, Asked
<1>12. ASSUME NEW l \in Lane, LoadLane(l) \/ DrainNext(l) \/ PruneLane(l) PROVE FreshInv'
  BY <1>12 DEF LoadLane, Fault, runvars, fxvars, DrainNext, PruneLane
<1>13. ASSUME (\E l \in Lane : StopConversation(l)) \/ Shutdown PROVE FreshInv'
  BY <1>13 DEF StopConversation, CancelRuns, lanevars, Shutdown
<1>14. CASE UNCHANGED vars
  BY <1>14 DEF vars, lanevars, runvars, fxvars
<1> QED
  BY <1>1, <1>2, <1>3, <1>4, <1>5, <1>6, <1>7, <1>8, <1>9, <1>10, <1>11, <1>12, <1>13, <1>14
  DEF Next, Progress, Effect

(* A run past its admission is the first of its queue.                       *)
LEMMA FirstInLane ==
  ASSUME LaneTypes, QueueInv, NEW r \in Run,
         at[r] \in Executing \/ Head(queue[laneOf[r]]) = r
  PROVE  \A l \in Lane : \A i \in DOMAIN queue[l] : i > 1 => queue[l][i] # r
<1> SUFFICES ASSUME NEW l \in Lane, NEW i \in DOMAIN queue[l], i > 1, queue[l][i] = r
             PROVE  FALSE
  OBVIOUS
<1>1. at[r] \in Admission \cup {"admitted", "rejected"} /\ laneOf[r] = l
  BY DEF QueueInv
<1>2. Head(queue[l]) = r
  BY <1>1 DEF Executing, Admission, Closing
<1>3. queue[l] \in Seq(Run) /\ queue[l] # <<>>
  BY DEF LaneTypes
<1>4. 1 \in DOMAIN queue[l] /\ queue[l][1] = r
  BY <1>2, <1>3, TailIs
<1> QED BY <1>4 DEF QueueInv

(* So no two runs of a conversation are past it at once.                     *)
LEMMA OneInLane ==
  ASSUME LaneTypes, QueueInv, NEW r \in Run, NEW q \in Run,
         at[r] \in Executing, at[q] \in Executing, laneOf[q] = laneOf[r]
  PROVE  q = r
<1>1. at[r] \notin {"none"} \cup Over /\ at[q] \notin {"none"} \cup Over
  BY DEF Executing, Closing, Over
<1>2. PICK l \in Lane : laneOf[r] = l
  BY <1>1 DEF QueueInv
<1>3. PICK i \in DOMAIN queue[l] : queue[l][i] = r
  BY <1>1, <1>2 DEF QueueInv, Mine
<1>4. PICK j \in DOMAIN queue[l] : queue[l][j] = q
  BY <1>1, <1>2 DEF QueueInv, Mine
<1>5. queue[l] \in Seq(Run) /\ ~(i > 1) /\ ~(j > 1)
  BY <1>3, <1>4, FirstInLane DEF LaneTypes
<1>6. i = 1 /\ j = 1
  BY <1>5
<1> QED BY <1>3, <1>4, <1>6

(* The order of the queues is kept.                                          *)
LEMMA QueueStep ==
  ASSUME LaneTypes, SetTypes, StateTypes, CountTypes, TailInv, FreshInv, QueueInv, StageInv,
         [Next]_vars
  PROVE  QueueInv'
<1>1. ASSUME NEW r \in Run, NEW l \in Lane, Submit(r, l) PROVE QueueInv'
  <2>1. /\ at[r] = "none" /\ laneOf' = [laneOf EXCEPT ![r] = l] /\ at' = [at EXCEPT ![r] = "load"]
        /\ queue' = [queue EXCEPT ![l] = Append(queue[l], r)]
        /\ initial' = [initial EXCEPT ![r] = IF queue[l] = <<>> THEN "active" ELSE "queued"]
        /\ UNCHANGED <<cancelled, activated>>
    BY <1>1 DEF Submit, Go
  <2>2. queue[l] \in Seq(Run) /\ queue'[l] = Append(queue[l], r) /\ \A k \in Lane \ {l} : queue'[k] = queue[k]
    BY <2>1 DEF LaneTypes
  <2>3. /\ Len(queue[l]) + 1 \in DOMAIN queue'[l] /\ queue'[l][Len(queue[l]) + 1] = r
        /\ \A i \in DOMAIN queue[l] : i \in DOMAIN queue'[l] /\ queue'[l][i] = queue[l][i]
        /\ \A i \in DOMAIN queue'[l] : i \in DOMAIN queue[l] \/ i = Len(queue[l]) + 1
        /\ \A i \in DOMAIN queue[l] : i \in Nat /\ i < Len(queue[l]) + 1
        /\ queue[l] = <<>> => Len(queue[l]) + 1 = 1
    BY <2>2, AppendIs
  <2>4. \A k \in Lane : \A i \in DOMAIN queue[k] : queue[k][i] \in Run \ {r} /\ laneOf[queue[k][i]] = k
    <3>1. \A k \in Lane : \A i \in DOMAIN queue[k] : queue[k][i] \in Run
      BY DEF LaneTypes
    <3>2. laneOf[r] \notin Lane
      BY <2>1, ChatAssumption DEF FreshInv
    <3> QED BY <3>1, <3>2 DEF QueueInv
  <2>5. \A q \in Run \ {r} : laneOf'[q] = laneOf[q] /\ at'[q] = at[q] /\ initial'[q] = initial[q]
    BY <2>1 DEF LaneTypes, StateTypes
  <2>6. laneOf'[r] = l /\ at'[r] = "load" /\ (queue[l] # <<>> => initial'[r] = "queued")
    BY <2>1 DEF LaneTypes, StateTypes
  <2>7. r \notin activated /\ r \notin cancelled
    BY <2>1 DEF FreshInv
  <2>8. (\A q \in Run : at[q] # "none" => laneOf[q] \in Lane)'
    BY <2>5, <2>6 DEF QueueInv
  <2>9. (\A q \in Run : at[q] \notin {"none"} \cup Over => \E i \in DOMAIN Mine(q) : Mine(q)[i] = q)'
    <3> SUFFICES ASSUME NEW q \in Run, at'[q] \notin {"none"} \cup Over
                 PROVE  laneOf'[q] \in Lane /\ \E i \in DOMAIN queue'[laneOf'[q]] : queue'[laneOf'[q]][i] = q
      BY DEF Mine
    <3>1. CASE q = r
      BY <2>3, <2>6, <3>1
    <3>2. CASE q # r
      <4>1. laneOf[q] \in Lane /\ \E i \in DOMAIN queue[laneOf[q]] : queue[laneOf[q]][i] = q
        BY <2>5, <3>2 DEF QueueInv, Mine
      <4> QED BY <2>2, <2>3, <2>5, <3>2, <4>1
    <3> QED BY <3>1, <3>2
  <2>10. (\A k \in Lane : \A i \in DOMAIN queue[k] : laneOf[queue[k][i]] = k)'
    BY <2>2, <2>3, <2>4, <2>5, <2>6
  <2>11. (\A k \in Lane : \A i, j \in DOMAIN queue[k] : queue[k][i] = queue[k][j] => i = j)'
    <3>1. \A i, j \in DOMAIN queue'[l] : queue'[l][i] = queue'[l][j] => i = j
      <4> SUFFICES ASSUME NEW i \in DOMAIN queue'[l], NEW j \in DOMAIN queue'[l], queue'[l][i] = queue'[l][j]
                   PROVE  i = j
        OBVIOUS
      <4>1. CASE i \in DOMAIN queue[l] /\ j \in DOMAIN queue[l]
        BY <2>3, <4>1 DEF QueueInv
      <4>2. CASE i \notin DOMAIN queue[l] \/ j \notin DOMAIN queue[l]
        BY <2>3, <2>4, <4>2
      <4> QED BY <4>1, <4>2
    <3>2. \A k \in Lane \ {l} : \A i, j \in DOMAIN queue'[k] : queue'[k][i] = queue'[k][j] => i = j
      BY <2>2 DEF QueueInv
    <3> QED BY <3>1, <3>2
  <2>12. (\A k \in Lane : \A i \in DOMAIN queue[k] : i > 1 =>
            /\ initial[queue[k][i]] = "queued" /\ queue[k][i] \notin activated
            /\ at[queue[k][i]] \in Admission \cup {"admitted", "rejected"})'
    BY <2>1, <2>2, <2>3, <2>4, <2>5, <2>6, <2>7 DEF QueueInv, Admission
  <2>13. (\A k \in Lane : \A i, j \in DOMAIN queue[k] :
            i < j /\ queue[k][j] \in cancelled /\ at[queue[k][i]] \notin Closing \cup Over
              => queue[k][i] \in cancelled)'
    BY <2>1, <2>2, <2>3, <2>4, <2>5, <2>7 DEF QueueInv
  <2> QED BY <2>8, <2>9, <2>10, <2>11, <2>12, <2>13 DEF QueueInv
<1>2. ASSUME NEW r \in Run, AdmitRun(r) PROVE QueueInv'
  <2>1. at'[r] \in Admission \cup {"admitted", "rejected"} /\ (r \in activated' => r \in activated \/ initial[r] = "active")
    BY <1>2, AdmissionIs DEF AdmissionMoves, Admission
  <2>2. initial'[r] \in {initial[r], "queued"}
    BY <1>2, AdmissionIs DEF AdmissionMoves
  <2> QED BY <1>2, <2>1, <2>2, AdmissionIs, QueueStays DEF Admission, Closing, Over
<1>3. ASSUME NEW r \in Run, StartRun(r) PROVE QueueInv'
  <2>1. at'[r] \in Admission \cup {"admitted", "rejected"} /\ (r \in activated' => r \in activated \/ initial[r] = "active")
    BY <1>3, AdmissionIs DEF AdmissionMoves, Admission
  <2>2. initial'[r] \in {initial[r], "queued"}
    BY <1>3, AdmissionIs DEF AdmissionMoves
  <2> QED BY <1>3, <2>1, <2>2, AdmissionIs, QueueStays DEF Admission, Closing, Over
<1>4. ASSUME NEW r \in Run, Started(r) PROVE QueueInv'
  <2>1. at'[r] \in Admission \cup {"admitted", "rejected"} /\ (r \in activated' => r \in activated \/ initial[r] = "active")
    BY <1>4, AdmissionIs DEF AdmissionMoves, Admission
  <2>2. initial'[r] \in {initial[r], "queued"}
    BY <1>4, AdmissionIs DEF AdmissionMoves
  <2> QED BY <1>4, <2>1, <2>2, AdmissionIs, QueueStays DEF Admission, Closing, Over
<1>5. ASSUME NEW r \in Run, ExecuteRun(r) PROVE QueueInv'
  <2>1. at'[r] \notin {"none"} \cup Over
    BY <1>5, ExecutionIs DEF ExecutionMoves, Over
  <2>2. \A l \in Lane : \A i \in DOMAIN queue[l] : i > 1 => queue[l][i] # r
    BY <1>5, ExecutionIs, FirstInLane DEF Executing
  <2> QED BY <1>5, <2>1, <2>2, ExecutionIs, QueueStays DEF Closing, Over, lanevars
<1>6. ASSUME NEW r \in Run, Activated(r) PROVE QueueInv'
  <2>1. at'[r] \notin {"none"} \cup Over
    BY <1>6, ExecutionIs DEF ExecutionMoves, Over
  <2>2. \A l \in Lane : \A i \in DOMAIN queue[l] : i > 1 => queue[l][i] # r
    BY <1>6, ExecutionIs, FirstInLane DEF Executing
  <2> QED BY <1>6, <2>1, <2>2, ExecutionIs, QueueStays DEF Closing, Over, lanevars
<1>7. ASSUME NEW r \in Run, Resumed(r) PROVE QueueInv'
  <2>1. at'[r] \notin {"none"} \cup Over
    BY <1>7, ExecutionIs DEF ExecutionMoves, Over
  <2>2. \A l \in Lane : \A i \in DOMAIN queue[l] : i > 1 => queue[l][i] # r
    BY <1>7, ExecutionIs, FirstInLane DEF Executing
  <2> QED BY <1>7, <2>1, <2>2, ExecutionIs, QueueStays DEF Closing, Over, lanevars
<1>8. ASSUME NEW r \in Run, EnterRuntime(r) PROVE QueueInv'
  <2>1. at'[r] \notin {"none"} \cup Over
    BY <1>8, ExecutionIs DEF ExecutionMoves, Over
  <2>2. \A l \in Lane : \A i \in DOMAIN queue[l] : i > 1 => queue[l][i] # r
    BY <1>8, ExecutionIs, FirstInLane DEF Executing
  <2> QED BY <1>8, <2>1, <2>2, ExecutionIs, QueueStays DEF Closing, Over, lanevars
<1>9. ASSUME NEW r \in Run, RuntimeEvent(r) PROVE QueueInv'
  BY <1>9
  DEF LaneTypes, SetTypes, StateTypes, FreshInv, QueueInv, Mine, Cancellable, Admission, Closing,
      Over, Executing, RuntimeEvent, MarkDirty, Accepting, lanevars
<1>10. ASSUME NEW r \in Run, RuntimeSettles(r) PROVE QueueInv'
  BY <1>10
  DEF LaneTypes, SetTypes, StateTypes, FreshInv, QueueInv, Mine, Cancellable, Admission, Closing,
      Over, Executing, RuntimeSettles, Go, lanevars, fxvars
<1>11. ASSUME NEW r \in Run, EffectsSettled(r) PROVE QueueInv'
  BY <1>11
  DEF LaneTypes, SetTypes, StateTypes, FreshInv, QueueInv, Mine, Cancellable, Admission, Closing,
      Over, Executing, EffectsSettled, Settle, Stamp, Go, lanevars, fxvars
<1>12. ASSUME NEW r \in Run, FinalDone(r) PROVE QueueInv'
  <2>1. at[r] = "final" /\ at' = [at EXCEPT ![r] = "done"] /\ UNCHANGED <<laneOf, queue, cancelled, initial, activated>>
    BY <1>12 DEF FinalDone, Fold, Go
  <2>2. \A l \in Lane : \A i \in DOMAIN queue[l] : i > 1 => queue[l][i] # r
    BY <2>1, FirstInLane DEF Executing, Closing
  <2>3. at'[r] = "done" /\ \A q \in Run \ {r} : at'[q] = at[q]
    BY <2>1 DEF StateTypes
  <2> QED BY <2>1, <2>2, <2>3, QueueStays DEF Over
<1>13. ASSUME NEW r \in Run, FinalizeRun(r) PROVE QueueInv'
  BY <1>13
  DEF LaneTypes, SetTypes, StateTypes, FreshInv, QueueInv, Mine, Cancellable, Admission, Closing,
      Over, Executing, FinalizeRun, Stamp, Go, lanevars
<1>14. ASSUME NEW r \in Run, Flushed(r) PROVE QueueInv'
  BY <1>14
  DEF LaneTypes, SetTypes, StateTypes, FreshInv, QueueInv, Mine, Cancellable, Admission, Closing,
      Over, Executing, Flushed, Stamp, Go, lanevars, fxvars
<1>15. ASSUME NEW r \in Run, BlockedDone(r) PROVE QueueInv'
  BY <1>15
  DEF LaneTypes, SetTypes, StateTypes, FreshInv, QueueInv, Mine, Cancellable, Admission, Closing,
      Over, Executing, BlockedDone, Stamp, Go, lanevars, fxvars
<1>16. ASSUME NEW r \in Run, ClaimDone(r) \/ ArtDone(r) PROVE QueueInv'
  BY <1>16
  DEF LaneTypes, SetTypes, StateTypes, FreshInv, QueueInv, Mine, Cancellable, Admission, Closing,
      Over, Executing, ClaimDone, Opened, Cleared, Fault, lanevars, ArtDone, MarkDirty
<1>17. ASSUME NEW r \in Run, CheckpointDue(r) \/ CheckpointDone(r) PROVE QueueInv'
  BY <1>17
  DEF LaneTypes, SetTypes, StateTypes, FreshInv, QueueInv, Mine, Cancellable, Admission, Closing,
      Over, Executing, CheckpointDue, lanevars, runvars, CheckpointDone, Opened, Cleared, Fault
<1>18. ASSUME NEW r \in Run, AskAfterStart(r) \/ AskAfterActivation(r) PROVE QueueInv'
  BY <1>18
  DEF LaneTypes, SetTypes, StateTypes, FreshInv, QueueInv, Mine, Cancellable, Admission, Closing,
      Over, Executing, AskAfterStart, AskTo, lanevars, runvars, AskAfterActivation
<1>19. ASSUME NEW r \in Run, AskAfterFlush(r) \/ AskDone(r) PROVE QueueInv'
  BY <1>19
  DEF LaneTypes, SetTypes, StateTypes, FreshInv, QueueInv, Mine, Cancellable, Admission, Closing,
      Over, Executing, AskAfterFlush, AskTo, lanevars, runvars, AskDone, Opened, TurnTo, FaultAfter,
      Fault, Asked
<1>20. ASSUME NEW l \in Lane, DrainNext(l) PROVE QueueInv'
  <2>1. /\ queue[l] # <<>> /\ at[Head(queue[l])] \in Over /\ queue' = [queue EXCEPT ![l] = Tail(queue[l])]
        /\ UNCHANGED <<laneOf, at, initial, cancelled, activated>>
    BY <1>20 DEF DrainNext, runvars
  <2>2. queue[l] \in Seq(Run) /\ queue'[l] = Tail(queue[l]) /\ \A k \in Lane \ {l} : queue'[k] = queue[k]
    BY <2>1 DEF LaneTypes
  <2>3. /\ \A i \in DOMAIN queue'[l] : i \in Nat /\ i >= 1 /\ i + 1 \in DOMAIN queue[l] /\ queue'[l][i] = queue[l][i + 1]
        /\ \A i \in DOMAIN queue[l] : i = 1 \/ (i - 1 \in DOMAIN queue'[l] /\ queue'[l][i - 1] = queue[l][i])
        /\ at[queue[l][1]] \in Over
    <3>1. PICK t \in Seq(Run) : t = queue[l] /\ t # <<>>
      BY <2>1, <2>2
    <3>2. Head(t) = t[1]
      BY <3>1, TailIs
    <3>3. \A i \in DOMAIN Tail(t) : i \in Nat /\ i >= 1 /\ i + 1 \in DOMAIN t /\ Tail(t)[i] = t[i + 1]
      BY <3>1, TailIs
    <3>4. \A i \in DOMAIN t : i = 1 \/ (i - 1 \in DOMAIN Tail(t) /\ Tail(t)[i - 1] = t[i])
      BY <3>1, TailIs
    <3> QED BY <2>1, <2>2, <3>1, <3>2, <3>3, <3>4
  <2>4. (\A q \in Run : at[q] \notin {"none"} \cup Over => \E i \in DOMAIN Mine(q) : Mine(q)[i] = q)'
    <3> SUFFICES ASSUME NEW q \in Run, at[q] \notin {"none"} \cup Over
                 PROVE  laneOf[q] \in Lane /\ \E i \in DOMAIN queue'[laneOf[q]] : queue'[laneOf[q]][i] = q
      BY <2>1 DEF Mine
    <3>1. laneOf[q] \in Lane /\ \E i \in DOMAIN queue[laneOf[q]] : queue[laneOf[q]][i] = q
      BY DEF QueueInv, Mine
    <3>2. CASE laneOf[q] = l
      <4>1. PICK i \in DOMAIN queue[l] : queue[l][i] = q
        BY <3>1, <3>2
      <4>2. i # 1
        BY <2>3, <4>1
      <4> QED BY <2>3, <3>2, <4>1, <4>2
    <3>3. CASE laneOf[q] # l
      BY <2>2, <3>1, <3>3
    <3> QED BY <3>2, <3>3
  <2>5. (\A k \in Lane : \A i \in DOMAIN queue[k] : laneOf[queue[k][i]] = k)'
    BY <2>1, <2>2, <2>3 DEF QueueInv
  <2>6. (\A k \in Lane : \A i, j \in DOMAIN queue[k] : queue[k][i] = queue[k][j] => i = j)'
    <3>1. \A i, j \in DOMAIN queue'[l] : queue'[l][i] = queue'[l][j] => i = j
      <4> SUFFICES ASSUME NEW i \in DOMAIN queue'[l], NEW j \in DOMAIN queue'[l], queue'[l][i] = queue'[l][j]
                   PROVE  i = j
        OBVIOUS
      <4>1. i + 1 = j + 1
        BY <2>3 DEF QueueInv
      <4> QED BY <2>3, <4>1
    <3>2. \A k \in Lane \ {l} : \A i, j \in DOMAIN queue'[k] : queue'[k][i] = queue'[k][j] => i = j
      BY <2>2 DEF QueueInv
    <3> QED BY <3>1, <3>2
  <2>7. (\A k \in Lane : \A i \in DOMAIN queue[k] : i > 1 =>
            /\ initial[queue[k][i]] = "queued" /\ queue[k][i] \notin activated
            /\ at[queue[k][i]] \in Admission \cup {"admitted", "rejected"})'
    <3>1. \A i \in DOMAIN queue'[l] : i + 1 > 1
      BY <2>3
    <3> QED BY <2>1, <2>2, <2>3, <3>1 DEF QueueInv
  <2>8. (\A k \in Lane : \A i, j \in DOMAIN queue[k] :
            i < j /\ queue[k][j] \in cancelled /\ at[queue[k][i]] \notin Closing \cup Over
              => queue[k][i] \in cancelled)'
    <3>1. \A i, j \in DOMAIN queue'[l] : i < j => i + 1 < j + 1
      BY <2>3
    <3> QED BY <2>1, <2>2, <2>3, <3>1 DEF QueueInv
  <2> QED BY <2>1, <2>4, <2>5, <2>6, <2>7, <2>8 DEF QueueInv
<1>21. ASSUME NEW l \in Lane, LoadLane(l) \/ PruneLane(l) PROVE QueueInv'
  BY <1>21
  DEF LaneTypes, SetTypes, StateTypes, FreshInv, QueueInv, Mine, Cancellable, Admission, Closing,
      Over, Executing, LoadLane, Fault, runvars, fxvars, PruneLane
<1>22. ASSUME NEW l \in Lane, StopConversation(l) PROVE QueueInv'
  <2>1. UNCHANGED <<laneOf, queue, at, initial, activated>>
    BY <1>22 DEF StopConversation, CancelRuns, lanevars
  <2>2. \A k \in Lane : \A i \in DOMAIN queue[k] : queue[k][i] \in Run /\ laneOf[queue[k][i]] = k /\ at[queue[k][i]] # "none"
    <3>1. \A k \in Lane : \A i \in DOMAIN queue[k] : queue[k][i] \in Run
      BY DEF LaneTypes
    <3> QED BY <3>1, ChatAssumption DEF QueueInv, FreshInv
  <2>3. \A k \in Lane : \A i, j \in DOMAIN queue[k] :
            i < j /\ queue[k][j] \in cancelled' /\ at[queue[k][i]] \notin Closing \cup Over
              => queue[k][i] \in cancelled'
    BY <1>22, <2>2 DEF QueueInv, StopConversation, CancelRuns, Cancellable
  <2> QED BY <2>1, <2>3 DEF QueueInv, Mine
<1>23. ASSUME Shutdown PROVE QueueInv'
  <2>1. UNCHANGED <<laneOf, queue, at, initial, activated>>
    BY <1>23 DEF Shutdown, CancelRuns
  <2>2. \A k \in Lane : \A i \in DOMAIN queue[k] : queue[k][i] \in Run /\ laneOf[queue[k][i]] = k /\ at[queue[k][i]] # "none"
    <3>1. \A k \in Lane : \A i \in DOMAIN queue[k] : queue[k][i] \in Run
      BY DEF LaneTypes
    <3> QED BY <3>1, ChatAssumption DEF QueueInv, FreshInv
  <2>3. \A k \in Lane : \A i, j \in DOMAIN queue[k] :
            i < j /\ queue[k][j] \in cancelled' /\ at[queue[k][i]] \notin Closing \cup Over
              => queue[k][i] \in cancelled'
    BY <1>23, <2>2 DEF QueueInv, Shutdown, CancelRuns, Cancellable
  <2> QED BY <2>1, <2>3 DEF QueueInv, Mine
<1>24. CASE UNCHANGED vars
  BY <1>24
  DEF LaneTypes, SetTypes, StateTypes, FreshInv, QueueInv, Mine, Cancellable, Admission, Closing,
      Over, Executing, vars, lanevars, runvars, fxvars
<1> QED
  BY <1>1, <1>2, <1>3, <1>4, <1>5, <1>6, <1>7, <1>8, <1>9, <1>10, <1>11, <1>12, <1>13, <1>14, <1>15,
     <1>16, <1>17, <1>18, <1>19, <1>20, <1>21, <1>22, <1>23, <1>24
  DEF Next, Progress, Effect

(* Places and turns stay in step.                                            *)
LEMMA StageStep ==
  ASSUME LaneTypes, SetTypes, StateTypes, CountTypes, FreshInv, QueueInv, StageInv, StopInv, EndInv,
         [Next]_vars
  PROVE  StageInv'
<1> USE DEF SetTypes, StateTypes, CountTypes, FreshInv, StageInv, StopInv, EndInv, Quiet, Unended,
           Ends, Cancellable, Admission, Closing, Over, Executing
<1>1. ASSUME NEW r \in Run, NEW l \in Lane, Submit(r, l) PROVE StageInv'
  BY <1>1 DEF Submit, Go, fxvars
<1>2. ASSUME NEW r \in Run, AdmitRun(r) \/ StartRun(r) \/ Started(r) PROVE StageInv'
  BY <1>2, AdmissionIs DEF AdmissionMoves
<1>3. ASSUME NEW r \in Run, ExecuteRun(r) \/ Activated(r) \/ Resumed(r) \/ EnterRuntime(r)
      PROVE StageInv'
  BY <1>3
  DEF ExecuteRun, BlockOrCancel, Settle, Stamp, Go, Block, lanevars, fxvars, Activated, Opened,
      TurnTo, FaultAfter, Fault, Resumed, EnterRuntime
<1>4. ASSUME NEW r \in Run, RuntimeEvent(r) \/ RuntimeSettles(r) \/ EffectsSettled(r)
      PROVE StageInv'
  BY <1>4
  DEF RuntimeEvent, MarkDirty, Accepting, lanevars, RuntimeSettles, Go, fxvars, EffectsSettled,
      Settle, Stamp
<1>5. ASSUME NEW r \in Run, FinalizeRun(r) \/ Flushed(r) \/ FinalDone(r) \/ BlockedDone(r)
      PROVE StageInv'
  BY <1>5
  DEF FinalizeRun, Stamp, Go, lanevars, Flushed, fxvars, FinalDone, Opened, Cleared, TurnTo,
      FaultAfter, Fault, Fold, Finalized, BlockedDone
<1>6. ASSUME NEW r \in Run, ClaimDone(r) \/ ArtDone(r) PROVE StageInv'
  BY <1>6 DEF ClaimDone, Opened, Cleared, Fault, lanevars, ArtDone, MarkDirty
<1>7. ASSUME NEW r \in Run, CheckpointDue(r) \/ CheckpointDone(r) PROVE StageInv'
  BY <1>7 DEF CheckpointDue, lanevars, runvars, CheckpointDone, Opened, Cleared, Fault
<1>8. ASSUME NEW r \in Run, AskAfterStart(r) \/ AskAfterActivation(r) PROVE StageInv'
  BY <1>8 DEF AskAfterStart, AskTo, lanevars, runvars, AskAfterActivation
<1>9. ASSUME NEW r \in Run, AskAfterFlush(r) \/ AskDone(r) PROVE StageInv'
  BY <1>9
  DEF AskAfterFlush, AskTo, lanevars, runvars, AskDone, Opened, TurnTo, FaultAfter, Fault, Asked
<1>10. ASSUME NEW l \in Lane, LoadLane(l) \/ DrainNext(l) \/ PruneLane(l) PROVE StageInv'
  BY <1>10 DEF LoadLane, Fault, runvars, fxvars, DrainNext, PruneLane
<1>11. ASSUME (\E l \in Lane : StopConversation(l)) \/ Shutdown PROVE StageInv'
  BY <1>11 DEF StopConversation, CancelRuns, lanevars, Shutdown
<1>12. CASE UNCHANGED vars
  BY <1>12 DEF vars, lanevars, runvars, fxvars
<1> QED
  BY <1>1, <1>2, <1>3, <1>4, <1>5, <1>6, <1>7, <1>8, <1>9, <1>10, <1>11, <1>12
  DEF Next, Progress, Effect

(* A stop stays behind the output of its run.                                *)
LEMMA StopStep ==
  ASSUME LaneTypes, SetTypes, StateTypes, CountTypes, FreshInv, StageInv, StopInv, EndInv,
         [Next]_vars
  PROVE  StopInv'
<1> USE DEF SetTypes, StateTypes, CountTypes, FreshInv, StageInv, StopInv, EndInv, Quiet, Saved,
           Saving, Cancellable, Admission, Closing, Over, Executing
<1>1. ASSUME NEW r \in Run, NEW l \in Lane, Submit(r, l) PROVE StopInv'
  BY <1>1 DEF Submit, Go, fxvars
<1>2. ASSUME NEW r \in Run, AdmitRun(r) \/ StartRun(r) \/ Started(r) PROVE StopInv'
  BY <1>2 DEF AdmitRun, Go, Reject, Stamp, StartRun, Started, TurnTo, FaultAfter, Fault
<1>3. ASSUME NEW r \in Run, ExecuteRun(r) \/ Activated(r) \/ Resumed(r) \/ EnterRuntime(r)
      PROVE StopInv'
  BY <1>3
  DEF ExecuteRun, BlockOrCancel, Settle, Stamp, Go, Block, lanevars, fxvars, Activated, Opened,
      TurnTo, FaultAfter, Fault, Resumed, EnterRuntime
<1>4. ASSUME NEW r \in Run, RuntimeEvent(r) \/ RuntimeSettles(r) \/ EffectsSettled(r)
      PROVE StopInv'
  BY <1>4
  DEF RuntimeEvent, MarkDirty, Accepting, lanevars, RuntimeSettles, Go, fxvars, EffectsSettled,
      Settle, Stamp
<1>5. ASSUME NEW r \in Run, FinalDone(r) PROVE StopInv'
  <2>1. /\ at[r] = "final" /\ UNCHANGED <<cancelled, open, asking, dirty, ckpt>>
        /\ turn' = turn \/ turn' = [turn EXCEPT ![r] = Finalized(r, status[r])]
    BY <1>5 DEF FinalDone, FaultAfter, TurnTo, fxvars
  <2>2. Finalized(r, status[r]) = "cancelRequested" => turn[r] = "cancelRequested"
    BY DEF Finalized, StateTypes, Ends
  <2>3. \A q \in Run : turn'[q] = "cancelRequested" => turn[q] = "cancelRequested"
    BY <2>1, <2>2 DEF StateTypes
  <2> QED BY <2>1, <2>3 DEF StopInv, Saved, Saving
<1>6. ASSUME NEW r \in Run, FinalizeRun(r) PROVE StopInv'
  BY <1>6, FinalizeWrites DEF Written, KeepsSaved, lanevars
<1>7. ASSUME NEW r \in Run, Flushed(r) \/ BlockedDone(r) PROVE StopInv'
  BY <1>7 DEF Flushed, Stamp, Go, lanevars, fxvars, BlockedDone
<1>8. ASSUME NEW r \in Run, ClaimDone(r) \/ ArtDone(r) PROVE StopInv'
  BY <1>8 DEF ClaimDone, Opened, Cleared, Fault, lanevars, ArtDone, MarkDirty
<1>9. ASSUME NEW r \in Run, CheckpointDue(r) PROVE StopInv'
  BY <1>9, DueWrites DEF Written, KeepsSaved, lanevars, runvars
<1>10. ASSUME NEW r \in Run, CheckpointDone(r) PROVE StopInv'
  BY <1>10, DoneWrites DEF Written, KeepsSaved, lanevars, runvars
<1>11. ASSUME NEW r \in Run, AskAfterStart(r) \/ AskAfterActivation(r) PROVE StopInv'
  BY <1>11, AskWrites DEF Written, KeepsSaved, lanevars, runvars
<1>12. ASSUME NEW r \in Run, AskAfterFlush(r) \/ AskDone(r) PROVE StopInv'
  BY <1>12
  DEF AskAfterFlush, AskTo, lanevars, runvars, AskDone, Opened, TurnTo, FaultAfter, Fault, Asked
<1>13. ASSUME NEW l \in Lane, LoadLane(l) \/ DrainNext(l) \/ PruneLane(l) PROVE StopInv'
  BY <1>13 DEF LoadLane, Fault, runvars, fxvars, DrainNext, PruneLane
<1>14. ASSUME (\E l \in Lane : StopConversation(l)) \/ Shutdown PROVE StopInv'
  BY <1>14 DEF StopConversation, CancelRuns, lanevars, Shutdown
<1>15. CASE UNCHANGED vars
  BY <1>15 DEF vars, lanevars, runvars, fxvars
<1> QED
  BY <1>1, <1>2, <1>3, <1>4, <1>5, <1>6, <1>7, <1>8, <1>9, <1>10, <1>11, <1>12, <1>13, <1>14, <1>15
  DEF Next, Progress, Effect

(* An end stays behind the effects and the output of its run.                *)
LEMMA EndStep ==
  ASSUME LaneTypes, SetTypes, StateTypes, CountTypes, FreshInv, StageInv, StopInv, EndInv,
         [Next]_vars
  PROVE  EndInv'
<1> USE DEF SetTypes, StateTypes, CountTypes, FreshInv, StageInv, StopInv, EndInv, Quiet, Saved,
           Saving, Cancellable, Admission, Closing, Over, Executing
<1>1. ASSUME NEW r \in Run, NEW l \in Lane, Submit(r, l) PROVE EndInv'
  BY <1>1 DEF Submit, Go, fxvars
<1>2. ASSUME NEW r \in Run, AdmitRun(r) \/ StartRun(r) \/ Started(r) PROVE EndInv'
  BY <1>2 DEF AdmitRun, Go, Reject, Stamp, StartRun, Started, TurnTo, FaultAfter, Fault
<1>3. ASSUME NEW r \in Run, ExecuteRun(r) \/ Activated(r) \/ Resumed(r) \/ EnterRuntime(r)
      PROVE EndInv'
  BY <1>3
  DEF ExecuteRun, BlockOrCancel, Settle, Stamp, Go, Block, lanevars, fxvars, Activated, Opened,
      TurnTo, FaultAfter, Fault, Resumed, EnterRuntime
<1>4. ASSUME NEW r \in Run, RuntimeEvent(r) \/ RuntimeSettles(r) \/ EffectsSettled(r)
      PROVE EndInv'
  BY <1>4
  DEF RuntimeEvent, MarkDirty, Accepting, lanevars, RuntimeSettles, Go, fxvars, EffectsSettled,
      Settle, Stamp
<1>5. ASSUME NEW r \in Run, FinalizeRun(r) PROVE EndInv'
  BY <1>5, FinalizeWrites DEF Written, KeepsSaved, lanevars
<1>6. ASSUME NEW r \in Run, Flushed(r) \/ FinalDone(r) \/ BlockedDone(r) PROVE EndInv'
  BY <1>6
  DEF Flushed, Stamp, Go, lanevars, fxvars, FinalDone, Opened, Cleared, TurnTo, FaultAfter, Fault,
      Fold, Finalized, BlockedDone
<1>7. ASSUME NEW r \in Run, ClaimDone(r) \/ ArtDone(r) PROVE EndInv'
  BY <1>7 DEF ClaimDone, Opened, Cleared, Fault, lanevars, ArtDone, MarkDirty
<1>8. ASSUME NEW r \in Run, CheckpointDue(r) PROVE EndInv'
  BY <1>8, DueWrites DEF Written, KeepsSaved, lanevars, runvars
<1>9. ASSUME NEW r \in Run, CheckpointDone(r) PROVE EndInv'
  BY <1>9, DoneWrites DEF Written, KeepsSaved, lanevars, runvars
<1>10. ASSUME NEW r \in Run, AskAfterStart(r) \/ AskAfterActivation(r) PROVE EndInv'
  BY <1>10, AskWrites DEF Written, KeepsSaved, lanevars, runvars
<1>11. ASSUME NEW r \in Run, AskAfterFlush(r) \/ AskDone(r) PROVE EndInv'
  BY <1>11
  DEF AskAfterFlush, AskTo, lanevars, runvars, AskDone, Opened, TurnTo, FaultAfter, Fault, Asked
<1>12. ASSUME NEW l \in Lane, LoadLane(l) \/ DrainNext(l) \/ PruneLane(l) PROVE EndInv'
  BY <1>12 DEF LoadLane, Fault, runvars, fxvars, DrainNext, PruneLane
<1>13. ASSUME (\E l \in Lane : StopConversation(l)) \/ Shutdown PROVE EndInv'
  BY <1>13 DEF StopConversation, CancelRuns, lanevars, Shutdown
<1>14. CASE UNCHANGED vars
  BY <1>14 DEF vars, lanevars, runvars, fxvars
<1> QED
  BY <1>1, <1>2, <1>3, <1>4, <1>5, <1>6, <1>7, <1>8, <1>9, <1>10, <1>11, <1>12, <1>13, <1>14
  DEF Next, Progress, Effect

(* The failed writes that a successful one does not undo.                    *)
Lasting == {"activation", "session", "cancellation", "final"}

(* A step about a run that has not ended with output of its own, and does not*)
(* end like that, takes nothing from what the others keep.                   *)
LEMMA SaveStays ==
  ASSUME LaneTypes, SetTypes, StateTypes, QueueInv, SaveInv, NEW r \in Run, UNCHANGED <<marker, window, final>>,
         \A q \in Run \ {r} : /\ laneOf'[q] = laneOf[q] /\ at'[q] = at[q] /\ told'[q] = told[q]
                              /\ turn'[q] = turn[q] /\ status'[q] = status[q],
         at[r] # "done" \/ told[r] # "none",
         at'[r] # "done" \/ told'[r] # "none",
         \A q \in Run \ {r}, stage \in Lasting : <<q, stage>> \in circuits => <<q, stage>> \in circuits',
         at'[r] \in Executing \ {"blocked"} =>
           /\ laneOf'[r] = laneOf[r]
           /\ at[r] \in Executing \ {"blocked"} \/ marker[laneOf[r]] = NoRun
  PROVE  SaveInv'
<1>1. ASSUME NEW l \in Lane, marker[l] # NoRun
      PROVE  /\ marker[l] \in Run \ {r}
             /\ laneOf'[marker[l]] = l /\ at'[marker[l]] = "done" /\ told'[marker[l]] = "none"
             /\ (PersistenceError(marker[l]) \/ SessionError(marker[l]))'
  <2>1. PICK x \in Run : x = marker[l]
    BY <1>1 DEF LaneTypes
  <2>2. laneOf[x] = l /\ at[x] = "done" /\ told[x] = "none" /\ (PersistenceError(x) \/ SessionError(x))
    BY <1>1, <2>1 DEF SaveInv
  <2>3. \E stage \in Lasting : <<x, stage>> \in circuits
    BY <2>2 DEF Lasting, PersistenceError, SessionError
  <2>4. \E stage \in Lasting : <<x, stage>> \in circuits'
    BY <2>2, <2>3
  <2>5. (PersistenceError(x) \/ SessionError(x))'
    BY <2>4 DEF Lasting, PersistenceError, SessionError
  <2> QED BY <2>1, <2>2, <2>5
<1>2. (\A l \in Lane : marker[l] # NoRun =>
         LET x == marker[l] IN
         /\ laneOf[x] = l /\ at[x] = "done" /\ told[x] = "none"
         /\ PersistenceError(x) \/ SessionError(x))'
  BY <1>1
<1>3. (\A q \in Run : at[q] \in Executing /\ marker[laneOf[q]] # NoRun => at[q] = "blocked")'
  BY DEF SaveInv
<1>4. (\A q \in final : at[q] = "done" /\ told[q] = "none" /\ turn[q] = status[q])'
  BY DEF SaveInv, SetTypes
<1>5. (\A q \in Run : at[q] = "done" /\ told[q] = "none" /\ q \notin final =>
         q \in window[laneOf[q]] /\ marker[laneOf[q]] = q)'
  BY DEF SaveInv
<1> QED BY <1>2, <1>3, <1>4, <1>5 DEF SaveInv

(* What is unsaved stays behind its circuit and its marker.                  *)
LEMMA SaveStep ==
  ASSUME LaneTypes, SetTypes, StateTypes, CountTypes, TailInv, FreshInv, QueueInv, StageInv,
         StopInv, EndInv, SaveInv,
         [Next]_vars
  PROVE  SaveInv'
<1>1. ASSUME NEW r \in Run, NEW l \in Lane, Submit(r, l) PROVE SaveInv'
  <2>1. /\ at[r] = "none" /\ laneOf' = [laneOf EXCEPT ![r] = l] /\ at' = [at EXCEPT ![r] = "load"]
        /\ UNCHANGED <<marker, window, final, told, turn, status, circuits>>
    BY <1>1 DEF Submit, Go
  <2>2. /\ \A q \in Run \ {r} : laneOf'[q] = laneOf[q] /\ at'[q] = at[q]
        /\ at'[r] = "load"
    BY <2>1 DEF LaneTypes, StateTypes
  <2> QED BY <2>1, <2>2, SaveStays DEF Executing, Closing
<1>2. ASSUME NEW r \in Run, AdmitRun(r) PROVE SaveInv'
  <2>1. at'[r] \notin Executing \cup {"done"}
    BY <1>2, AdmissionIs DEF AdmissionMoves, Executing, Closing
  <2> QED BY <1>2, <2>1, AdmissionIs, SaveStays DEF Admission
<1>3. ASSUME NEW r \in Run, StartRun(r) PROVE SaveInv'
  <2>1. at'[r] \notin Executing \cup {"done"}
    BY <1>3, AdmissionIs DEF AdmissionMoves, Executing, Closing
  <2> QED BY <1>3, <2>1, AdmissionIs, SaveStays DEF Admission
<1>4. ASSUME NEW r \in Run, Started(r) PROVE SaveInv'
  <2>1. at'[r] \notin Executing \cup {"done"}
    BY <1>4, AdmissionIs DEF AdmissionMoves, Executing, Closing
  <2> QED BY <1>4, <2>1, AdmissionIs, SaveStays DEF Admission
<1>5. ASSUME NEW r \in Run, ExecuteRun(r) PROVE SaveInv'
  <2>1. at[r] # "done" /\ at'[r] # "done" /\ at[r] # "blocked"
    BY <1>5, ExecutionIs DEF ExecutionMoves
  <2>2. at[r] = "admitted" /\ at'[r] # "blocked" => marker[laneOf[r]] = NoRun
    BY <1>5, ExecutionIs DEF ExecutionMoves, QueueInv, SaveInv, PersistenceError, SessionError
  <2>3. at[r] # "admitted" => at[r] \in Executing
    BY <1>5, ExecutionIs DEF Executing
  <2>4. /\ UNCHANGED <<laneOf, marker, window, final, told>>
        /\ \A q \in Run \ {r} : at'[q] = at[q] /\ status'[q] = status[q]
        /\ circuits \subseteq circuits'
    BY <1>5, ExecutionIs DEF lanevars
  <2>5. \A q \in Run \ {r} : turn'[q] = turn[q]
    BY <1>5 DEF ExecuteRun, StateTypes
  <2> QED BY <2>1, <2>2, <2>3, <2>4, <2>5, SaveStays
<1>6. ASSUME NEW r \in Run, Activated(r) PROVE SaveInv'
  <2>1. at[r] # "done" /\ at'[r] # "done" /\ at[r] # "blocked"
    BY <1>6, ExecutionIs DEF ExecutionMoves
  <2>2. at[r] = "admitted" /\ at'[r] # "blocked" => marker[laneOf[r]] = NoRun
    BY <1>6, ExecutionIs DEF ExecutionMoves, QueueInv, SaveInv, PersistenceError, SessionError
  <2>3. at[r] # "admitted" => at[r] \in Executing
    BY <1>6, ExecutionIs DEF Executing
  <2>4. /\ UNCHANGED <<laneOf, marker, window, final, told>>
        /\ \A q \in Run \ {r} : at'[q] = at[q] /\ status'[q] = status[q]
        /\ circuits \subseteq circuits'
    BY <1>6, ExecutionIs DEF lanevars
  <2>5. \A q \in Run \ {r} : turn'[q] = turn[q]
    BY <1>6 DEF Activated, TurnTo, FaultAfter, StateTypes
  <2> QED BY <2>1, <2>2, <2>3, <2>4, <2>5, SaveStays
<1>7. ASSUME NEW r \in Run, Resumed(r) PROVE SaveInv'
  <2>1. at[r] # "done" /\ at'[r] # "done" /\ at[r] # "blocked"
    BY <1>7, ExecutionIs DEF ExecutionMoves
  <2>2. at[r] = "admitted" /\ at'[r] # "blocked" => marker[laneOf[r]] = NoRun
    BY <1>7, ExecutionIs DEF ExecutionMoves, QueueInv, SaveInv, PersistenceError, SessionError
  <2>3. at[r] # "admitted" => at[r] \in Executing
    BY <1>7, ExecutionIs DEF Executing
  <2>4. /\ UNCHANGED <<laneOf, marker, window, final, told>>
        /\ \A q \in Run \ {r} : at'[q] = at[q] /\ status'[q] = status[q]
        /\ circuits \subseteq circuits'
    BY <1>7, ExecutionIs DEF lanevars
  <2>5. \A q \in Run \ {r} : turn'[q] = turn[q]
    BY <1>7 DEF Resumed, StateTypes
  <2> QED BY <2>1, <2>2, <2>3, <2>4, <2>5, SaveStays
<1>8. ASSUME NEW r \in Run, EnterRuntime(r) PROVE SaveInv'
  <2>1. at[r] # "done" /\ at'[r] # "done" /\ at[r] # "blocked"
    BY <1>8, ExecutionIs DEF ExecutionMoves
  <2>2. at[r] = "admitted" /\ at'[r] # "blocked" => marker[laneOf[r]] = NoRun
    BY <1>8, ExecutionIs DEF ExecutionMoves, QueueInv, SaveInv, PersistenceError, SessionError
  <2>3. at[r] # "admitted" => at[r] \in Executing
    BY <1>8, ExecutionIs DEF Executing
  <2>4. /\ UNCHANGED <<laneOf, marker, window, final, told>>
        /\ \A q \in Run \ {r} : at'[q] = at[q] /\ status'[q] = status[q]
        /\ circuits \subseteq circuits'
    BY <1>8, ExecutionIs DEF lanevars
  <2>5. \A q \in Run \ {r} : turn'[q] = turn[q]
    BY <1>8 DEF EnterRuntime, StateTypes
  <2> QED BY <2>1, <2>2, <2>3, <2>4, <2>5, SaveStays
<1>9. ASSUME NEW r \in Run, RuntimeSettles(r) PROVE SaveInv'
  <2>1. /\ at[r] = "turn" /\ at' = [at EXCEPT ![r] = "effects"]
        /\ UNCHANGED <<lanevars, final, told, turn, circuits>>
        /\ \A q \in Run \ {r} : status'[q] = status[q]
    BY <1>9 DEF RuntimeSettles, Go, StateTypes
  <2>2. at'[r] = "effects" /\ \A q \in Run \ {r} : at'[q] = at[q]
    BY <2>1 DEF StateTypes
  <2> QED BY <2>1, <2>2, SaveStays DEF lanevars, Executing, Closing
<1>10. ASSUME NEW r \in Run, EffectsSettled(r) PROVE SaveInv'
  <2>1. /\ at[r] = "effects" /\ at' = [at EXCEPT ![r] = "settle"]
        /\ UNCHANGED <<lanevars, final, told, turn, circuits>>
        /\ \A q \in Run \ {r} : status'[q] = status[q]
    BY <1>10 DEF EffectsSettled, Settle, Go, Stamp, StateTypes
  <2>2. at'[r] = "settle" /\ \A q \in Run \ {r} : at'[q] = at[q]
    BY <2>1 DEF StateTypes
  <2> QED BY <2>1, <2>2, SaveStays DEF lanevars, Executing, Closing
<1>11. ASSUME NEW r \in Run, RuntimeEvent(r) PROVE SaveInv'
  BY <1>11
  DEF LaneTypes, SetTypes, StateTypes, FreshInv, StageInv, EndInv, SaveInv, PersistenceError,
      SessionError, Quiet, Admission, Closing, Over, Executing, RuntimeEvent, MarkDirty, Accepting,
      lanevars
<1>12. ASSUME NEW r \in Run, FinalizeRun(r) PROVE SaveInv'
  <2>1. /\ at[r] = "settle" /\ at' = [at EXCEPT ![r] = "flush"]
        /\ UNCHANGED <<lanevars, final, told, turn, circuits>>
        /\ \A q \in Run \ {r} : status'[q] = status[q]
    BY <1>12, FinalizeWrites DEF Stamp, StateTypes
  <2>2. at'[r] = "flush" /\ \A q \in Run \ {r} : at'[q] = at[q]
    BY <2>1 DEF StateTypes
  <2> QED BY <2>1, <2>2, SaveStays DEF lanevars, Executing, Closing
<1>13. ASSUME NEW r \in Run, Flushed(r) PROVE SaveInv'
  <2>1. /\ at[r] = "flush" /\ at' = [at EXCEPT ![r] = "final"]
        /\ UNCHANGED <<lanevars, final, told, turn, circuits>>
        /\ \A q \in Run \ {r} : status'[q] = status[q]
    BY <1>13 DEF Flushed, Go, Stamp, StateTypes
  <2>2. at'[r] = "final" /\ \A q \in Run \ {r} : at'[q] = at[q]
    BY <2>1 DEF StateTypes
  <2> QED BY <2>1, <2>2, SaveStays DEF lanevars, Executing, Closing
<1>14. ASSUME NEW r \in Run, FinalDone(r) PROVE SaveInv'
  <2> DEFINE l == laneOf[r]
  <2>1. /\ at[r] = "final" /\ at' = [at EXCEPT ![r] = "done"]
        /\ UNCHANGED <<laneOf, cancelled, told>>
        /\ \/ /\ status' = status /\ turn' = [turn EXCEPT ![r] = Finalized(r, status[r])]
              /\ \/ /\ final' = final \cup {r} /\ UNCHANGED <<marker, window>>
                 \/ /\ PersistenceError(r) \/ SessionError(r)
                    /\ final' = final
                    /\ marker' = [marker EXCEPT ![l] = IF @ = NoRun THEN r ELSE @]
                    /\ window' = [window EXCEPT ![l] = @ \cup {r}]
              /\ circuits' = circuits \ {<<r, "checkpoint">>}
           \/ /\ status' = [status EXCEPT ![r] = "failed"]
              /\ turn' = turn \/ turn' = [turn EXCEPT ![r] = Finalized(r, status[r])]
              /\ final' = final
              /\ marker' = [marker EXCEPT ![l] = IF @ = NoRun THEN r ELSE @]
              /\ window' = [window EXCEPT ![l] = @ \cup {r}]
              /\ circuits' = circuits \cup {<<r, "final">>}
    BY <1>14 DEF FinalDone, Fold, Go, Stamp, TurnTo, FaultAfter, Opened, Cleared
  <2>2. /\ l \in Lane /\ marker[l] = NoRun /\ told[r] = "none" /\ r \notin final
    BY <2>1 DEF QueueInv, SaveInv, StageInv, Executing, Closing
  <2>3. /\ at'[r] = "done" /\ \A q \in Run \ {r} : at'[q] = at[q] /\ turn'[q] = turn[q] /\ status'[q] = status[q]
    BY <2>1 DEF StateTypes
  <2>4. \A q \in Run, stage \in Lasting : <<q, stage>> \in circuits => <<q, stage>> \in circuits'
    BY <2>1 DEF Lasting
  <2>5. r \in final' => turn'[r] = status'[r] /\ UNCHANGED <<marker, window>> /\ final' = final \cup {r}
    <3>1. Finalized(r, status[r]) = status[r]
      BY <2>1 DEF StageInv, StopInv, StateTypes, Finalized, Executing, Closing, Unended, Ends
    <3> QED BY <2>1, <2>2, <3>1 DEF StateTypes
  <2>6. r \notin final' =>
          /\ marker'[l] = r /\ r \in window'[l] /\ final' = final
          /\ \A k \in Lane \ {l} : marker'[k] = marker[k] /\ window'[k] = window[k]
          /\ \E stage \in Lasting : <<r, stage>> \in circuits'
    BY <2>1, <2>2 DEF LaneTypes, Lasting, PersistenceError, SessionError
  <2>7. \A q \in Run \ {r} : laneOf[q] = l => at[q] \notin Executing
    BY <2>1, OneInLane DEF Executing, Closing
  <2>8. ASSUME NEW k \in Lane, marker'[k] # NoRun
        PROVE  /\ laneOf[marker'[k]] = k /\ at'[marker'[k]] = "done" /\ told[marker'[k]] = "none"
               /\ \E stage \in Lasting : <<marker'[k], stage>> \in circuits'
    <3>1. CASE marker'[k] = r
      BY <2>2, <2>3, <2>5, <2>6, <2>8, <3>1 DEF SaveInv
    <3>2. CASE marker'[k] # r
      <4>1. marker'[k] = marker[k] /\ marker[k] \in Run
        BY <2>2, <2>5, <2>6, <2>8, <3>2 DEF LaneTypes
      <4>2. laneOf[marker[k]] = k /\ at[marker[k]] = "done" /\ told[marker[k]] = "none"
            /\ \E stage \in Lasting : <<marker[k], stage>> \in circuits
        BY <2>8, <4>1 DEF SaveInv, PersistenceError, SessionError, Lasting
      <4> QED BY <2>3, <2>4, <3>2, <4>1, <4>2
    <3> QED BY <3>1, <3>2
  <2>9. (\A k \in Lane : marker[k] # NoRun =>
           LET x == marker[k] IN
           /\ laneOf[x] = k /\ at[x] = "done" /\ told[x] = "none"
           /\ PersistenceError(x) \/ SessionError(x))'
    BY <2>1, <2>8 DEF Lasting, PersistenceError, SessionError
  <2>10. (\A q \in Run : at[q] \in Executing /\ marker[laneOf[q]] # NoRun => at[q] = "blocked")'
    <3> SUFFICES ASSUME NEW q \in Run, at'[q] \in Executing, marker'[laneOf[q]] # NoRun
                 PROVE  at'[q] = "blocked"
      BY <2>1
    <3>1. q # r /\ laneOf[q] # l
      BY <2>3, <2>7 DEF Executing, Closing
    <3>2. laneOf[q] \in Lane
      BY <2>3 DEF Executing, Closing, QueueInv
    <3> QED BY <2>3, <2>5, <2>6, <3>1, <3>2 DEF SaveInv
  <2>11. (\A q \in final : at[q] = "done" /\ told[q] = "none" /\ turn[q] = status[q])'
    BY <2>1, <2>2, <2>3, <2>5, <2>6 DEF SaveInv, SetTypes
  <2>12. (\A q \in Run : at[q] = "done" /\ told[q] = "none" /\ q \notin final =>
            q \in window[laneOf[q]] /\ marker[laneOf[q]] = q)'
    <3> SUFFICES ASSUME NEW q \in Run, at'[q] = "done", told[q] = "none", q \notin final'
                 PROVE  q \in window'[laneOf[q]] /\ marker'[laneOf[q]] = q
      BY <2>1
    <3>1. CASE q = r
      BY <2>6, <3>1
    <3>2. CASE q # r
      <4>1. q \in window[laneOf[q]] /\ marker[laneOf[q]] = q /\ laneOf[q] \in Lane
        BY <2>1, <2>3, <3>2 DEF SaveInv, QueueInv
      <4>2. laneOf[q] # l
        BY <2>2, <4>1, ChatAssumption
      <4> QED BY <2>5, <2>6, <4>1, <4>2
    <3> QED BY <3>1, <3>2
  <2> QED BY <2>9, <2>10, <2>11, <2>12 DEF SaveInv
<1>15. ASSUME NEW r \in Run, BlockedDone(r) PROVE SaveInv'
  <2>1. /\ at[r] = "blocked" /\ at' = [at EXCEPT ![r] = "done"]
        /\ UNCHANGED <<lanevars, final, turn, circuits>>
        /\ \A q \in Run \ {r} : status'[q] = status[q] /\ told'[q] = told[q]
        /\ told'[r] # "none"
    BY <1>15 DEF BlockedDone, Go, Stamp, StateTypes
  <2>2. at'[r] = "done" /\ \A q \in Run \ {r} : at'[q] = at[q]
    BY <2>1 DEF StateTypes
  <2> QED BY <2>1, <2>2, SaveStays DEF lanevars, Executing, Closing
<1>16. ASSUME NEW r \in Run, ClaimDone(r) PROVE SaveInv'
  <2>1. at[r] \in {"turn", "effects"}
    BY <1>16 DEF ClaimDone, StageInv
  <2>2. /\ UNCHANGED <<lanevars, at, final, told, turn, status>>
        /\ \/ circuits' = circuits \ {<<r, "session">>}
           \/ circuits \subseteq circuits'
    BY <1>16 DEF ClaimDone, Opened, Cleared
  <2>3. \A q \in Run \ {r}, stage \in Lasting : <<q, stage>> \in circuits => <<q, stage>> \in circuits'
    BY <2>2
  <2> QED BY <2>1, <2>2, <2>3, SaveStays DEF lanevars, Executing
<1>17. ASSUME NEW r \in Run, ArtDone(r) PROVE SaveInv'
  BY <1>17
  DEF LaneTypes, SetTypes, StateTypes, FreshInv, StageInv, EndInv, SaveInv, PersistenceError,
      SessionError, Quiet, Admission, Closing, Over, Executing, ArtDone, MarkDirty, lanevars
<1>18. ASSUME NEW r \in Run, CheckpointDone(r) PROVE SaveInv'
  <2>1. /\ UNCHANGED <<lanevars, runvars, turn>> /\ (at[r] # "done" \/ told[r] # "none")
    BY <1>18, DoneWrites DEF EndInv
  <2>2. \/ circuits' = circuits \ {<<r, "checkpoint">>}
        \/ circuits \subseteq circuits'
    BY <1>18 DEF CheckpointDone, Opened, Cleared
  <2>3. \A q \in Run \ {r}, stage \in Lasting : <<q, stage>> \in circuits => <<q, stage>> \in circuits'
    BY <2>2
  <2> QED BY <2>1, <2>2, <2>3, SaveStays DEF lanevars, runvars
<1>19. ASSUME NEW r \in Run, CheckpointDue(r) PROVE SaveInv'
  BY <1>19
  DEF LaneTypes, SetTypes, StateTypes, FreshInv, StageInv, EndInv, SaveInv, PersistenceError,
      SessionError, Quiet, Admission, Closing, Over, Executing, CheckpointDue, lanevars, runvars
<1>20. ASSUME NEW r \in Run, AskAfterStart(r) PROVE SaveInv'
  BY <1>20
  DEF LaneTypes, SetTypes, StateTypes, FreshInv, StageInv, EndInv, SaveInv, PersistenceError,
      SessionError, Quiet, Admission, Closing, Over, Executing, AskAfterStart, AskTo, lanevars,
      runvars
<1>21. ASSUME NEW r \in Run, AskAfterActivation(r) PROVE SaveInv'
  BY <1>21
  DEF LaneTypes, SetTypes, StateTypes, FreshInv, StageInv, EndInv, SaveInv, PersistenceError,
      SessionError, Quiet, Admission, Closing, Over, Executing, AskAfterActivation, AskTo, lanevars,
      runvars
<1>22. ASSUME NEW r \in Run, AskDone(r) PROVE SaveInv'
  <2>1. /\ UNCHANGED <<lanevars, runvars>> /\ (at[r] # "done" \/ told[r] # "none")
        /\ circuits \subseteq circuits' /\ \A q \in Run \ {r} : turn'[q] = turn[q]
    BY <1>22 DEF AskDone, Opened, TurnTo, FaultAfter, EndInv, Quiet, StateTypes
  <2> QED BY <2>1, SaveStays DEF lanevars, runvars
<1>23. ASSUME NEW r \in Run, AskAfterFlush(r) PROVE SaveInv'
  BY <1>23
  DEF LaneTypes, SetTypes, StateTypes, FreshInv, StageInv, EndInv, SaveInv, PersistenceError,
      SessionError, Quiet, Admission, Closing, Over, Executing, AskAfterFlush, AskTo, lanevars,
      runvars
<1>24. ASSUME NEW l \in Lane, PruneLane(l) PROVE SaveInv'
  <2>1. /\ marker[l] = NoRun /\ window' = [window EXCEPT ![l] = {}]
        /\ UNCHANGED <<laneOf, marker, runvars, circuits, turn>>
    BY <1>24 DEF PruneLane
  <2>2. \A k \in Lane \ {l} : window'[k] = window[k]
    BY <2>1 DEF LaneTypes
  <2>3. (\A q \in Run : at[q] = "done" /\ told[q] = "none" /\ q \notin final =>
           q \in window[laneOf[q]] /\ marker[laneOf[q]] = q)'
    BY <2>1, <2>2, ChatAssumption DEF runvars, QueueInv, SaveInv
  <2> QED BY <2>1, <2>3 DEF runvars, SaveInv, PersistenceError, SessionError
<1>25. ASSUME NEW l \in Lane, LoadLane(l) PROVE SaveInv'
  BY <1>25
  DEF LaneTypes, SetTypes, StateTypes, FreshInv, StageInv, EndInv, SaveInv, PersistenceError,
      SessionError, Quiet, Admission, Closing, Over, Executing, LoadLane, Fault, runvars, fxvars
<1>26. ASSUME NEW l \in Lane, DrainNext(l) PROVE SaveInv'
  BY <1>26
  DEF LaneTypes, SetTypes, StateTypes, FreshInv, StageInv, EndInv, SaveInv, PersistenceError,
      SessionError, Quiet, Admission, Closing, Over, Executing, DrainNext, runvars, fxvars
<1>27. ASSUME NEW l \in Lane, StopConversation(l) PROVE SaveInv'
  BY <1>27
  DEF LaneTypes, SetTypes, StateTypes, FreshInv, StageInv, EndInv, SaveInv, PersistenceError,
      SessionError, Quiet, Admission, Closing, Over, Executing, StopConversation, CancelRuns,
      lanevars
<1>28. ASSUME Shutdown PROVE SaveInv'
  BY <1>28
  DEF LaneTypes, SetTypes, StateTypes, FreshInv, StageInv, EndInv, SaveInv, PersistenceError,
      SessionError, Quiet, Admission, Closing, Over, Executing, Shutdown, CancelRuns
<1>29. CASE UNCHANGED vars
  BY <1>29
  DEF LaneTypes, SetTypes, StateTypes, FreshInv, StageInv, EndInv, SaveInv, PersistenceError,
      SessionError, Quiet, Admission, Closing, Over, Executing, vars, lanevars, runvars, fxvars
<1> QED
  BY <1>1, <1>2, <1>3, <1>4, <1>5, <1>6, <1>7, <1>8, <1>9, <1>10, <1>11, <1>12, <1>13, <1>14, <1>15,
     <1>16, <1>17, <1>18, <1>19, <1>20, <1>21, <1>22, <1>23, <1>24, <1>25, <1>26, <1>27, <1>28,
     <1>29
  DEF Next, Progress, Effect

(* One turn of a conversation runs at a time.                                *)
LEMMA ActiveStep ==
  ASSUME LaneTypes, SetTypes, StateTypes, CountTypes, FreshInv, StageInv, StopInv, ActiveInv,
         [Next]_vars
  PROVE  ActiveInv'
<1> USE DEF SetTypes, StateTypes, FreshInv, StageInv, ActiveInv, Mates, Alone, MayBegin, MayActivate,
           Unended, Ends, Admission, Closing, Over, Executing
<1>1. ASSUME NEW r \in Run, NEW l \in Lane, Submit(r, l) PROVE ActiveInv'
  BY <1>1 DEF Submit, Go, fxvars
<1>2. ASSUME NEW r \in Run, AdmitRun(r) \/ StartRun(r) \/ Started(r) PROVE ActiveInv'
  BY <1>2 DEF AdmitRun, Go, Reject, Stamp, StartRun, Started, TurnTo, FaultAfter, Fault
<1>3. ASSUME NEW r \in Run, ExecuteRun(r) \/ Activated(r) \/ Resumed(r) \/ EnterRuntime(r)
      PROVE ActiveInv'
  BY <1>3
  DEF ExecuteRun, BlockOrCancel, Settle, Stamp, Go, Block, lanevars, fxvars, Activated, Opened,
      TurnTo, FaultAfter, Fault, Resumed, EnterRuntime
<1>4. ASSUME NEW r \in Run, RuntimeEvent(r) \/ RuntimeSettles(r) \/ EffectsSettled(r)
      PROVE ActiveInv'
  BY <1>4
  DEF RuntimeEvent, MarkDirty, Accepting, lanevars, RuntimeSettles, Go, fxvars, EffectsSettled,
      Settle, Stamp
<1>5. ASSUME NEW r \in Run, FinalizeRun(r) \/ Flushed(r) \/ FinalDone(r) \/ BlockedDone(r)
      PROVE ActiveInv'
  BY <1>5
  DEF FinalizeRun, Stamp, Go, lanevars, Flushed, fxvars, FinalDone, Opened, Cleared, TurnTo,
      FaultAfter, Fault, Fold, Finalized, BlockedDone
<1>6. ASSUME NEW r \in Run, ClaimDone(r) \/ ArtDone(r) PROVE ActiveInv'
  BY <1>6 DEF ClaimDone, Opened, Cleared, Fault, lanevars, ArtDone, MarkDirty
<1>7. ASSUME NEW r \in Run, CheckpointDue(r) \/ CheckpointDone(r) PROVE ActiveInv'
  BY <1>7 DEF CheckpointDue, lanevars, runvars, CheckpointDone, Opened, Cleared, Fault
<1>8. ASSUME NEW r \in Run, AskAfterStart(r) \/ AskAfterActivation(r) PROVE ActiveInv'
  BY <1>8 DEF AskAfterStart, AskTo, lanevars, runvars, AskAfterActivation
<1>9. ASSUME NEW r \in Run, AskAfterFlush(r) \/ AskDone(r) PROVE ActiveInv'
  BY <1>9
  DEF AskAfterFlush, AskTo, lanevars, runvars, AskDone, Opened, TurnTo, FaultAfter, Fault, Asked
<1>10. ASSUME NEW l \in Lane, LoadLane(l) \/ DrainNext(l) \/ PruneLane(l) PROVE ActiveInv'
  BY <1>10 DEF LoadLane, Fault, runvars, fxvars, DrainNext, PruneLane
<1>11. ASSUME (\E l \in Lane : StopConversation(l)) \/ Shutdown PROVE ActiveInv'
  BY <1>11 DEF StopConversation, CancelRuns, lanevars, Shutdown
<1>12. CASE UNCHANGED vars
  BY <1>12 DEF vars, lanevars, runvars, fxvars
<1> QED
  BY <1>1, <1>2, <1>3, <1>4, <1>5, <1>6, <1>7, <1>8, <1>9, <1>10, <1>11, <1>12
  DEF Next, Progress, Effect

-----------------------------------------------------------------------------
(* Invariance, and the properties.                                           *)

IInv ==
  /\ LaneTypes /\ SetTypes /\ StateTypes /\ CountTypes
  /\ TailInv /\ FreshInv /\ QueueInv /\ StageInv /\ StopInv /\ EndInv /\ SaveInv /\ ActiveInv

(* The invariant holds at first.                                             *)
LEMMA Initially ==
  Init => IInv
<1> SUFFICES ASSUME Init PROVE IInv
  OBVIOUS
<1> USE ChatAssumption DEF Init
<1>1. LaneTypes
  <2>1. <<>> \in Seq(Run)
    OBVIOUS
  <2>2. queue \in [Lane -> Seq(Run)] /\ tail \in Seq(Run)
    BY <2>1
  <2>3. /\ laneOf \in [Run -> Lane \cup {NoLane}]
        /\ loaded \in [Lane -> {"no", "yes", "error"}]
        /\ marker \in [Lane -> Run \cup {NoRun}]
        /\ window \in [Lane -> SUBSET Run]
    OBVIOUS
  <2>4. circuits \subseteq Run \X Stages
    OBVIOUS
  <2>5. shutting \in BOOLEAN
    OBVIOUS
  <2>6. faults \in 0..MaxFaults
    OBVIOUS
  <2> QED BY <2>2, <2>3, <2>4, <2>5, <2>6 DEF LaneTypes
<1>2. SetTypes
  BY DEF SetTypes
<1>3. StateTypes
  BY StateNames DEF StateTypes
<1>4. CountTypes
  BY DEF CountTypes, Checkpoint, NoCkpt
<1>5. TailInv
  BY DEF TailInv
<1>6. FreshInv
  BY DEF FreshInv, NoCkpt
<1>7. QueueInv
  BY DEF QueueInv, Over, Mine
<1>8. StageInv
  BY DEF StageInv, Admission, Executing, Closing
<1>9. StopInv
  BY DEF StopInv
<1>10. EndInv
  BY DEF EndInv
<1>11. SaveInv
  BY DEF SaveInv, Executing, Closing
<1>12. ActiveInv
  BY DEF ActiveInv, Mates
<1> QED
  BY <1>1, <1>2, <1>3, <1>4, <1>5, <1>6, <1>7, <1>8, <1>9, <1>10, <1>11, <1>12 DEF IInv

(* Every step keeps it.                                                      *)
LEMMA Stepwise ==
  IInv /\ [Next]_vars => IInv'
BY LaneStep, SetStep, StateStep, CountStep, TailStep, FreshStep, QueueStep, StageStep,
   StopStep, EndStep, SaveStep, ActiveStep DEF IInv

(* So it always holds.                                                       *)
LEMMA Invariance ==
  Spec => []IInv
BY Initially, Stepwise, PTL DEF Spec

(* Every variable keeps its type.                                            *)
THEOREM TypeCorrect ==
  Spec => []TypeOK
<1>1. IInv => TypeOK
  BY DEF IInv, LaneTypes, SetTypes, StateTypes, CountTypes, TypeOK, Asks, Ends, Checkpoint
<1> QED BY <1>1, Invariance, PTL

(* A turn that was asked to stop in the store has its output there, however  *)
(* the stop, the checkpoints and the events of the run interleave.           *)
THEOREM AskedTurnsAreComplete ==
  Spec => []AskedTurnIsComplete
<1>1. IInv => AskedTurnIsComplete
  BY DEF IInv, StopInv, Saved, AskedTurnIsComplete
<1> QED BY <1>1, Invariance, PTL

(* What is not in the store stays in the lane's memory, marked, with a circuit*)
(* open; a run reported as saved ended in the store as it was reported.      *)
THEOREM UnsavedStays ==
  Spec => []UnsavedIsKept
<1>1. ASSUME IInv PROVE UnsavedIsKept
  <2>1. \A l \in Lane : marker[l] # NoRun => circuits # {}
    BY <1>1 DEF IInv, SaveInv, PersistenceError, SessionError
  <2> QED BY <1>1, <2>1 DEF IInv, SaveInv, UnsavedIsKept
<1> QED BY <1>1, Invariance, PTL

(* A run that ends with its final write ends after every write it caused.    *)
THEOREM CompletionComesLast ==
  Spec => []CompletionIsLast
<1>1. IInv => CompletionIsLast
  BY DEF IInv, EndInv, CompletionIsLast
<1> QED BY <1>1, Invariance, PTL

(* Only EnterRuntime takes a run to its turn.                                *)
LEMMA OnlyEnterRuntime ==
  ASSUME StateTypes, NEW p \in Run, at[p] # "turn", at'[p] = "turn",
         [Next]_vars
  PROVE  EnterRuntime(p)
<1>1. ASSUME NEW r \in Run, NEW l \in Lane, Submit(r, l) PROVE EnterRuntime(p)
  BY <1>1 DEF StateTypes, Submit, Go, fxvars
<1>2. ASSUME NEW r \in Run, AdmitRun(r) \/ StartRun(r) \/ Started(r) PROVE EnterRuntime(p)
  BY <1>2, AdmissionIs DEF AdmissionMoves
<1>3. ASSUME NEW r \in Run, ExecuteRun(r) PROVE EnterRuntime(p)
  BY <1>3 DEF StateTypes, ExecuteRun, BlockOrCancel, Settle, Stamp, Go, Block, lanevars, fxvars
<1>4. ASSUME NEW r \in Run, Activated(r) PROVE EnterRuntime(p)
  BY <1>4
  DEF StateTypes, Activated, Settle, Stamp, Go, BlockOrCancel, Block, Opened, TurnTo, FaultAfter,
      Fault, lanevars, fxvars
<1>5. ASSUME NEW r \in Run, Resumed(r) PROVE EnterRuntime(p)
  BY <1>5 DEF StateTypes, Resumed, Settle, Stamp, Go, Block, lanevars, fxvars
<1>6. ASSUME NEW r \in Run, EnterRuntime(r) PROVE EnterRuntime(p)
  BY <1>6 DEF StateTypes, EnterRuntime, Settle, Stamp, Go, Block, lanevars, fxvars
<1>7. ASSUME NEW r \in Run, RuntimeEvent(r) PROVE EnterRuntime(p)
  BY <1>7 DEF StateTypes, RuntimeEvent, MarkDirty, Accepting, lanevars
<1>8. ASSUME NEW r \in Run, RuntimeSettles(r) PROVE EnterRuntime(p)
  BY <1>8 DEF StateTypes, RuntimeSettles, Go, lanevars, fxvars
<1>9. ASSUME NEW r \in Run, EffectsSettled(r) PROVE EnterRuntime(p)
  BY <1>9 DEF StateTypes, EffectsSettled, Settle, Stamp, Go, lanevars, fxvars
<1>10. ASSUME NEW r \in Run, FinalizeRun(r) PROVE EnterRuntime(p)
  BY <1>10 DEF StateTypes, FinalizeRun, Stamp, Go, lanevars
<1>11. ASSUME NEW r \in Run, Flushed(r) PROVE EnterRuntime(p)
  BY <1>11 DEF StateTypes, Flushed, Stamp, Go, lanevars, fxvars
<1>12. ASSUME NEW r \in Run, FinalDone(r) PROVE EnterRuntime(p)
  BY <1>12
  DEF StateTypes, FinalDone, Stamp, Opened, Cleared, TurnTo, FaultAfter, Fault, Fold, Go, Finalized,
      fxvars
<1>13. ASSUME NEW r \in Run, BlockedDone(r) PROVE EnterRuntime(p)
  BY <1>13 DEF StateTypes, BlockedDone, Stamp, Go, lanevars, fxvars
<1>14. ASSUME NEW r \in Run, ClaimDone(r) \/ ArtDone(r) PROVE EnterRuntime(p)
  BY <1>14 DEF StateTypes, ClaimDone, Opened, Cleared, Fault, lanevars, ArtDone, MarkDirty
<1>15. ASSUME NEW r \in Run, CheckpointDue(r) \/ CheckpointDone(r) PROVE EnterRuntime(p)
  BY <1>15 DEF StateTypes, CheckpointDue, lanevars, runvars, CheckpointDone, Opened, Cleared, Fault
<1>16. ASSUME NEW r \in Run, AskAfterStart(r) \/ AskAfterActivation(r) PROVE EnterRuntime(p)
  BY <1>16 DEF StateTypes, AskAfterStart, AskTo, lanevars, runvars, AskAfterActivation
<1>17. ASSUME NEW r \in Run, AskAfterFlush(r) \/ AskDone(r) PROVE EnterRuntime(p)
  BY <1>17
  DEF StateTypes, AskAfterFlush, AskTo, lanevars, runvars, AskDone, Opened, TurnTo, FaultAfter,
      Fault, Asked
<1>18. ASSUME NEW l \in Lane, LoadLane(l) \/ DrainNext(l) \/ PruneLane(l) PROVE EnterRuntime(p)
  BY <1>18 DEF StateTypes, LoadLane, Fault, runvars, fxvars, DrainNext, PruneLane
<1>19. ASSUME (\E l \in Lane : StopConversation(l)) \/ Shutdown PROVE EnterRuntime(p)
  BY <1>19 DEF StateTypes, StopConversation, CancelRuns, lanevars, Shutdown
<1>20. CASE UNCHANGED vars
  BY <1>20 DEF StateTypes, vars, lanevars, runvars, fxvars
<1> QED
  BY <1>1, <1>2, <1>3, <1>4, <1>5, <1>6, <1>7, <1>8, <1>9, <1>10, <1>11, <1>12, <1>13, <1>14, <1>15,
     <1>16, <1>17, <1>18, <1>19, <1>20
  DEF Next, Progress, Effect

(* A run that enters the runtime is the one whose turn runs, was not asked to*)
(* stop, and finds nothing unsaved anywhere: its turn became active when no  *)
(* other was, the runs behind it were stopped no later than it, and the ones *)
(* before it ended in the store, left a marker, or were blocked.             *)
THEOREM RunsEnterClean ==
  Spec => EntersClean
<1>1. ASSUME IInv, [Next]_vars, NEW r \in Run, at[r] # "turn", at'[r] = "turn"
      PROVE  /\ turn[r] = "active"
             /\ \A q \in Mates(r) : /\ turn[q] # "active"
                                   /\ turn[q] = "cancelRequested" => told[q] = "paused"
             /\ r \notin cancelled
             /\ circuits = {} /\ \A l \in Lane : marker[l] = NoRun
  <2> USE <1>1 DEF IInv
  <2>1. at[r] = "enter" /\ r \notin cancelled /\ circuits = {}
    BY OnlyEnterRuntime DEF EnterRuntime, Clear, ShouldBlock, Block, Settle, Go, StateTypes
  <2>2. turn[r] = "active"
    BY <2>1 DEF StageInv, Over, SetTypes
  <2>3. \A l \in Lane : marker[l] = NoRun
    BY <2>1 DEF SaveInv, PersistenceError, SessionError
  <2>4. ASSUME NEW q \in Mates(r)
        PROVE  /\ turn[q] # "active"
               /\ turn[q] = "cancelRequested" => told[q] = "paused"
    <3>1. q \in Run /\ q # r /\ laneOf[q] = laneOf[r] /\ r \in Mates(q)
      BY DEF Mates
    <3>2. turn[q] # "active"
      BY <2>2, <3>1 DEF ActiveInv
    <3>3. ASSUME turn[q] = "cancelRequested", told[q] # "paused" PROVE FALSE
      <4>1. q \in cancelled /\ q \notin activated
        BY <2>2, <3>1, <3>3 DEF StopInv, ActiveInv
      <4>2. told[q] = "none"
        BY <3>1, <3>3, <4>1 DEF StageInv, StateTypes
      <4>3. at[q] # "none" /\ at[q] # "rejected"
        BY <3>1, <3>3 DEF FreshInv, StageInv
      <4>4. at[q] # "done"
        <5>1. ASSUME at[q] = "done" PROVE q \in final
          BY <2>3, <3>1, <4>2, <4>3, <5>1, ChatAssumption DEF SaveInv, QueueInv
        <5>2. q \in final => turn[q] = status[q]
          BY DEF SaveInv
        <5> QED BY <3>1, <3>3, <5>1, <5>2 DEF StateTypes, Ends
      <4>5. CASE at[q] \notin {"none"} \cup Over
        <5>1. PICK l \in Lane : laneOf[r] = l
          BY <2>1 DEF QueueInv
        <5>2. PICK i \in DOMAIN queue[l] : queue[l][i] = q
          BY <3>1, <4>5, <5>1 DEF QueueInv, Mine
        <5>3. PICK j \in DOMAIN queue[l] : queue[l][j] = r
          BY <2>1, <5>1 DEF QueueInv, Mine, Over
        <5>4. queue[l] \in Seq(Run) /\ ~(j > 1)
          BY <2>1, <5>1, <5>3, FirstInLane DEF LaneTypes, Executing
        <5>5. j < i
          BY <3>1, <5>2, <5>3, <5>4
        <5> QED BY <2>1, <4>1, <5>2, <5>3, <5>5 DEF QueueInv, Closing, Over
      <4> QED BY <4>3, <4>4, <4>5 DEF Over
    <3> QED BY <3>2, <3>3
  <2> QED BY <2>1, <2>2, <2>3, <2>4
<1>2. IInv /\ [Next]_vars => [\A r \in Run : at[r] # "turn" /\ at'[r] = "turn" =>
          /\ turn[r] = "active"
          /\ \A q \in Mates(r) : /\ turn[q] # "active"
                                /\ turn[q] = "cancelRequested" => told[q] = "paused"
          /\ r \notin cancelled
          /\ circuits = {} /\ \A l \in Lane : marker[l] = NoRun]_vars
  BY <1>1
<1> QED BY <1>2, Invariance, PTL DEF Spec, EntersClean
=============================================================================
