------------------------- MODULE ConversationJournal -------------------------
(***************************************************************************)
(* The durable form of one conversation                                    *)
(* (storage/conversationRepositoryV2.ts): a snapshot, a run-state and       *)
(* append-only journal files, each replaced by one compare-and-swap.  An    *)
(* operation announces its record in the run-state, appends it to a        *)
(* journal, finalises the run-state and the meta file, and, when it ends a *)
(* turn, folds the journal into a new snapshot.  It may stop after any of  *)
(* these writes, because a write fails or because the process dies.        *)
(*                                                                         *)
(* The operations of a conversation are queued one behind the other        *)
(* (enqueueConversation), and a record's checksum is its revision, which   *)
(* the catalog never hands out twice.  Of the messages the model keeps, for *)
(* every turn, the revision that last wrote its assistant message; they    *)
(* are in the snapshot's chunks or in journal records behind it.           *)
(***************************************************************************)
EXTENDS Naturals, Sequences, FiniteSets, SequencesExt

CONSTANTS Turn,      \* turns of the conversation
          MaxRev     \* bound on the revisions handed out

ASSUME JournalAssumption == MaxRev \in Nat /\ "none" \notin Turn

VARIABLES
  snap,    \* snapshot.json
  run,     \* run-state.json
  files,   \* journals/*.jsonl: path -> records
  meta,    \* meta.json
  op,      \* the operation under way
  nextRev, \* the next revision the catalog hands out
  marked,  \* the catalog's pending marker of this conversation
  acked,   \* the last write of each turn's message that returned (history)
  folded,  \* turns a compaction found open (history)
  mode     \* what the plugin does: recovering (at startup), running

disk == <<snap, run, files, meta>>
journalVars == <<disk, op, nextRev, marked, acked, folded, mode>>

Terminal == {"completed", "cancelled", "failed", "interrupted"}
Busy == {"active", "cancelRequested"}
Unsettled == Busy \cup {"queued"}

None == [seq |-> 0]
NoPath == <<"none", 0>>

(***************************************************************************)
(* Records and conversations.  A turn value carries the revision that last *)
(* changed it, as a stored turn carries updatedAt.                         *)
(***************************************************************************)
TurnValue(st, rev) == [st |-> st, rev |-> rev]

(* The function new where it is defined, old elsewhere.                    *)
Over(new, old) ==
  [x \in DOMAIN new \cup DOMAIN old |-> IF x \in DOMAIN new THEN new[x] ELSE old[x]]

(* applyJournalRecord                                                      *)
Apply(conv, rec) ==
  [rev |-> rec.rev,
   text |-> Over(rec.text, conv.text),
   arch |-> IF rec.kind \in {"archive", "restore"} THEN rec.kind = "archive" ELSE conv.arch,
   turns |-> Over(rec.turns, conv.turns)]

(* materializeRunStateTurns: the run-state's turns override the snapshot's. *)
Materialize(snapTurns, tail) == Over(tail, snapTurns)

(* A broken variant: the run-state forgets every turn that has ended.      *)
TailOfOpen(turns, snapTurns) ==
  LET kept == {t \in DOMAIN turns : turns[t].st \notin Terminal} IN [t \in kept |-> turns[t]]

(* mutationRunStateTurns: what the snapshot does not already say.          *)
TailOf(turns, snapTurns) ==
  LET kept == {t \in DOMAIN turns :
                 \/ turns[t].st \notin Terminal
                 \/ t \notin DOMAIN snapTurns
                 \/ t \in DOMAIN snapTurns /\ snapTurns[t] # turns[t]} IN
  [t \in kept |-> turns[t]]

OpenTurns(turns) ==
  LET open == {t \in DOMAIN turns : turns[t].st \notin Terminal} IN [t \in open |-> turns[t]]

(***************************************************************************)
(* Loading.                                                                *)
(***************************************************************************)
Present == \A p \in run.segs : p \in DOMAIN files
Durable == UNION {ToSet(files[p]) : p \in run.segs}

NoDuplicates ==
  \A p, q \in run.segs : \A i \in DOMAIN files[p], j \in DOMAIN files[q] :
    files[p][i].seq = files[q][j].seq => p = q /\ i = j

RecordOf(records, seq) == CHOOSE r \in records : r.seq = seq
FirstSeq == Min({r.seq : r \in Durable})
HeadSeq == IF Durable = {} THEN snap.seq ELSE Max({r.seq : r \in Durable})
HeadChk == IF Durable = {} THEN snap.chk ELSE RecordOf(Durable, HeadSeq).rev

(* validateJournalChain                                                    *)
ChainedFrom(seq, chk) ==
  \A r \in Durable :
    \/ r.seq = seq + 1 /\ r.prev = chk
    \/ \E q \in Durable : r.seq = q.seq + 1 /\ r.prev = q.rev /\ r.rev > q.rev

(* journalChainBaseline: the records start the conversation and hold the    *)
(* snapshot's head, or they start right behind the snapshot.                *)
ChainSound ==
  Durable # {} =>
    \/ /\ FirstSeq = 1
       /\ snap.seq > 0 => \E r \in Durable : r.seq = snap.seq /\ r.rev = snap.chk
       /\ ChainedFrom(0, 0)
    \/ /\ FirstSeq = snap.seq + 1 /\ RecordOf(Durable, FirstSeq).rev > snap.rev
       /\ ChainedFrom(snap.seq, snap.chk)

(* The pending record is durable, or it extends the durable head; without   *)
(* one the run-state's head is the durable head.                            *)
PendingDurable == \E r \in Durable : r = run.pending

HeadSound ==
  IF run.pending = None
  THEN run.head = HeadSeq /\ run.chk = HeadChk
  ELSE /\ run.head = run.pending.seq - 1 /\ run.chk = run.pending.prev
       /\ \/ PendingDurable
          \/ /\ \A r \in Durable : r.seq # run.pending.seq
             /\ run.pending.seq = HeadSeq + 1 /\ run.pending.prev = HeadChk

(* What every loader insists on.                                           *)
Sound ==
  /\ Present
  /\ NoDuplicates
  /\ ChainSound
  /\ Durable # {} => HeadSeq >= snap.seq
  /\ HeadSound

(* What a snapshot and the records behind it add up to, the pending one     *)
(* included.                                                               *)
Replay(base, records) ==
  LET replay[seq \in Nat] ==
        IF seq <= base.seq THEN base.conv ELSE Apply(replay[seq - 1], RecordOf(records, seq)) IN
  replay

Replayed ==
  IF run.pending = None \/ PendingDurable
  THEN Replay(snap, Durable)[HeadSeq] ELSE Apply(Replay(snap, Durable)[HeadSeq], run.pending)

(* loadConversationStateFromDirectory                                      *)
FullyLoads ==
  /\ Sound
  /\ Replayed.rev = run.rev
  /\ Replayed.turns = Materialize(snap.conv.turns, run.turns)

(* loadConversationMutationState takes the turns from the run-state without *)
(* comparing them, and leaves the chunks alone: of the messages it has     *)
(* those of the turns begun behind the snapshot.  When an operation needs  *)
(* another turn's, as past a recovery record or with a stale meta, it      *)
(* loads in full.                                                          *)
PastSnapshot == {r \in Durable : r.seq > snap.seq} \cup (IF run.pending = None THEN {} ELSE {run.pending})

Shortcut(needed) ==
  /\ Sound /\ meta.rev = run.rev /\ meta.arch = Replayed.arch
  /\ \A r \in PastSnapshot : r.kind # "recovery"
  /\ needed \cap DOMAIN snap.conv.text = {}

Loads(needed) == FullyLoads \/ Shortcut(needed)

Conv == [Replayed EXCEPT !.rev = run.rev, !.turns = Materialize(snap.conv.turns, run.turns)]

(* requireNonterminalMessages                                              *)
Unended(turns) == {t \in DOMAIN turns : turns[t].st \notin Terminal}

LastSeq == IF run.pending # None THEN run.pending.seq ELSE HeadSeq
LastChk == IF run.pending # None THEN run.pending.rev ELSE HeadChk

(***************************************************************************)
(* The seeded conversation.                                                *)
(***************************************************************************)
NoOp == [at |-> "none"]
Empty == [rev |-> 0, text |-> <<>>, arch |-> FALSE, turns |-> <<>>]

JournalInit ==
  /\ snap = [rev |-> 0, seq |-> 0, chk |-> 0, conv |-> Empty]
  /\ run = [rev |-> 0, head |-> 0, chk |-> 0, segs |-> {}, pending |-> None,
            path |-> NoPath, turns |-> <<>>]
  /\ files = <<>>
  /\ meta = [rev |-> 0, arch |-> FALSE]
  /\ op = NoOp
  /\ nextRev = 1
  /\ marked = FALSE
  /\ acked = <<>> /\ folded = {}
  /\ mode = "running"

(***************************************************************************)
(* Beginning an operation: load, check, allocate a revision.               *)
(***************************************************************************)
(* selectJournalPath                                                       *)
PathFor(key, seq, last) ==
  IF last = 0 \/ <<key, 0>> \in run.segs THEN <<key, 0>> ELSE <<key, seq>>

(* An operation loads the conversation as c, checks it, and allocates the  *)
(* revision it will write, with the turns it changes and those whose       *)
(* assistant message it writes.                                            *)
Start(c, kind, key, turns, texts, compacts) ==
  LET seq == LastSeq + 1
      rec == [seq |-> seq, rev |-> nextRev, prev |-> LastChk, kind |-> kind, turns |-> turns,
              text |-> [t \in texts |-> nextRev]] IN
  /\ nextRev' = nextRev + 1
  /\ marked' = TRUE
  /\ op' = [at |-> IF run.pending # None THEN "finishAppend" ELSE "announce",
            rec |-> rec, conv |-> Apply(c, rec), path |-> PathFor(key, seq, LastSeq),
            compacts |-> compacts]
  /\ UNCHANGED <<disk, acked, folded, mode>>

Ready == op = NoOp /\ ~marked /\ nextRev <= MaxRev
Loaded(needed) == IF Ready /\ mode = "running" /\ Loads(needed) THEN {Conv} ELSE {}

OthersBusy(c, t) == \E u \in DOMAIN c.turns \ {t} : c.turns[u].st \in Busy
Is(c, t, states) == t \in DOMAIN c.turns /\ c.turns[t].st \in states
Becomes(t, st) == [u \in {t} |-> TurnValue(st, nextRev)]

BeginTurn(c, t, initial) ==
  /\ t \notin DOMAIN c.turns
  /\ initial = "active" => ~OthersBusy(c, t)
  /\ Start(c, "beginTurn", t, Becomes(t, initial), {t}, FALSE)

ActivateTurn(c, t) ==
  /\ Is(c, t, {"queued", "paused"}) /\ ~OthersBusy(c, t)
  /\ Start(c, "turnUpdate", t, Becomes(t, "active"), {}, FALSE)

RequestCancellation(c, t) ==
  /\ Is(c, t, {"queued", "active", "paused"})
  /\ Start(c, "turnUpdate", t, Becomes(t, "cancelRequested"), {}, FALSE)

(* A broken variant: an outcome overrides a request to cancel.             *)
FinalizeAnyway(c, t, outcome) ==
  /\ Is(c, t, {"queued", "active", "paused", "cancelRequested"})
  /\ Start(c, "turnUpdate", t, Becomes(t, outcome), {t}, TRUE)

FinalizeTurn(c, t, outcome) ==
  /\ Is(c, t, {"queued", "active", "paused"})
  /\ Start(c, "turnUpdate", t, Becomes(t, outcome), {t}, TRUE)

CancelTurn(c, t) ==
  /\ Is(c, t, {"queued", "active", "paused", "cancelRequested"})
  /\ Start(c, "turnUpdate", t, Becomes(t, "cancelled"), {t}, TRUE)

(* patchMessage and checkpointAssistantMessage: an answer as it streams in. *)
PatchMessage(c, t) ==
  /\ Is(c, t, {"queued", "active", "paused"})
  /\ Start(c, "patchMessage", t, <<>>, {t}, FALSE)

(* patchSession, setContextCheckpoint, appendMessage: no turn is touched.   *)
PatchSession(c) == Start(c, "patchSession", "conversation", <<>>, {}, FALSE)

(* archiveConversation and restoreConversation                             *)
SetArchived(c) ==
  /\ c.arch \/ \A t \in DOMAIN c.turns : c.turns[t].st \in Terminal
  /\ Start(c, IF c.arch THEN "restore" ELSE "archive", "conversation", <<>>, {}, TRUE)

Loose(c) == {t \in DOMAIN c.turns : c.turns[t].st \in Unsettled}

(* recoverConversation, at startup, with the full loader: queued turns are  *)
(* paused, the others were interrupted, and their messages say so.         *)
RecoverTurns ==
  LET settled(c, t) == IF c.turns[t].st = "queued" THEN "paused" ELSE "interrupted"
      cut(c) == {t \in Loose(c) : c.turns[t].st # "queued"} IN
  /\ op = NoOp /\ ~marked /\ mode = "recovering" /\ FullyLoads
  /\ \E c \in {Conv} :
       \/ /\ Loose(c) = {} /\ mode' = "running"
          /\ UNCHANGED <<disk, op, nextRev, marked, acked, folded>>
       \/ /\ Loose(c) # {} /\ Ready
          /\ Start(c, "recovery", "recovery",
                   [t \in Loose(c) |-> TurnValue(settled(c, t), nextRev)], cut(c), TRUE)

(* readCatalogWithRepair, ahead of the next operation: a marker left behind *)
(* makes it rebuild the catalog, and with it a meta file that is behind.   *)
Repair ==
  /\ op = NoOp /\ marked
  /\ \/ meta.rev = run.rev /\ UNCHANGED meta
     \/ meta.rev # run.rev /\ FullyLoads /\ meta' = [rev |-> Conv.rev, arch |-> Conv.arch]
  /\ marked' = FALSE
  /\ UNCHANGED <<snap, run, files, op, nextRev, acked, folded, mode>>

(***************************************************************************)
(* commitConversationEvent, finishPendingJournal and compactConversation,  *)
(* one write at a time.                                                    *)
(***************************************************************************)
(* appendJournalRecord: nothing when the record is there already.          *)
Appended(path, rec) ==
  IF path \in DOMAIN files
  THEN IF rec \in ToSet(files[path]) THEN files ELSE [files EXCEPT ![path] = Append(@, rec)]
  ELSE Over([p \in {path} |-> <<rec>>], files)

(* A segment the run-state does not list must not exist yet.               *)
CanAppend(path, rec, segs) ==
  path \in DOMAIN files \ segs => rec \in ToSet(files[path])

OpAt(step) == op # NoOp /\ op.at = step
Goto(step) == op' = [op EXCEPT !.at = step]

FinishAppend ==
  /\ OpAt("finishAppend") /\ CanAppend(run.path, run.pending, run.segs)
  /\ files' = Appended(run.path, run.pending)
  /\ Goto("finishRun")
  /\ UNCHANGED <<snap, run, meta, nextRev, marked, acked, folded, mode>>

FinishRun ==
  /\ OpAt("finishRun")
  /\ run' = [run EXCEPT !.head = run.pending.seq, !.chk = run.pending.rev,
                        !.pending = None, !.path = NoPath]
  /\ Goto("announce")
  /\ UNCHANGED <<snap, files, meta, nextRev, marked, acked, folded, mode>>

Announce ==
  /\ OpAt("announce")
  /\ run' = [run EXCEPT !.rev = op.rec.rev, !.turns = TailOf(op.conv.turns, snap.conv.turns),
                        !.segs = @ \cup {op.path}, !.pending = op.rec, !.path = op.path]
  /\ Goto("append")
  /\ UNCHANGED <<snap, files, meta, nextRev, marked, acked, folded, mode>>

AppendRecord ==
  /\ OpAt("append") /\ CanAppend(op.path, op.rec, run.segs)
  /\ files' = Appended(op.path, op.rec)
  /\ Goto("finalize")
  /\ UNCHANGED <<snap, run, meta, nextRev, marked, acked, folded, mode>>

FinalizeRun ==
  /\ OpAt("finalize")
  /\ run' = [run EXCEPT !.head = op.rec.seq, !.chk = op.rec.rev, !.pending = None, !.path = NoPath]
  /\ Goto("meta")
  /\ UNCHANGED <<snap, files, meta, nextRev, marked, acked, folded, mode>>

(* The operation returns after its last write.                             *)
Return ==
  /\ op' = NoOp
  /\ acked' = Over(op.rec.text, acked)
  /\ mode' = "running"

WriteMeta ==
  /\ OpAt("meta")
  /\ meta' = [rev |-> op.conv.rev, arch |-> op.conv.arch]
  /\ Goto("publish")
  /\ UNCHANGED <<snap, run, files, nextRev, marked, acked, folded, mode>>

(* upsertCatalogEntry takes the marker off.                                *)
Publish ==
  /\ OpAt("publish")
  /\ marked' = FALSE
  /\ IF op.compacts THEN Goto("snapshot") /\ UNCHANGED <<acked, mode>> ELSE Return
  /\ UNCHANGED <<disk, nextRev, folded>>

(* A broken variant: the messages behind the snapshot get no chunks.       *)
SwapOldChunks ==
  /\ OpAt("snapshot") /\ Loads(Unended(Conv.turns))
  /\ snap' = [rev |-> Conv.rev, seq |-> HeadSeq, chk |-> HeadChk,
              conv |-> IF Shortcut(Unended(Conv.turns))
                       THEN [Conv EXCEPT !.text = snap.conv.text] ELSE Conv]
  /\ folded' = folded \cup Unended(Conv.turns)
  /\ Goto("trim")
  /\ UNCHANGED <<run, files, meta, nextRev, marked, acked, mode>>

(* compactConversation loads once more; there is no pending record.  Unless *)
(* it loads in full, the chunks of the old snapshot are kept as they are   *)
(* and get those of the messages behind it: what the journal says of a     *)
(* message that has a chunk goes with the journal.                         *)
SwapSnapshot ==
  /\ OpAt("snapshot") /\ Loads(Unended(Conv.turns))
  /\ snap' = [rev |-> Conv.rev, seq |-> HeadSeq, chk |-> HeadChk,
              conv |-> IF Shortcut(Unended(Conv.turns))
                       THEN [Conv EXCEPT !.text = Over(snap.conv.text, Conv.text)] ELSE Conv]
  /\ folded' = folded \cup Unended(Conv.turns)
  /\ Goto("trim")
  /\ UNCHANGED <<run, files, meta, nextRev, marked, acked, mode>>

(* The journals stay on disk; the run-state lists them no more.            *)
TrimRun ==
  /\ OpAt("trim")
  /\ run' = [run EXCEPT !.turns = OpenTurns(snap.conv.turns), !.segs = {}]
  /\ Return
  /\ UNCHANGED <<snap, files, meta, nextRev, marked, folded>>

(***************************************************************************)
(* Stopping.                                                               *)
(***************************************************************************)
(* A write fails (the lease is lost, the helper answers with an error): the *)
(* operation throws where it is and the conversation's queue goes on.       *)
Throw ==
  /\ op # NoOp
  /\ op' = NoOp
  /\ UNCHANGED <<disk, nextRev, marked, acked, folded, mode>>

(* The process dies; the next one recovers first.                          *)
Crash ==
  /\ mode' = "recovering" /\ op' = NoOp
  /\ <<op, mode>> # <<NoOp, "recovering">>
  /\ UNCHANGED <<disk, nextRev, marked, acked, folded>>

Operate ==
  \/ \E c \in Loaded({}) :
       \/ \E t \in Turn, s \in {"queued", "active"} : BeginTurn(c, t, s)
       \/ PatchSession(c) \/ SetArchived(c)
  \/ \E c \in Loaded(Unended(Conv.turns)), t \in Turn :
       \/ ActivateTurn(c, t) \/ RequestCancellation(c, t) \/ PatchMessage(c, t) \/ CancelTurn(c, t)
       \/ \E o \in {"completed", "failed"} : FinalizeTurn(c, t, o)

JournalNext ==
  \/ Operate \/ RecoverTurns \/ Repair
  \/ FinishAppend \/ FinishRun \/ Announce \/ AppendRecord \/ FinalizeRun
  \/ WriteMeta \/ Publish \/ SwapSnapshot \/ TrimRun
  \/ Throw \/ Crash

JournalSpec == JournalInit /\ [][JournalNext]_journalVars

(***************************************************************************)
(* Properties.                                                             *)
(***************************************************************************)
Revisions == 0..MaxRev
IsText(text) == DOMAIN text \subseteq Turn /\ \A t \in DOMAIN text : text[t] \in Revisions
IsTurns(turns) ==
  DOMAIN turns \subseteq Turn /\ \A t \in DOMAIN turns :
    turns[t].st \in Terminal \cup Unsettled \cup {"paused"} /\ turns[t].rev \in Revisions

(* Every file and the operation under way have their types.                *)
JournalTypeOK ==
  /\ snap.rev \in Revisions /\ snap.seq \in Revisions /\ snap.chk \in Revisions
  /\ IsTurns(snap.conv.turns) /\ IsText(snap.conv.text)
  /\ run.rev \in Revisions /\ run.head \in Revisions /\ run.chk \in Revisions
  /\ IsTurns(run.turns) /\ run.pending.seq \in Revisions
  /\ run.pending = None <=> run.path = NoPath
  /\ \A p \in DOMAIN files : \A r \in ToSet(files[p]) : r.seq \in Revisions \ {0} /\ IsTurns(r.turns)
  /\ meta.rev \in Revisions /\ meta.arch \in BOOLEAN
  /\ nextRev \in 1..MaxRev + 1 /\ marked \in BOOLEAN /\ IsText(acked) /\ folded \subseteq Turn
  /\ mode \in {"running", "recovering"}

(* Between an announcement and the first record of a new journal file.     *)
FileAhead == run.pending # None /\ run.path \notin DOMAIN files

(* Between the two writes of a compaction that is not the conversation's    *)
(* first: the run-state still lists journals that the snapshot has passed. *)
SnapshotAhead ==
  run.pending = None /\ run.segs # {} /\ Durable # {} /\ snap.seq = HeadSeq /\ FirstSeq > 1

(* Wherever an operation stops, what is on disk replays to exactly what the *)
(* run-state says, so that the next load succeeds; the two places where the *)
(* code does not achieve that are FileAhead and SnapshotAhead.              *)
LoadsWhereverItStops == FullyLoads \/ FileAhead \/ SnapshotAhead

(* A record that was announced is replayed from the run-state after a crash *)
(* ("keeps the empty body out of history until an idempotent retry commits  *)
(* the first turn").                                                        *)
AnnouncedRecordReplays == op = NoOp /\ run.pending # None => FullyLoads

(* A compaction that stops half way leaves the conversation readable ("old  *)
(* journals remain on disk as recovery evidence").                          *)
CompactionIsAtomic == op = NoOp /\ run.pending = None => FullyLoads

(* What the store reported as written to an answer is in the conversation  *)
(* ever after, through crashes, retries and compactions: while its turn     *)
(* runs, and when no compaction ever met the turn open.  The answer of a    *)
(* turn that was open when another one's end compacted the conversation is *)
(* in a chunk by then, and what the journal adds to it may be dropped at    *)
(* the next compaction.                                                    *)
AckedSurvive ==
  FullyLoads =>
    \A t \in DOMAIN acked :
      \/ t \in DOMAIN Conv.text /\ Conv.text[t] >= acked[t]
      \/ t \in folded /\ Conv.turns[t].st \in Terminal

(* The files taken together are the turns of ConversationTurns and their   *)
(* revision: the announcement in the run-state commits an operation as a   *)
(* whole, and no crash, retry, repair or compaction changes what was       *)
(* committed.                                                              *)
States == LET turns == Materialize(snap.conv.turns, run.turns) IN [t \in DOMAIN turns |-> turns[t].st]

Turns == INSTANCE ConversationTurns WITH rev <- run.rev, turns <- States, Revision <- 1..MaxRev
ImplementsTurns == Turns!Spec
=============================================================================
