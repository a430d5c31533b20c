# Ailu Yogurt: formal models

Ailu Yogurt is an Obsidian plugin: a chat with agent runtimes (Claude Code,
Codex), and publishing to several platforms. This directory holds TLA+ models of the
parts that may not lose or corrupt anything: who may write to a vault, how
conversations, their sessions and drafts get to disk, how a run of the chat
starts and ends, what an agent is told, how the Codex server is stopped, how
the agent's memory is written, and how a note is published to Feishu. Paths
are those of the repository, below `src/`.

- [1. The system](#1-the-system): inventory of components
- [2. Modules](#2-modules): what each models, and how it corresponds to the code
- [3. Runs](#3-runs): what is checked, the bounds, the fairness
- [4. Disagreements](#4-disagreements): where the code does not do what one would state of it
- [5. Proofs](#5-proofs)
- [6. Not modelled](#6-not-modelled)
- [7. Plan](#7-plan)

## 1. The system

Obsidian runs one instance of the plugin per window. A reload of the plugin, or
a second Obsidian process on the same vault (also one that a crash left behind),
gives two instances that share files and nothing else. Inside an instance
everything is JavaScript on one event loop: code is undisturbed between two
`await`s, and any other call may run at an `await`.

| component | state | operations | correct when | module |
|---|---|---|---|---|
| **Process write lock** `storage/processWriteLock.ts` | `held`, `child`, pending requests; a Python helper with an `fcntl` lock, its pipes | acquire, release, assertHeld, read, CAS; late READY/BUSY, close and write-error events; timeouts; deaths | one window's helper at a time changes files; every call returns; an orphan leaves | WriterFence |
| **Chat-store lease** `storage/chatStoreLease.ts`, **VaultStore** `storage/vaultStore.ts`, **lifecycle** `studioMain.ts` | `leaseId`, the record on disk, the heartbeat | acquire, renew, release, guarded writes, load with reload grace, unload | lease in memory = record on disk; no protected write outside the tenure | WriterLease |
| **Conversation on disk** `storage/conversationRepositoryV2.ts` | snapshot, chunks, run-state, journals, meta | begin, activate, cancel, finalise, append, archive, recover; announce, append, finalise, compact; loaders | readable wherever an operation stops; what returned stays; turns obey their life cycle | ConversationJournal |
| **Conversation catalog** (same file) | `catalog.json`, pending markers, conversation tails, the catalog queue | allocate, publish, rebuild, seed, repair on read | revisions fresh; the catalog never ahead; a lag is marked; nobody stuck | ConversationCatalog |
| **Session owners** (same file) | owners in run-states, buckets and pointer of the index | claim, patch, replace, rebuild, look up | one owner per session; an answer is true | SessionOwners |
| **Chat run coordinator** `chat/chatRunCoordinator.ts` | lanes, runs, circuits | submit, admit, activate, execute, checkpoint, claim, cancel, finalise, stop, shut down, prune | nothing runs behind an open circuit; output is stored or kept; a completion is the last word; stopped runs end | ChatRunCoordinator |
| **Chat context** `chat/chatContextService.ts`, `contextCompression.ts`, the send of `ui/chatView.ts` | the stored checkpoint; the sessions' transcripts | prepare, begin a turn, resume, start, fall back | the agent is told of every completed turn | ChatContext |
| **Drafts** `ui/chatUiStatePersistence.ts`, `ui/chatConversationUiState.ts` | cache entries with revisions, timers, saves | type, switch, send, load, save, flush | typed text is not lost | ChatDrafts |
| **Codex runtime** `runtime/codexAppServer.ts`, `codexRuntime.ts`, `runtimeManager.ts` | the app server's process tree, requests, active turns | connect, refresh, turn, interrupt, disconnect, global stop, shutdown | done means stopped; a clean unload is quiet; stops end | AppServerClient, CodexRuntime |
| **Memory writes** `memory/verifiedMemoryWrite.ts`, `ui/memoryWriteModal.ts` | the queue, tracked proposals, a process group | prepare, apply, cancel, close, shut down | one operation at a time; nothing half done is forgotten | MemoryWrite |
| **Feishu** `feishu/*`, `ui/feishuPublishingPanel.ts` | link in the note, cached connection, pinned profile, operation under way | check, confirm, adopt, publish, authorize | synced means equal; what is sent was confirmed | FeishuPublish |
| Provider store `storage/providerStore.ts` | providers with revisions | CAS under the home lock | no lost update | – |
| Other runtimes `runtime/adapter.ts` | one CLI process per turn | start, read, cancel | a turn ends once | – |
| X upload `xArticle/*`, image posts `imagePost/*`, WeChat `publishing/*` | tasks, cookies, drafts, receipts | prepare, upload, verify, cancel | a draft is published at most once | – |
| Rendering `rednote/*`, `wechat/*`; other `ui/*`; settings, skills, share, utils; scripts | – | pure or view code | – | – |

**How they interact.** `studioMain` gives VaultStore a process lock and asks for the
lease. VaultStore gives the repository an `assertWrite` callback, which renews
the lease before a write, and an adapter whose CAS goes to the helper of the
process lock as one request in a pipe. The repository queues operations per
conversation (`conversationTails`) and catalog writes in one queue
(`enqueueCatalog`). The chat view prepares a prompt (context service, reading
the repository) and submits a run; the coordinator calls the repository
through VaultStore and the runtime manager for the turn, and the runtime comes back
with events and with the session to claim. A lost lease stops all runtimes
(`LoseLease`); an unload stops coordinator, runtime and memory in this order and only then
gives the lease on.

**What is hard.** Events of a dead helper or server that arrive after its successor was
started; requests that outlive the window that sent them; calls that
interleave at every `await`; a write that happened although the caller saw it
fail; an operation of seven file replacements that may stop after any of them,
and whose retry, recovery and repair may stop too; state read before an `await`
and used after it (a session, a confirmed note, a draft, an account); a stop that
cannot be confirmed. `PROJECT.json` lists these hazards at their lines.

## 2. Modules

```
SingleWriter      <--implements--  WriterFence (*)
                                       ^ atomically used by
                                   WriterLease (*)
ConversationTurns <--implements--  ConversationJournal (*)
                                       ^ a commit in one step
                                   ConversationCatalog (*)  SessionOwners (*)
                                       ^ a write in one step
                  ChatRunCoordinator (*)  ChatContext (*)  ChatDrafts (*)
                                       | runs of the runtime
                                   CodexRuntime (*)  --extends-->  AppServerClient
ShutdownBarrier   <--implements--  MemoryWrite (*)
                                   FeishuPublish (*)

(*) there are theorems about M; their proofs are in MProofs or a shared module
```

Two proof modules are about more than one module: `StoreProofs` about WriterFence,
WriterLease and ConversationJournal, `ChatViewProofs` about ChatContext and ChatDrafts. They extend
all of them, so WriterLease, ConversationJournal and ChatDrafts have names of their own for what every
module has (`LeaseSpec`, `JournalSpec`, `DraftsTypeOK` and so on), and **Windows** declares the windows that
WriterFence and WriterLease share.

Each module is checked through an `MC...` module that adds only symmetry and, for two of them, a constraint on the states that TLC follows.

**SingleWriter** is the abstract fence: a holder, a file, and "only the holder
replaces the file". Its step `ReplaceAndDrop`, taking effect and dropping the
fence at once, is a helper that dies between the replacement and its answer.

**WriterFence** is `PythonFcntlProcessWriteLock`. `held`, `child`, `pend` are the fields of the object; `acq` is
what the acquire behind `acquirePromise` awaits, `rel` what a release of a helper awaits, so that an acquire may
spawn a successor while a release still waits for the helper before it. `os`, `flock`, `inbox`, `eof`, `killed` are
the processes as the kernel sees them; `said`, `reply`, `ended` are what a
helper produced and the event loop has not yet delivered. Every listener and
timer of `startHelper`, `terminateHelper` and `release` is an action
(`ReadReady`, `ReadBusy`, `HandshakeTimeout`, `CloseEvent`, `KillDone`,
`ReleaseTimeout`, `ReleaseEnds`, `Answered`, `WriteFails`), the look at the lock directory behind READY is
`CheckPasses` or `CheckFails`, and the Python text is
`HelperLocks`, `HelperIsBusy`, `HelperServes`, `HelperLeaves`. `WindowGone` closes
the pipes as the operating system does; the helper goes on until it reads the
end of its stdin. A request is either in a helper's inbox or not: one at a time
per helper, as the queue of requests is WriterLease's subject.

**WriterLease** composes `ChatStoreLease`, the guard and heartbeat of VaultStore
and the load, reload and unload of `studioMain` over an atomic fence. Tasks are the
concurrent asynchronous calls of a window; each runs from one answer of the
helper to its next request, and the helper serves a FIFO `pipe` even when its
window is gone. An unload asks nobody: calls that are on their way to a write go on beside the release. `MutateRead`/`MutateSwapped` are the rounds of
`mutatePersistedLease`, `RenewDone` and `AcquireDone` what its callers do with the
outcome, `Unload` the order of `onunload`. Lease ids are numbers; the wall
clock is `now`, and may step back when `ClockStepsBack`.

**ConversationTurns** is what a conversation promises: a log that grows by ever
newer revisions, and the life of a turn (begin, activate, ask to stop, end,
recover), one commit at a time, at most one turn active.

**ConversationJournal** is one conversation's files. The operations (`BeginTurn`, `ActivateTurn`,
`RequestCancellation`, `FinalizeTurn`, `CancelTurn`, `PatchMessage`, `PatchSession`, `SetArchived`,
`RecoverTurns`) compute the next record; then the writes of
`commitConversationEvent` follow one action each: `Announce`, `AppendRecord`,
`FinalizeRun`, `WriteMeta`, `Publish`, and for an operation that ends a turn
`SwapSnapshot` and `TrimRun`; then it returns (`Return`). `Throw` stops the
operation after any of them, `Crash` also takes the process down. `FullyLoads` is the chain of
checks of the full loader. `Shortcut(needed)` says when the partial loader needs no full one: its checks pass and
every message it must have was begun behind the snapshot. `Replay` applies the records
behind the snapshot in the order of their sequences. A compaction loads once more: after the full loader it writes
what was read; on the shortcut it keeps the old snapshot's chunks as they are and adds those of the
messages behind it, so that what the journal said of a message that has a chunk goes with the journal. A record's
checksum is its revision (fresh by `RevisionsAreFresh` of the catalog); of the messages a conversation has, for
each turn, the revision that last wrote its assistant message. `folded` is a history variable: the turns that
a compaction found open.

**ConversationCatalog** is all conversations at once, with the commit of the
journal in one step. An operation starts (reading the catalog, perhaps waiting
for tails or asking for a rebuild), enters the queue, allocates, seeds,
commits, writes meta and publishes; a rebuild reads one body per step
(`ReadBody`) and replaces the catalog at the end (`FinishRebuild`). `robbed` and
`skipped` are history variables: the conversations whose marker a rebuild took
while their operation was not finished, and seeded bodies it passed over.

**SessionOwners** is which conversation owns a session of a runtime. The
run-states are the truth, the catalog repeats it, an index in shards answers
lookups; a claim changes all three (`Commit`, `WriteBuckets`, `SwapPointer`,
`Publish`) and `Throw` or `Crash` may stop it anywhere; a rebuild derives the
index from the bodies (`ReadBody` ... `InstallIndex`, `FinishRebuild`), also at startup when a store
from before the index is opened (`Ensure`). A lookup reads catalog, pointer, bucket
and catalog again (`ReadBefore` ... `ReadAfter`), each an `await`. A conversation here stands for a
conversation with one agent. A bucket file is named by a hash of its contents, so it
*is* its contents, and old ones stay. Times are revisions: two commits in one millisecond are left
out. `patchSession` has no caller in production now that `loadSessionOwner` is
wired; it is modelled as an operation of the repository. A lookup in a read-only window
that would need a repair fails, which `GiveUp` is; a duplicate that a rebuild finds is
`RebuildFails`; the deferral of an allocation is a case of `Throw` (with three
conversations it is a case of its own in the catalog).

**ChatRunCoordinator** is `ChatRunCoordinator` as wired to the store. `at` of a
run is the `await` it is in; the code between two awaits is one action
(`LoadLane`, `AdmitRun`, `Started`, `ExecuteRun`, `Activated`, `Resumed`, `EnterRuntime`,
`EffectsSettled`, `CheckpointDone`, `FinalizeRun`, `Flushed`, `FinalDone`,
`BlockedDone`, `DrainNext`), with the side effects of a run (claims, images, checkpoint
writes, the request to cancel) in flight beside it. A store call takes effect when it answers;
one that fails may have taken effect. A failed write opens a circuit; `Clear`
is what closes it. `StopConversation`, `Shutdown` and `PruneLane` may come at any
await. Awaits that only pass a microtask are merged with the next step. A stop
that arrives while a blocked run waits for its side effects is marked late, and
`CompletionIsLast` is not about it. A blocked run is announced as "paused" but
recovered as interrupted when it had been active; the model keeps what the store does.

**ChatContext** is what an agent is told. A send begins in a view
(`SendBegins`), reads the newest window of the conversation (`WindowLoaded`: is the
agent's session fresh, is a checkpoint due), perhaps the whole conversation
(`FullLoaded`), and is then a prompt with the revision it was prepared
from, and perhaps a checkpoint draft; `beginTurn` checks both and
stores turn and checkpoint in one commit. The run claims the session to resume before
the runtime (`validateResumeSession`), opens it, falls back to a fresh one
(`ResumeFallsBack`: the thread is gone, or privileges were lowered), tells it
(`Tell`) and ends. `knows` is what the runtime's transcripts hold (external).
Turns have two messages; a session is named by the turn that opened it. The
code's 100 messages, 6 raw turns and 24 turns to a checkpoint are
`WindowTurns`, `RawTail`, `TurnLimit`. A summary `covers` the turns it was made of and `tells` of those whose
entries its bounded lists still have: a new one keeps the latest `NewItems` (the fallback's caps of 16 and 24), a
merged one the latest `SummaryItems` (`slice(-32)` of `mergeSummaryItems` and of the sanitiser). One list
stands for the code's six, each turn has an entry of its own, and a prompt carries what its summary covers. In the
code an entry that comes again keeps its first place in the merged set, and may so be dropped early. Whether a text is over its token budget and how many raw turns
fit below it are left open. Archiving, renames and streamed patches are left out: they
change a revision, which makes a prepared send fail.
Messages of a migrated v1 conversation that belong to no turn are not handed over by the code either.

**ChatDrafts** is the editor of the chat view, the cache of entries with
revisions (`updateDraft`, `acknowledge`, `Pruned`), the debounced writes
(`schedule`, `TimerFires`, `FlushWrites`, `SaveLands`, `SaveDone`), reads that
return late (`LoadReturns`), the switch of the view and the send, and the shutdown in
`MaxRounds` rounds (`FlushAll`, `RoundEnds`). A text is the number of its last
keystroke. The turns of `flush` are microtasks and come before the next event
(`StartStep`). Reads, writes and switches overlap as they do in the code: a read gives any text that was
stored since it began, and returns whatever the view shows by then. Two history variables name the
conversations whose stored text did not reach the user: `hidden`, its read failed; `overtaken`, a read gave the entry a
text that had been written over, or that the newly bound editor does not take (`Late`). The others are
`Sound`.

**AppServerClient** and **CodexRuntime** are the shared Codex server and its
users: a chat turn, another use (an inline edit) and a status refresh. The
client's fields, process tree and teardown are the first module; runs from connection to
completion, abort, interrupt with its timer (`InterruptAnswered`,
`InterruptUnconfirmed`), the safety disconnect as the only proof that a turn
stopped, exits, floods and fatal errors, the global stop after a lost lease and the
shutdown of the manager at unload the second. `KillFails` lets a process group
outlive SIGKILL and its grace.

**MemoryWrite** is the modal, the service's queue, the process group of the
operation at its head, and the external runtime's store. `Believed` is what the
service accepts of an answer; everything else is a failure whose effect is
unknown. An operation is
over when its process has closed and the group is gone (`finishAfterGroupExit`): `pipes` says who holds the
child's output, and a process that left the group (`Strays`) may hold it as long as it likes, which keeps
'close' away (`Closes`). `tracked` and `recovery` are the fields that remember what must be
settled; `Shutdown` ... `BarrierPasses` and `ShutdownCancels` finish it, cancel it, or fail and
may be called again. It implements **ShutdownBarrier**: once a
shutdown has been reported done, nothing works and nothing will. A `prepare`
whose answer was lost leaves a proposal the service never heard of (`known` does not
count it). A plugin has one service, so the queue across instances is left out.

**FeishuPublish** is one writer window's publications of notes: panels with
their two checks and the confirmation (`Start`, `Reads`, `ProbeEnters`, `Probes`, `Confirms`,
`Snapshot`), the adoption of a document, the transaction (`Enters`, `Pins`,
`Intends`, `Marks`, `Updates`, `Creates`, `Records`, `Inserts`, `Verifies`,
`Completes`), the client's checks, authorization and pinned profile, with edits,
a copied note and account switches between any two steps and failures and crashes anywhere
(`Fails`, `Crash`). Only one window publishes, as the signing key needs the home write
fence (`ensureFeishuAssociationKey`). A number stands for a note's text, images
and fields; a profile for its account. The signature also covers the document's
id and url, which are written with it. A command that timed out has no later effect; frontmatter changed by the user, by sync or
undo is left out (the CAS stops the publication then). Two history
variables: `shaken`, another check, a failed one or an authorization came between a publication's
second check and its pin; `shared`, another note had the document when the publication planned
what to write.

**Broken variants.** Next to some definitions stands an operator introduced by
"A broken variant": the same definition with a plausible bug. No specification
uses them. Put in the place of the original, each makes the property that
`PROJECT.json` names with it fail, which shows that the property depends on
that line of the code.

## 3. Runs

`tlc -config X.cfg MCModule`, for each row; all pass. The type invariant
`TypeOK` of every module was checked with the same bounds by adding it to the
configuration; those of the modules marked in section 2 are proved.

| run | configuration | checks | states |
|---|---|---|---|
| fence | `MCWriterFence.cfg` | `HeldMeansFenced`, refinement of SingleWriter, `OrphansLeave`, `CallsReturn` | 96,000 |
| lease | `MCWriterLease.cfg` | `LeaseMatchesRecord`, `DataUnderOwnRecord` | 2.3 million |
| journal | `MCConversationJournal.cfg` | `LoadsWhereverItStops`, `AckedSurvive`, refinement of ConversationTurns | 259,000 |
| catalog | `MCConversationCatalog.cfg` | `RevisionsAreFresh`, `CatalogIsBehind`, `LagsOnlyWhenRobbed`, `NobodyIsStuck` | 654,000 |
| owners | `MCSessionOwners.cfg` | `OneOwner`, `OwnersResolve`, `AnswersAreTrue` | 908,000 |
| chatRuns | `MCChatRunCoordinator.cfg` | `EntersClean`, `AskedTurnIsComplete`, `UnsavedIsKept`, `CompletionIsLast` | 1.7 million |
| chatRunsEnd | `ChatRunsEnd.cfg` | `StoppedRunsEnd` | 165,000 |
| context | `MCChatContext.cfg` | `SummaryIsOfTranscript`, `NothingIsForgotten` | 3.7 million |
| drafts | `MCChatDrafts.cfg` | `UnsavedStaysInMemory`, `EditorShowsTheDraft`, `CleanShutdownSaves` | 3.3 million |
| codex | `MCCodexRuntime.cfg` | `DoneMeansStopped`, `CleanMeansQuiet`, `StopIsComplete`, `StopsEnd` | 89,000 |
| memory | `MCMemoryWrite.cfg` | `OneOperationAtATime`, `HalfDoneIsTracked`, `ShutdownSettles`, refinement of ShutdownBarrier, `ShutdownEnds` | 124,000 |
| feishu | `MCFeishuPublish.cfg` | `SyncedMeansEqual`, `PinnedIsConfirmed`, `WorkGoesOn`, `SendsAsConfirmed`, `OwnsByConsent` | 2.4 million |

**What they show.** *fence, lease*: whatever the order of handshakes, timeouts,
late events and deaths, a file changes only for the window that has the kernel's
lock, every acquire and release ends but the one that finds its lock directory unsafe (section 4), and a protected
write lands only while the record names its writer, also when
its window has unloaded with the write under way, or vanished. *journal*: an interrupted operation
leaves the conversation before or after it, except in the two windows named
`FileAhead` and `SnapshotAhead`; a completed one survives everything, except what is written to the answer of a turn
that a compaction met open, once the turn has ended (`folded`, section 4). *catalog*: revisions
are never reused, whatever is rebuilt when; the catalog shows nothing that the
files do not have; if it is behind, a marker says so unless a rebuild
overtook the operation; and the waits of readers, mutations and rebuilds never close a circle.
*owners*: no two conversations hold one session, the index follows the
conversations, and a lookup that answers says the truth. *chatRuns*: no run enters
the runtime behind an open circuit, a turn that is asked to stop holds all that was
shown, output the store did not take is kept in memory, and nothing follows a
run's completion. *chatRunsEnd*: what is stopped, ends. *context*: an agent has been told
of every completed turn when it gets a prompt, by its session or by a prompt that summarises it, except for the two
ways named in section 4; a checkpoint's summary was made of all completed turns up to its end, and however often
it was merged it still has the latest of them. *drafts*: unsaved text
stays in memory, the editor shows the text of its conversation, and a shutdown
that reports success has saved everything, in every conversation whose stored text was read, and read in
time. *codex*: a turn reported as done does not go
on, a clean unload leaves nothing at work, and every stop ends, as long as SIGKILL works. *memory*: no
write is left half done and forgotten, a finished shutdown leaves nothing at work, and a shutdown ends unless a
process outside the group keeps a pipe for ever. *feishu*: a note that says it is in step with its document
is, and no document is written that was not confirmed for that note, its text and its owner.

**Bounds.** *fence*: two windows, two helpers. A helper belongs to one
window for life, so this is either two competing windows or one window with a
helper and its successor, the two situations the code's identity checks
(`this.child === child`) are about. Nothing tells windows apart but their names, so
the constraint `FirstSpawns` follows only the behaviours in which the first window spawns the first helper
(symmetry cannot be declared beside liveness). *lease*: two windows with two calls each
(the main one, and a heartbeat or a write), one clock tick, one death, one
change of the data, so that every renewal can race a write, an acquisition or
the unload; `MaxAttempts` is the code's 4, and two calls do not exhaust it.
*journal*: two turns (one active, one in its way) and four revisions, which
suffice for two compactions and an operation after them. Crashes are not
bounded: the revision counter bounds the operations. *catalog*: three
conversations, the other reader, three revisions: one operation waits to allocate
while a second has failed and a third is under way, and rebuilds are asked for by several at
once; a fourth conversation adds no new relation between a marker, its operation and a
rebuild. Two conversations with four revisions (990,000 states) were checked as well.
*owners*: two conversations, three sessions, two of them in one shard, two revisions
besides the initial ones: a session moves, is claimed twice, and a rebuild
meets a half-done claim; two sessions in two shards with three revisions (13.0 million
states) were checked as well. *chatRuns*: two runs in one or two lanes, one
checkpoint write and one claim each, one failing call of any kind, with or without
effect; *chatRunsEnd* has images and one lane instead of claims and symmetry. *context*: two views, three
turns, a window of one turn, a tail of one, a checkpoint due after two, one restart, revisions
enough for three whole runs: a window that does not reach the checkpoint, a
second checkpoint on a first, a switch of agents and back, and two prompts
prepared at once all happen; with `NewItems` and `SummaryItems` 1 every merge drops something. *drafts*: two edits,
two rounds, and two switches or a failure and a switch (the constraint `TwoMishaps`): a late read takes a switch away and
one back, or a save that lands while a read is out.
*codex*: one run of each kind and two faults. *memory*: two proposals.
*feishu*: two publications under two accounts of one note, or of it and its copy, one edit, two
documents, one switch of account; three texts and two switches were checked for an earlier form, three publications
are beyond 7 million states.
`CHECK_DEADLOCK FALSE` is said where a system may stop: helpers and windows are used up,
revisions run out, a shutdown is done.

**Fairness** is stated only where a liveness property is checked.
In the fence: the event loop delivers what arrived, timers fire, a helper that
can go on does, a signalled helper dies, a look at a directory returns. Nothing obliges a window to acquire,
send or release, or a helper to die on its own. In *chatRunsEnd*: store calls
answer (perhaps with a failure), continuations run, and the runtime settles
after its signal was aborted, which is what *codex* shows of one runtime. In *codex*: requests have timeouts and
claims return, the interrupt's timer fires, the wait for a teardown is bounded,
continuations run. In *memory*: the gate answers, the timer of an operation fires, SIGKILL
kills whoever is in the group, 'close' follows when nobody holds a pipe any more, continuations of the shutdown run;
a process outside the group is obliged to nothing. The user is never obliged to do anything.

Checked by hand only, as their state graphs are too large for liveness beside the
other runs: `OperationsEnd` of the catalog under its `FairSpec` (two conversations, three revisions, 246,000 states; file
operations return and the queue is FIFO, so strong fairness of each one's
steps), and `GoneWriterIsReplaced` of the lease under `FairLeaseSpec` (two clock values, no deaths,
61,000 states; a read-only window tries again, which the code does for
`RESTART_LEASE_GRACE_MS` or `RELOAD_LEASE_GRACE_MS`).

## 4. Disagreements

Found while modelling. No run is kept for them (the properties of the runs name the exceptions); each can be seen by adding the
property named, or setting the constant, in the configuration of its module.

- **A stop behind an announcement.** The run-state lists a journal file before the
  file exists; a stop in between makes every load fail with "Missing conversation
  journal", and the catalog rebuild with it, although comments at the seeding and the
  loader say a retry or the full loader recovers (`AnnouncedRecordReplays`, `MaxRev` 3).
- **A stop in a later compaction.** From the second one on, a stop between the
  snapshot and the run-state leaves a journal that does not extend the
  snapshot, and the conversation cannot be read; the comment there calls the
  old journals recovery evidence (`CompactionIsAtomic`).
- **An answer lost by compaction.** A comment at the partial loader says that normal begin, checkpoint and final paths
  "never touch historical message chunks" and that exceptional shapes fall back to the full loader
  (`conversationRepositoryV2.ts:3281-3284`). Three steps lead to one that does not: a turn is begun as queued; a stop,
  and recovery pauses it and compacts, so that its still empty answer is in a chunk; the turn is activated and
  finalized with its answer. The compaction behind this (`:3955`) needs no message of an open turn, takes the
  shortcut, which drops what the journal says of a message in a chunk (`:3425-3429`, `:3443-3450`), copies the old chunk
  and drops the journal. The answer that was reported as stored is gone (`AckedSurvive` without `folded`).
- **An unsafe lock directory.** When the directory is no longer one behind READY, `startHelper` awaits `release()`
  (`processWriteLock.ts:636`), which awaits `acquirePromise` (`:464`): the acquire waits for itself, and every release behind it
  too. The error "Ailu lock directory changed to an unsafe type." in the next line is never thrown, and a later
  `acquire()` returns true while the flag is set (`CallsReturn` without `stuck`).
- **A late READY.** The line of a helper whose handshake timed out sets `held` all the same, also
  in the handshake of its successor; `assertHeld()` then passes for a helper that has said nothing. No file
  is at risk, as that helper serves nobody without the lock (`HeldMeansFenced` names this case).
- **Rebuilds beside operations.** A reader that finds one dead marker queues a rebuild while
  others are in flight, and it drops all markers; an operation that then fails
  after its commit is not repaired. A second rebuild for the same marker lists a
  seeded empty body. `LagsOnlyWhenRobbed` names both (`robbed`, `skipped`).
- **Sessions without a claim.** The index compares such a session by the time of its
  conversation, which goes on; after the next message its lookup sees a catalog that
  "changed" in every round and fails (`OwnedSessionsResolve`).
- **The clock steps back.** `renew` refreshes `heartbeatAt` and keeps `acquiredAt`; the
  record is then one its own parser refuses, and a window that has the fence does not become the
  writer (`FenceIsTheAuthority` with `ClockStepsBack` TRUE). A failed hardening of the record's file has the same effect.
- **JSON files beside the helper.** `writeJsonFile` renews the lease and then writes
  through the vault adapter; if the helper dies in between, the write lands beside another
  writer. Observed in the code; the model's protected writes are those of the helper.
- **A blocked run's turn.** It stays active in the store after the circuit that blocked it is closed;
  the refusal of the next turn is taken for a failed write and opens a circuit that
  stops all conversations (`OnlyFaultsOpenCircuits`, two runs in one lane, one fault).
- **A late stop of a blocked run.** A stop may reach a run between the circuit that blocks it and its settlement
  (`chatRunCoordinator.ts:820-845`). Its request (`:1497-1524`) is then still on its way when the circuit closes and
  the next run begins, and `requestTurnCancellation` (`conversationRepositoryV2.ts:1968`), unlike `beginTurn` and
  `activateTurn`, does not look at other turns: two turns of one conversation are under way in the store.
  In the code this is remote: the stop must fall between two microtasks, and the only thing that lets the
  next run's start overtake the request is that each store call first awaits an `exists` of its own. It takes three runs, one
  more than the run has; it came out when `EntersClean`, which first said that no other turn is under way when a run
  enters the runtime, could not be proved, and TLC then gave the behaviour. The property now names this case.
- **A prompt of two readings.** The decision to resume is made from the window, the expected revision
  is that of a later load of the whole conversation; a turn completed in between by another view is in
  neither, though the comment at `sourceRevision` says it is the revision "used to prepare
  this prompt". A view whose copy is still empty expects no revision at all
  (`NothingIsForgotten` without `holed`; the first needs four turns and a `TurnLimit` of 3).
- **An unfinished turn.** A turn that recovery left paused, or a blocked run left queued,
  is unfinished for ever (nothing in the views resolves it), and
  `materializeAtomicContextCheckpoint` refuses every checkpoint while it is: once one is due, by the limit of
  turns or a switch of agents, nothing can be sent in that conversation.
- **Overlapping reads of a draft.** Nothing orders the read of a stored draft after the writes of it
  (`chatUiStatePersistence.ts:83-101`) or ends it with its binding (`chatView.ts:2082`). A late read puts an old text into an
  entry that was acknowledged meanwhile; and when the view goes away and comes back, the first read fills the entry but
  not the editor, which is captured blank when the view leaves again (`chatView.ts:2071-2086`, `:3561-3566`), and
  the blank is saved over the draft (`LoadKeepsNewest`; the three properties with `Sound` replaced by `Conv \ hidden`).
  Also: a hidden draft that could not be read may be
  overwritten after a scroll; a message accepted after the drafts' shutdown leaves its
  text in the draft file; blank drafts are always written, since the test for
  meaning counts the field `version` (a comment in the repository says otherwise);
  a read-only window's dirty entry makes the shutdown fail after its rounds.
- **A tree that cannot be killed.** `disconnectChildTree` forgets readiness and path
  before it knows that the tree is gone; a second stop finds nothing to do and the unload is
  clean (`CleanMeansQuiet` with `KillFails` TRUE). With a chat turn on it, the coordinator's shutdown
  waits for ever, so the manager's retry is never reached, and the next generation waits too. `CleaningUp` excuses a
  stop that meets the client's own clean-up after an exit or a fatal error. A turn aborted before the server
  acknowledged it ends without a confirmed stop; `DoneMeansStopped` is about acknowledged turns.
- **A process outside the group.** An operation of MemoryWrite is over when its group is gone *and* its child has closed
  (`verifiedMemoryWrite.ts:642`). A descendant that made a group of its own and inherited a pipe is out of the
  signals' reach, and the queue and the shutdown wait as long as it lives (`ShutdownEnds` names it).
- **Accounts between check and pin.** The pinned profile is compared with the last
  check anybody made; in the window `shaken` names, the publication runs under another account and signs the
  link for the confirmed one (`PinnedIsConfirmed` without `shaken`). A crash between
  the remote creation and its record leaves an orphan document, and a retry makes another.

## 5. Proofs

Checked by TLAPS. Each theorem holds for every value of the constants that the named
assumption of the module allows. In every proof module an invariant made of named parts is shown to
be inductive, one lemma or step per action, one step below it per part that the action can
disturb; the properties the runs check follow from it. `IInv` was checked
by TLC on the run's instance before it was proved.

`StoreProofs` holds for any sets of windows, helpers, tasks and turns and any bounds. Of WriterFence it assumes only
`NoneAssumption` (the "none" values are not windows or helpers).

- `TypeCorrect`: `Spec => []TypeOK`, which is inductive by itself; one step per action.
- `FenceInvariant`: `Spec => []FenceInv`, inductive relative to the types. TLC's
  properties are not inductive: they say nothing of where the lock comes from.
  `FenceInv` adds that a helper serves exactly when it has the lock (so at most
  one serves), that a helper's owner never changes once it was started, that a
  helper that is not past its start has said nothing, that a window's
  child is its own and, while it is starting, awaited or signalled, and that `held` goes back to a READY line
  that window read.
- `AssertHeldIsTrue`: `HeldMeansFenced` from `FenceInv`, for any number of helpers of a window: when `assertHeld()` passes
  and the child lives, the child has the lock, as it serves, or else it is the unsignalled successor in its handshake
  and the READY line behind `held` is that of a helper before it.
- `FenceIsSingleWriter`: `Spec => ImplementsSingleWriter`. Initial states map to initial
  states; a helper that locks takes the fence, one that serves replaces the
  file as its holder, one that leaves or dies drops it, the rest stutters.

Of WriterLease it assumes `LeaseAssumption`. `LeaseInvariant` has these parts.

- `LockInv`, `NewInv`, `LifeInv`: the fence is that of the one helper that serves; a window that never had it has left
  no trace; which calls there are in each phase of a window's life.
- `PipeInv`, `OutInv`: every request before a serving helper, and every answer on its way back, is of a call that waits
  for it, at most one for each call.
- `StartInv`: what a window that takes the lease was told of the record is still so while it has the fence, and the
  record it swaps in is its own.
- `OrderInv`: the requests at an unload are in order: a call whose next step is its protected write has its last look
  at the record answered ahead of what the release reads, so its write goes before the release can change the record.
- `RecordInv`: while a writer has the fence, while an unloading one still has a call on its way to a protected
  write, *and as long as the helper has a protected write before it*, the
  record names the window and no request in the pipe changes that ahead of such a write.

Every step of a call has one of four outcomes (`Ends`, `Sends`, `Hardens`, `Acquires`), so
each part is shown once for each. `LeaseSafe` and `DataSafe` are `LeaseMatchesRecord` and
`DataUnderOwnRecord`. Neither is inductive: both depend on what is still in the pipe.

Of ConversationJournal it assumes `JournalAssumption` (the bound is a natural number and the name of no
turn is "none"). `Replay` is a recursive function; that unfolding it gives what one expects is
proved from the least sequence at which two replays would differ, with the library's fact
that `<` on the naturals is well founded. `JournalInvariant` has these parts.

- `JournalTypes`: `JournalTypeOK` (`JournalTypesHold`) and the types of what is inside a record.
- `FilesInv`: the journals the run-state lists exist, but for the one an announced record is about to
  create; none was created for a later record; no sequence is in them twice.
- `HeadInv`: the run-state's head is the last record, the announced one follows it.
- `ChainInv`: the records are numbered without a gap and each names the one before it. They start right behind the
  snapshot (`Behind`), or with the conversation and the snapshot is among them (`Whole`), or the
  snapshot has just passed them all and the run-state is about to drop them (`Passed`).
- `ValueInv`: what the snapshot, the records and the announced record add up to (`Value`) has the
  run-state's revision and its turns; a message with a chunk is as in the chunk unless its turn was open when a
  compaction met it (`Settled`); and what was acknowledged is in it, with the exception of `AckedSurvive` (`Accounted`).
- `OpInv`: where an operation stands says what is on disk; before its announcement it carries `Value` with its
  record applied, its turns have taken one legal step, and it writes no message of a turn that has ended.

The heart is `JournalSteps`: the announcement makes `Value` what the operation computed, and *no other
write, stop, repair or compaction changes its revision or its turns*; of its messages a compaction may
lose what `Accounted` excuses. So `JournalIsConversation` maps the announcement to a step of ConversationTurns and everything else to a stutter. `JournalLoads` (`LoadsWhereverItStops`) and
`ReportedIsKept` (`AckedSurvive`) follow: in each case of `ChainInv` a loader takes the chain
or the snapshot, and a full one reads `Value`. The first excuses `FileAhead` and `SnapshotAhead`, the second
`folded`: they are the code's, and section 4 has a behaviour for each. Neither is inductive: a chain that is sound today says nothing of where the next record goes.

`MemoryWriteProofs` assumes nothing: it holds for any set of proposals. Besides the
lemmas on queues (what an append and a tail leave in them), four invariants
build on each other and on `TypeCorrect`; each has one step per action and one lemma for what the end of
an operation does to it, which all the ways an operation can end share. `pipes` decides only when an operation ends,
so the steps that move it leave the four as they are.

- `WorkInv`: the processes at work are those of the operation at the head of the queue,
  and where the shutdown stands still the queue is empty. `OperationsAreSerial` (`OneOperationAtATime`) follows.
- `QueueInv`: the operations that wait are the shutdown's own exactly in its two
  loops. With it `ServiceIsBarrier` is `Spec => ImplementsBarrier`:
  an answer leaves the stage of the shutdown alone or makes it fail.
- `MemoryInv`: what is half done is in `recovery`; an apply that waits is for a
  proposal in `recovery` or a settled one; a reported proposal is tracked or
  settled. `HalfDoneIsTracked` alone is not inductive: an apply of a forgotten proposal could begin. The
  lemma `ForgetsTheSettled` is the heart: an answer the service believes is true of the
  store, so only the settled is forgotten.
- `StageInv`: each loop of the shutdown still holds all it was started for and has
  not settled. `ShutdownLeavesNothing` (`ShutdownSettles`) follows with `MemoryInv`.

`ConversationCatalogProofs` holds for any set of conversations and any bound on
revisions; `CatalogAssumption` says that the two other users of the queue are not
conversations. `CatalogInvariant` has these parts.

- `FilesInv`: `meta.json`, run-state and the catalog's counter never overtake each other in this
  order; an operation's revision is above the one on disk until its commit and equal to it afterwards.
- `Apart`: no two conversations have a revision in common, on disk *or in an operation that has not
  committed*. `RevisionsAreFresh` alone is not inductive, since the second half decides what the next commit makes of it.
- `ListedInv`, `LagInv`: the two properties of the catalog, for one conversation.
- `MarkerInv`: a conversation's markers are those of its operation, which has one
  until the commit or was robbed of it; a seeded body has the marker of its creation.
- `ScanInv`: what a rebuild has read still holds when it installs the result, unless it overtook a
  commit; this is where `robbed` and `skipped` come from.

`RevisionsNeverShared`, `CatalogNeverAhead` and `LagIsMarked` are `RevisionsAreFresh`,
`CatalogIsBehind` and `LagsOnlyWhenRobbed`.

`SessionOwnersProofs` holds for any sessions and shards and finitely many conversations
(`OwnersAssumption`; the index counts owners). `OwnersInvariant` has these parts.

- `OpInv`, `ClaimInv`: an operation on a session has the queue from its lookup on and no marker but its own, and
  the session it is about to claim is nobody else's, which is what the lookup found.
- `MarkerInv`, `BodyInv`: an entry of the catalog that differs from its conversation has a marker.
- `IndexInv`: without a dead marker the index holds exactly what the conversations hold, except for the
  one claim that is on its way to it (`Was`), for which it still holds the previous owner.
- `ShardsInv`, `WrittenInv`: buckets are apart and whole, and those the pointer is about to name exist.
- `ScanInv`: what a rebuild has read is so, as it has the queue.
- `ReaderInv`: as long as the catalog's revision is the one a lookup read first, so is what it read of
  the index. The last read of a lookup is this comparison, so `LookupsAreTrue` (`AnswersAreTrue`)
  needs no lock of the reader's.

`OneOwnerAlways` and `OwnersAgree` are `OneOwner` and `OwnersResolve`.

`ChatViewProofs` is about ChatContext and ChatDrafts. ChatContext: it holds for any views and any window, tail and limits
(`ContextAssumption`: they are numbers, a window and a limit are not 0). `ContextInvariant`:

- `CkptInv`: the checkpoint ends before the last turn, covers the completed turns up to its end and tells of the
  latest `NewItems` of them; a merge of two such summaries is one again (`MergeRecalls`, as the merged lists are no shorter).
- `OwnedInv`: a session that a completed turn claimed holds the transcript up to this turn.
- `PrepInv`: what a view prepared at a revision is right *while the conversation is at that revision*: the prompt and
  its session hold every completed turn, the draft covers all that it replaces. `beginTurn` checks the revision.
- `RunInv`: the run is of the last turn; its session is claimed for it alone, except where Codex leaves a claim that it
  then replaces, and told of what its prompt carries.

`SummaryIsWhole` is `SummaryIsOfTranscript`, `PromptsTell` is `NothingIsForgotten`.
The lemmas on what is read and carried rest on one about sets of numbers, that a bounded one
has a largest, which follows from the library's theorem on well-founded orders.

ChatDrafts: it holds for any conversations, bounds and number of rounds (`DraftsAssumption`: the "none" values are none of
the others), with reads, writes and switches in any order. `DraftsInvariant` has these parts; those about what the user
left are for the `Sound` conversations.

- `EntryInv`: what the user left is in the entry if that is dirty, and in the file if not. For this, a write in flight keeps
  its entry dirty until it is acknowledged and has the entry's text if it is of the entry's
  revision; and a clean entry that is not blank has the stored text.
- `ReadInv`: a read is current at most while the view shows its conversation, and gives nothing that was not typed before.
- `ShownInv`: the editor shows the entry, which is what the user left unless a read is still to come.
- `SwitchInv`: at most one flush has a switch of the view waiting for it.

`UnsavedTextStays`, `EditorIsTrue` and `ShutdownHasSaved` are `UnsavedStaysInMemory`,
`EditorShowsTheDraft` and `CleanShutdownSaves`. The first is not inductive: an acknowledgement makes an entry
clean, and only `EntryInv` knows that the write it acknowledges had the entry's text. That a read which is not `Late` does no
harm is the step that took most: it gives what is in the file, or meets a dirty entry.

`CodexRuntimeProofs`. The types (`TypeCorrect`) hold without any assumption. The other theorems
assume `KillFails = FALSE`: a process group does not outlive SIGKILL and its grace. This is an
assumption on the operating system, and it is needed: with `KillFails` TRUE each of the three
properties fails (section 4). `RuntimeInvariant` has these parts, besides a small one for each run.

- `ClientInv`: the client's fields are true of the processes: there is a child while the server
  lives, a group until it is gone, and a living server is being disconnected exactly as long as it gets no answers.
- `SafetyInv`: who disconnects, and that a safety disconnect at its end has left nothing (`Quiet`). That
  there is no path is not enough for this: the lemma `QuietWhen` needs that nobody else is clearing.
- `RunInv`: an acknowledged turn stays active until it is done; the runs that a global stop waits for are aborted
  and, when it only waits for their ends, have nothing at work.
- `UnloadInv`: from the last check of the shutdown on nothing can start.

Most steps move the runs only in few ways: `Steady` says which, and that a step leaves all runs
steady is shown once per action and used by the types and by the invariant.
`DoneTurnsStopped`, `StopLeavesNothing` and `CleanIsQuiet` are `DoneMeansStopped`, `StopIsComplete` and `CleanMeansQuiet`.

`ChatRunCoordinatorProofs` holds for any conversations, any runs and any bounds on failing
writes, claims, images and checkpoint writes (`ChatAssumption`: "none" is no run and no conversation, the
bounds are numbers). `Invariance` is `Spec => []IInv`; besides the types `IInv` has these parts.

- `TailInv`, `FreshInv`, `StageInv`: where a run is, and what its turn, its side effects and its stop may be there.
- `QueueInv`: whoever has not ended is in its conversation's queue, once; only the first has got past its admission;
  and a stop that reaches a run has reached whoever is before it.
- `StopInv`, `EndInv`: a stop first closes the run to new output, then drains the checkpoints, then writes the
  request; an end waits for claims and images, then drains. Nothing becomes unsaved again on this way.
- `SaveInv`: a marker names a run of its conversation that ended with one of the circuits nothing closes, and keeps all
  others of the conversation from executing.
- `ActiveInv`: a turn becomes active when no other turn of its conversation is under way, and none becomes active beside it.

`AskedTurnsAreComplete` and `CompletionComesLast` are parts of `StopInv` and `EndInv`
(`AskedTurnIsComplete`, `CompletionIsLast`), `UnsavedStays` follows from `SaveInv` (`UnsavedIsKept`). `RunsEnterClean`
(`EntersClean`) takes all of it: a run enters with no circuit open, so no conversation has a marker; another turn of its
conversation that is asked to stop would be of a run behind it, which was stopped no earlier, or of one before
it, which has ended: in the store, or as "paused".

`FeishuPublishProofs` holds for any notes, accounts and publications (`FeishuAssumption`: "none" is none
of them, the bounds are numbers). `FeishuInvariant`:

- `KnownInv`: what a publication knows at its step; in its probe and in the transaction it is the operation under way.
- `PinInv`: the pin is the confirmed account, or the publication is `shaken`.
- `PlanInv`: the document to write is the one of the link that was read, trusted or to be adopted.
- `SendInv`: while a document is written its note says so, and before the note says that it is
  published the document holds its text; `busy` keeps everybody else from it.
- `LinkInv`, `WrittenInv`: links and documents lead to what exists. `Synced` is `SyncedMeansEqual` of one note.

`SyncedIsTrue`, `CommandsAreConfirmed`, `SendingIsConfirmed` and `OwnershipIsConsented` are
`SyncedMeansEqual`, `PinnedIsConfirmed`, `SendsAsConfirmed` and `OwnsByConsent`. The proof found that
`SendsAsConfirmed` was too strong as it was first stated: "a document is created only for a note that
has none". With `MaxStart` 3, beyond the run's bound, two notes that share a document are both planned as
duplicates; one gets a document of its own, and the other still creates one, although it shares no
longer: the code keeps the plan that was confirmed. Nothing is lost by it, and
the property now says "or that shared its document when that was planned".

*Only model-checked.* Liveness (`OrphansLeave`, `CallsReturn`, `StoppedRunsEnd`, `StopsEnd`,
`ShutdownEnds`, `OperationsEnd`, `GoneWriterIsReplaced`), `NobodyIsStuck` and `WorkGoesOn`: fairness and
`ENABLED` are beyond the prover. Every other property of the runs follows from a theorem above.

## 6. Not modelled

*Around the modelled parts.* Hosts without a helper (the lease's `adapter.process` fallback and the adapter's
CAS by copy). Torn journal lines: the helper replaces files as a whole. Byte budgets
of journals and chunks, message windows and search: they only read. In
WriterFence, more than one request in flight per helper (WriterLease has the
pipe). In the catalog, the four attempts of a claim: the model lets a claim
fail at any point, which the fourth miss is a case of. In the coordinator, the watchers,
the trimming of the shown window, the byte budgets of images and the registry of
sessions read at startup. In the context, the texts of summaries, `planContextCheckpoint` and `commitContextCheckpoint` (without a
caller in the view), and the switch of a provider route that drops a session in the runtime manager
(the view has dropped it before). In the Codex runtime, the contents of events, approvals, identities of
threads (a refusal is a choice), switching to another binary and execution fingerprints (the choice
`EarlyEnd`). In Feishu, folders and wiki spaces, conversion of texts, and the share panel.

*Components.* The migration from the v1 store (planned; only its result is an
initial state of SessionOwners). The provider store and the publication guard (planned). The adapter of the
other agents, one process per turn. The X article upload, which is for its most part the
automation of a page, with the coordinator of its tasks and its cookie barrier planned. Image posts,
WeChat and Rednote rendering, settings, skills and sharing: pure conversions or views. The chat view, the
settings tab and the publishing studio render state of the stores above; what they contribute to a protocol
(binding a conversation, drafts, preparing and sending, confirming a publication) is in the modules that need it.
Much of the repository is such code, so the lines the modules
stand for stay well below a third of it.

## 7. Plan

Written so far, in this order: SingleWriter, WriterFence and its proofs,
WriterLease, ConversationTurns and ConversationJournal, ConversationCatalog,
ChatRunCoordinator, MemoryWrite and its proofs, ChatDrafts, CodexRuntime, FeishuPublish,
SessionOwners, ChatContext.

Next, to model: the migration (`ensureV2Store`: staging, verification, installation of
the pointer, rollback); the provider store and the publication guard; the
coordinators of X uploads and of cookies with their shutdown barriers, as further
implementations of ShutdownBarrier.

Proved so far: WriterFence, WriterLease, MemoryWrite, ConversationCatalog, SessionOwners, ChatContext,
ChatDrafts, CodexRuntime, FeishuPublish, ChatRunCoordinator, ConversationJournal: every module with a
behaviour of its own. What is left unproved needs fairness or `ENABLED`.
