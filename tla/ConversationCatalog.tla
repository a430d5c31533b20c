------------------------- MODULE ConversationCatalog -------------------------
(***************************************************************************)
(* The catalog over all conversations of a vault                           *)
(* (storage/conversationRepositoryV2.ts).  An operation on a conversation   *)
(* allocates a revision in the catalog and leaves a pending marker there,   *)
(* commits the revision in the conversation's own files, and publishes the  *)
(* new entry, which takes the marker off.  Whoever reads the catalog and    *)
(* finds a marker nobody in this process is working on asks for a rebuild   *)
(* from the files.                                                         *)
(*                                                                         *)
(* Operations on one conversation are queued (enqueueConversation), catalog *)
(* writes are queued (enqueueCatalog); everything else interleaves.  How a  *)
(* commit reaches the disk is ConversationJournal's subject: here it is one *)
(* step.                                                                   *)
(***************************************************************************)
EXTENDS Naturals, FiniteSets

CONSTANTS Conversation,
          Reader,        \* whoever else reads the catalog: views, search, recovery
          Nobody,
          MaxRev         \* bound on the revisions handed out

ASSUME CatalogAssumption ==
  /\ MaxRev \in Nat
  /\ Reader \notin Conversation /\ Nobody \notin Conversation \cup {Reader}

VARIABLES
  catalog,  \* catalog.json
  body,     \* per conversation: which of its files exist, and their revision
  meta,     \* per conversation: the revision in meta.json
  local,    \* localPendingMutations: revisions this process works on
  op,       \* per conversation: the operation under way
  queue,    \* who holds the catalog queue
  asks,     \* who waits for a rebuild it has asked for
  scan,     \* the rebuild under way
  robbed,   \* conversations a rebuild read before the commit of an operation under way
  skipped   \* seeded conversations a rebuild passed over

disk == <<catalog, body, meta>>
history == <<robbed, skipped>>
vars == <<disk, local, op, queue, asks, scan, history>>

NoOp == [at |-> "none", kind |-> "none", rev |-> 0]
NoScan == [for |-> Nobody, todo |-> {}, pending |-> {}, listed |-> {}, entry |-> [c \in {} |-> 0]]

Marker(c, rev, was) == [conv |-> c, rev |-> rev, was |-> was]

(* The run-state file exists.                                              *)
HasBody(c) == body[c].files \in {"runState", "whole"}

Init ==
  /\ catalog = [rev |-> 0, listed |-> {}, entry |-> [c \in Conversation |-> 0], pending |-> {}]
  /\ body = [c \in Conversation |-> [files |-> "none", rev |-> 0]]
  /\ meta = [c \in Conversation |-> 0]
  /\ local = [c \in Conversation |-> {}]
  /\ op = [c \in Conversation |-> NoOp]
  /\ queue = Nobody
  /\ asks = {}
  /\ scan = NoScan
  /\ robbed = {} /\ skipped = {}

(* isLocalPendingMutation                                                  *)
IsLocal(m) == m.rev \in local[m.conv]
Dead == {m \in catalog.pending : ~IsLocal(m)}

At(c, step) == op[c].at = step
Goto(c, step) == op' = [op EXCEPT ![c].at = step]

(* A broken variant: the revisions of an operation that failed stay local. *)
SettleKeepsLocal(c) == op' = [op EXCEPT ![c] = NoOp] /\ UNCHANGED local

(* The operation is over: its tail settles, its revisions are local no more. *)
Settle(c) ==
  /\ op' = [op EXCEPT ![c] = NoOp]
  /\ local' = [local EXCEPT ![c] = {}]

CanUseQueue(c) == queue \in {Nobody, c}

(***************************************************************************)
(* Starting an operation: enqueueConversation and readCatalogWithRepair.   *)
(***************************************************************************)
Starting == {c \in Conversation : op[c].at \in {"check", "repair", "enter", "allocate"}}

Enqueue(c, kind) ==
  /\ At(c, "none") /\ catalog.rev + Cardinality(Starting) < MaxRev
  /\ op' = [op EXCEPT ![c] = [at |-> "check", kind |-> kind, rev |-> 0]]
  /\ UNCHANGED <<disk, local, queue, asks, scan, history>>

(* Clean: go on.  Only local markers: wait for them, that is, look again.   *)
CheckClean(c) ==
  /\ At(c, "check") /\ catalog.pending = {}
  /\ Goto(c, "enter")
  /\ UNCHANGED <<disk, local, queue, asks, scan, history>>

CheckDead(c) ==
  /\ At(c, "check") /\ Dead # {}
  /\ Goto(c, "repair")
  /\ asks' = asks \cup {c}
  /\ UNCHANGED <<disk, local, queue, scan, history>>

ReaderAsks ==
  /\ Dead # {}
  /\ asks' = asks \cup {Reader}
  /\ UNCHANGED <<disk, local, op, queue, scan, history>>

(* A body that was seeded half way is refused; a missing one is seeded by  *)
(* beginTurn only.  A claim holds the catalog queue from here to its end,   *)
(* and starts over when it finds a marker (enqueueCleanCatalogMutation).   *)
Enter(c) ==
  /\ At(c, "enter")
  /\ \/ /\ op[c].kind = "mutate"
        /\ body[c].files \in {"none", "whole"}
        /\ Goto(c, "allocate") /\ UNCHANGED queue
     \/ /\ op[c].kind = "claim" /\ queue = Nobody /\ catalog.pending = {}
        /\ body[c].files = "whole"
        /\ Goto(c, "allocate") /\ queue' = c
     \/ /\ op[c].kind = "claim" /\ queue = Nobody /\ catalog.pending # {}
        /\ Goto(c, "check") /\ UNCHANGED queue
  /\ UNCHANGED <<disk, local, asks, scan, history>>

Refused(c) ==
  /\ At(c, "enter")
  /\ \/ body[c].files \in {"snapshot", "runState"}
     \/ op[c].kind = "claim" /\ body[c].files # "whole"
  /\ Settle(c)
  /\ UNCHANGED <<disk, queue, asks, scan, history>>

(***************************************************************************)
(* allocateGlobalUnlocked                                                  *)
(***************************************************************************)
Allocate(c) ==
  LET rev == catalog.rev + 1 IN
  /\ At(c, "allocate") /\ CanUseQueue(c) /\ Dead = {}
  /\ catalog' = [catalog EXCEPT !.rev = rev,
                                !.pending = @ \cup {Marker(c, rev, c \in catalog.listed)}]
  /\ local' = [local EXCEPT ![c] = @ \cup {rev}]
  /\ op' = [op EXCEPT ![c].rev = rev,
                      ![c].at = IF body[c].files = "none" THEN "seed" ELSE "commit"]
  /\ queue' = IF op[c].kind = "claim" THEN c ELSE Nobody
  /\ UNCHANGED <<body, meta, asks, scan, history>>

(* Recovery is deferred while other operations are in flight.              *)
Deferred(c) ==
  /\ At(c, "allocate") /\ CanUseQueue(c) /\ Dead # {} /\ Dead # catalog.pending
  /\ Settle(c)
  /\ queue' = Nobody
  /\ UNCHANGED <<disk, asks, scan, history>>

(***************************************************************************)
(* rebuildCatalogUnlocked, in the catalog queue.  The bodies it reads go on *)
(* changing under it.                                                      *)
(***************************************************************************)
StartScan(asker) ==
  /\ queue' = Reader
  /\ scan' = [for |-> asker, todo |-> Conversation, pending |-> catalog.pending,
              listed |-> {}, entry |-> [c \in Conversation |-> 0]]

RebuildAsked(asker) ==
  /\ asker \in asks /\ queue = Nobody
  /\ StartScan(asker)
  /\ UNCHANGED <<disk, local, op, asks, history>>

RebuildToAllocate(c) ==
  /\ At(c, "allocate") /\ queue = Nobody /\ Dead # {} /\ Dead = catalog.pending
  /\ StartScan(c)
  /\ UNCHANGED <<disk, local, op, asks, history>>

(* A body older than the marker of its creation has been seeded only.       *)
OnlySeeded(c) ==
  \E m \in scan.pending : m.conv = c /\ ~m.was
    /\ \A n \in scan.pending : n.conv = c /\ ~n.was => body[c].rev < n.rev

ReadBody(c) ==
  /\ queue = Reader /\ c \in scan.todo
  /\ IF ~HasBody(c) \/ OnlySeeded(c)
     THEN /\ scan' = [scan EXCEPT !.todo = @ \ {c}]
          /\ skipped' = skipped \cup (IF HasBody(c) THEN {c} ELSE {})
          /\ UNCHANGED <<body, meta>>
     ELSE /\ scan' = [scan EXCEPT !.todo = @ \ {c}, !.listed = @ \cup {c},
                                  !.entry[c] = body[c].rev]
          /\ meta' = [meta EXCEPT ![c] = body[c].rev]
          /\ body' = [body EXCEPT ![c].files = "whole"]
          /\ UNCHANGED skipped
  /\ robbed' = robbed \cup {d \in {c} : op[c].at \in {"seed", "commit"}}
  /\ UNCHANGED <<catalog, local, op, queue, asks>>

HighestOf(S) == CHOOSE x \in S : \A y \in S : y <= x

RebuildFrom(rev) ==
  /\ queue = Reader /\ scan.todo = {}
  /\ catalog' = [rev |-> rev, listed |-> scan.listed, entry |-> scan.entry, pending |-> {}]
  /\ scan' = NoScan
  /\ asks' = asks \ {scan.for}
  /\ queue' = IF scan.for \in Conversation /\ ~At(scan.for, "repair") THEN scan.for ELSE Nobody
  /\ op' = IF scan.for \in Conversation /\ At(scan.for, "repair")
           THEN [op EXCEPT ![scan.for].at = "enter"] ELSE op
  /\ UNCHANGED <<body, meta, local, history>>

(* A broken variant: the highest revision is taken from the bodies alone.   *)
FinishFromBodies == RebuildFrom(HighestOf({0} \cup {scan.entry[c] : c \in scan.listed}))

(* The rebuilt catalog has no markers at all.                              *)
FinishRebuild ==
  /\ queue = Reader /\ scan.todo = {}
  /\ catalog' = [rev |-> HighestOf({catalog.rev} \cup {scan.entry[c] : c \in scan.listed}),
                 listed |-> scan.listed, entry |-> scan.entry, pending |-> {}]
  /\ scan' = NoScan
  /\ asks' = asks \ {scan.for}
  /\ IF scan.for \in Conversation
     THEN IF At(scan.for, "repair")
          THEN Goto(scan.for, "enter") /\ queue' = Nobody
          ELSE UNCHANGED op /\ queue' = scan.for
     ELSE UNCHANGED op /\ queue' = Nobody
  /\ UNCHANGED <<body, meta, local, history>>

RebuildFails ==
  /\ queue = Reader
  /\ queue' = Nobody /\ scan' = NoScan /\ asks' = asks \ {scan.for}
  /\ IF scan.for \in Conversation THEN Settle(scan.for) ELSE UNCHANGED <<op, local>>
  /\ UNCHANGED <<disk, history>>

(***************************************************************************)
(* Seeding (writeInitialConversation), committing, publishing.             *)
(***************************************************************************)
Seed(c) ==
  /\ At(c, "seed")
  /\ \/ body[c].files = "none" /\ body' = [body EXCEPT ![c].files = "snapshot"] /\ UNCHANGED op
     \/ body[c].files = "snapshot" /\ body' = [body EXCEPT ![c].files = "runState"] /\ UNCHANGED op
     \/ /\ body[c].files \in {"runState", "whole"}
        /\ body' = [body EXCEPT ![c].files = "whole"]
        /\ Goto(c, "commit")
  /\ UNCHANGED <<catalog, meta, local, queue, asks, scan, history>>

(* A broken variant: the catalog entry is published ahead of meta.json.    *)
CommitSkipsMeta(c) ==
  /\ At(c, "commit")
  /\ body' = [body EXCEPT ![c].rev = op[c].rev]
  /\ Goto(c, "publish")
  /\ UNCHANGED <<catalog, meta, local, queue, asks, scan, history>>

Commit(c) ==
  /\ At(c, "commit")
  /\ body' = [body EXCEPT ![c].rev = op[c].rev]
  /\ Goto(c, "meta")
  /\ UNCHANGED <<catalog, meta, local, queue, asks, scan, history>>

WriteMeta(c) ==
  /\ At(c, "meta")
  /\ meta' = [meta EXCEPT ![c] = op[c].rev]
  /\ Goto(c, "publish")
  /\ UNCHANGED <<catalog, body, local, queue, asks, scan, history>>

(* A broken variant: the markers of other conversations go, too.           *)
PublishClearsAll(c) ==
  /\ At(c, "publish") /\ CanUseQueue(c)
  /\ catalog' = [rev |-> HighestOf({catalog.rev, op[c].rev}),
                 listed |-> catalog.listed \cup {c},
                 entry |-> [catalog.entry EXCEPT ![c] = op[c].rev],
                 pending |-> {m \in catalog.pending : m.rev > op[c].rev}]
  /\ robbed' = robbed \ {c} /\ skipped' = skipped \ {c}
  /\ queue' = Nobody
  /\ Settle(c)
  /\ UNCHANGED <<body, meta, asks, scan>>

(* upsertCatalogEntryUnlocked                                              *)
Publish(c) ==
  LET newer == c \in catalog.listed /\ catalog.entry[c] > op[c].rev IN
  /\ At(c, "publish") /\ CanUseQueue(c)
  /\ catalog' = [rev |-> HighestOf({catalog.rev, op[c].rev}),
                 listed |-> catalog.listed \cup {c},
                 entry |-> IF newer THEN catalog.entry ELSE [catalog.entry EXCEPT ![c] = op[c].rev],
                 pending |-> {m \in catalog.pending : ~(m.conv = c /\ m.rev <= op[c].rev)}]
  /\ robbed' = robbed \ {c} /\ skipped' = skipped \ {c}
  /\ queue' = Nobody
  /\ Settle(c)
  /\ UNCHANGED <<body, meta, asks, scan>>

(***************************************************************************)
(* Failures: an operation throws where it is, or the process dies.         *)
(***************************************************************************)
Throw(c) ==
  /\ op[c].at \notin {"none", "repair"} /\ scan.for # c
  /\ Settle(c)
  /\ queue' = IF queue = c THEN Nobody ELSE queue
  /\ UNCHANGED <<disk, asks, scan, history>>

Crash ==
  /\ \E c \in Conversation : op[c] # NoOp
  /\ op' = [c \in Conversation |-> NoOp]
  /\ local' = [c \in Conversation |-> {}]
  /\ queue' = Nobody /\ asks' = {} /\ scan' = NoScan
  /\ UNCHANGED <<disk, history>>

Work(c) ==
  \/ CheckClean(c) \/ CheckDead(c) \/ Enter(c) \/ Refused(c)
  \/ Allocate(c) \/ Deferred(c) \/ RebuildToAllocate(c)
  \/ Seed(c) \/ Commit(c) \/ WriteMeta(c) \/ Publish(c)

Asker == Conversation \cup {Reader}
Rebuild == (\E c \in Conversation : ReadBody(c)) \/ FinishRebuild

Next ==
  \/ \E c \in Conversation :
       (\E kind \in {"mutate", "claim"} : Enqueue(c, kind)) \/ Work(c) \/ Throw(c)
  \/ (\E a \in Asker : RebuildAsked(a)) \/ Rebuild \/ RebuildFails \/ ReaderAsks \/ Crash

(* The catalog queue is a promise chain: first in, first out.              *)
Spec == Init /\ [][Next]_vars
FairSpec ==
  /\ Spec /\ WF_vars(Rebuild)
  /\ \A a \in Asker : SF_vars(RebuildAsked(a))
  /\ \A c \in Conversation : SF_vars(Work(c))

(***************************************************************************)
(* Properties.                                                             *)
(***************************************************************************)
Revisions == Nat
Steps == {"none", "check", "repair", "enter", "allocate", "seed", "commit", "meta", "publish"}

Markers == [conv : Conversation, rev : Revisions, was : BOOLEAN]

(* The catalog, the bodies and the operations have their types.            *)
TypeOK ==
  /\ catalog \in [rev : Revisions, listed : SUBSET Conversation,
                 entry : [Conversation -> Revisions], pending : SUBSET Markers]
  /\ body \in [Conversation -> [files : {"none", "snapshot", "runState", "whole"}, rev : Revisions]]
  /\ meta \in [Conversation -> Revisions]
  /\ local \in [Conversation -> SUBSET Revisions]
  /\ op \in [Conversation -> [at : Steps, kind : {"none", "mutate", "claim"}, rev : Revisions]]
  /\ queue \in Asker \cup {Nobody} /\ asks \subseteq Asker
  /\ scan \in [for : Asker \cup {Nobody}, todo : SUBSET Conversation, pending : SUBSET Markers,
              listed : SUBSET Conversation, entry : [Conversation -> Revisions] \cup {NoScan.entry}]
  /\ robbed \subseteq Conversation /\ skipped \subseteq Conversation

Current(c) == c \in catalog.listed /\ catalog.entry[c] = body[c].rev
Marked(c) == \E m \in catalog.pending : m.conv = c

(* Whatever fails, two commits never share a revision, and the catalog has  *)
(* handed out everything that is in use.                                   *)
InHand(c) == {body[c].rev} \cup (IF op[c].at = "commit" THEN {op[c].rev} ELSE {})
RevisionsAreFresh ==
  /\ \A c, d \in Conversation : c # d => InHand(c) \cap InHand(d) \subseteq {0}
  /\ \A c \in Conversation :
       /\ \A r \in InHand(c) \cup {meta[c]} : r <= catalog.rev
       /\ op[c].at = "commit" => body[c].rev < op[c].rev

(* The catalog never announces what is not yet in a conversation's files.   *)
CatalogIsBehind ==
  \A c \in catalog.listed : body[c].files = "whole" /\ catalog.entry[c] <= meta[c] /\ meta[c] <= body[c].rev

(* A conversation the catalog is behind on carries a marker, so that the    *)
(* next reader repairs the catalog; and a conversation without a turn is    *)
(* not in the history.  Both hold as long as no rebuild overtook the commit *)
(* of an operation under way, or passed over a seeded body.                *)
LagsOnlyWhenRobbed ==
  \A c \in Conversation :
    /\ body[c].rev > 0 /\ ~Current(c) => Marked(c) \/ c \in robbed
    /\ c \in catalog.listed /\ body[c].rev = 0 => c \in skipped \cup robbed

(* Operations and readers wait for one another, for the catalog queue and   *)
(* for rebuilds, but never all of them at once: somebody can go on without a *)
(* new operation, a failure or a crash.                                     *)
SomebodyWaits == asks # {} \/ \E c \in Conversation : op[c] # NoOp
NobodyIsStuck ==
  SomebodyWaits =>
    ENABLED (Rebuild \/ (\E a \in Asker : RebuildAsked(a)) \/ \E c \in Conversation : Work(c))

(* Under FairSpec every operation comes to an end.  Two conversations are    *)
(* what TLC can check of it.                                                *)
OperationsEnd == \A c \in Conversation : op[c] # NoOp ~> op[c] = NoOp
=============================================================================
