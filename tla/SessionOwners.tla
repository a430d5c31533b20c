---------------------------- MODULE SessionOwners ----------------------------
(***************************************************************************)
(* Which conversation owns a session of the agent's runtime                *)
(* (storage/conversationRepositoryV2.ts).  The run-state of a conversation  *)
(* is the canonical record; the catalog repeats it; an index of sessions,   *)
(* in shards, answers the question without opening a conversation.  A claim *)
(* changes all three one after the other and may stop in between; a rebuild *)
(* derives the other two from the run-states.                              *)
(*                                                                         *)
(* A bucket file is named by a hash of what it holds, so here it is its     *)
(* contents.  Times are revisions: a later commit has a later time.  Each   *)
(* conversation stands for one conversation with one agent.                *)
(***************************************************************************)
EXTENDS Naturals, FiniteSets

CONSTANTS Conversation, Session,
          NoSession, Reader, Nobody,
          Low,           \* the sessions of one shard; the others share another
          MaxRev         \* bound on the revisions handed out

ASSUME OwnersAssumption ==
  /\ IsFiniteSet(Conversation)
  /\ MaxRev \in Nat /\ Low \subseteq Session /\ NoSession \notin Session
  /\ Reader \notin Conversation /\ Nobody \notin Conversation \cup {Reader}

VARIABLES
  body,     \* per conversation: run-state.json
  catalog,  \* catalog.json
  pointer,  \* session-owners.json: the bucket file of each shard, and the count
  files,    \* the bucket files
  op,       \* per conversation: the operation under way
  queue,    \* who holds the catalog queue
  asks,     \* who waits for a rebuild it has asked for
  scan,     \* the rebuild under way
  reader,   \* a lookup under way
  mode      \* starting (ensureV2Store) or running

index == <<pointer, files>>
disk == <<body, catalog, index>>
vars == <<disk, op, queue, asks, scan, reader, mode>>

Shard == {"low", "high"}
ShardOf(s) == IF s \in Low THEN "low" ELSE "high"

(* A session and its durable claim: the revision that made it, or 0 for one  *)
(* that a store without claims left behind ("legacy").                     *)
Body == [rev : Nat, session : Session \cup {NoSession}, claim : Nat]
Catalog == [rev : Nat, entry : [Conversation -> Body], pending : SUBSET [conv : Conversation, rev : Nat]]
Owner == [session : Session, conv : Conversation, claim : Nat, at : Nat]
BucketFile == [shard : Shard, owners : SUBSET Owner]
Step == {"none", "check", "repair", "enter", "lookup", "allocate", "commit", "buckets", "pointer",
         "publish"}
Operation ==
  [at : Step, kind : {"none", "claim", "patch", "touch"}, session : Session \cup {NoSession},
   previous : Session \cup {NoSession}, rev : Nat]
Scan ==
  [for : Conversation \cup {Reader, Nobody}, at : {"none", "read", "pointer", "catalog"},
   todo : SUBSET Conversation, entry : UNION {[D -> Body] : D \in SUBSET Conversation}]
Lookups ==
  [at : {"idle", "before", "pointer", "bucket", "after", "answered"},
   session : Session \cup {NoSession}, catalog : Catalog \cup {<<>>},
   bucket : BucketFile \cup {<<>>}, found : SUBSET Owner]

OwnerOf(c, b) ==
  [session |-> b.session, conv |-> c, claim |-> b.claim,
   at |-> IF b.claim = 0 THEN b.rev ELSE b.claim]

OwnersIn(bodies) == {OwnerOf(c, bodies[c]) : c \in {d \in DOMAIN bodies : bodies[d].session # NoSession}}

Bucket(shard, owners) ==
  [shard |-> shard, owners |-> {o \in owners : ShardOf(o.session) = shard}]
NoPointer == [of |-> <<>>, count |-> 0]

PointerTo(owners) ==
  [of |-> [h \in Shard |-> Bucket(h, owners)], count |-> Cardinality(owners)]
HasIndex == pointer # NoPointer
Indexed == UNION {pointer.of[h].owners : h \in DOMAIN pointer.of}

NoOp == [at |-> "none", kind |-> "none", session |-> NoSession, previous |-> NoSession, rev |-> 0]
NoScan == [for |-> Nobody, at |-> "none", todo |-> {}, entry |-> <<>>]
Idle == [at |-> "idle", session |-> NoSession, catalog |-> <<>>, bucket |-> <<>>, found |-> {}]

(* What is on disk and what is under way have their types.                  *)
TypeOK ==
  /\ body \in [Conversation -> Body] /\ catalog \in Catalog
  /\ pointer \in {NoPointer} \cup [of : [Shard -> BucketFile], count : Nat]
  /\ files \subseteq BucketFile
  /\ op \in [Conversation -> Operation]
  /\ queue \in Conversation \cup {Reader, Nobody} /\ asks \subseteq Conversation \cup {Reader}
  /\ scan \in Scan /\ reader \in Lookups /\ mode \in {"starting", "running"}

(* A store that was migrated, or written by the first version, which had no *)
(* index; some sessions were never claimed.                                *)
Init ==
  /\ body \in [Conversation -> [rev : {0}, session : Session \cup {NoSession}, claim : {0}]]
  /\ \A c, d \in Conversation :
       c # d /\ body[c].session = body[d].session => body[c].session = NoSession
  /\ catalog = [rev |-> 0, entry |-> body, pending |-> {}]
  /\ \/ pointer = NoPointer /\ files = {}
     \/ pointer = PointerTo(OwnersIn(body)) /\ files = {pointer.of[h] : h \in Shard}
  /\ op = [c \in Conversation |-> NoOp]
  /\ queue = Nobody /\ asks = {} /\ scan = NoScan /\ reader = Idle
  /\ mode = "starting"

Dead == {m \in catalog.pending : op[m.conv].rev # m.rev}

At(c, step) == op[c].at = step
Goto(c, step) == op' = [op EXCEPT ![c].at = step]
Settle(c) == op' = [op EXCEPT ![c] = NoOp]
CanUseQueue(c) == queue \in {Nobody, c}
OnSession(c) == op[c].kind \in {"claim", "patch"}

(***************************************************************************)
(* An operation up to its revision: enqueueConversation,                   *)
(* readCatalogWithRepair, enqueueCleanCatalogMutation.                     *)
(***************************************************************************)
Starting == {c \in Conversation : op[c].at \in {"check", "repair", "enter", "lookup", "allocate"}}

Enqueue(c) ==
  /\ mode = "running" /\ At(c, "none") /\ catalog.rev + Cardinality(Starting) < MaxRev
  /\ \E kind \in {"claim", "patch", "touch"}, s \in Session \cup {NoSession} :
       /\ kind = "claim" => s # NoSession
       /\ kind = "touch" => s = NoSession
       /\ op' = [op EXCEPT ![c] = [NoOp EXCEPT !.at = "check", !.kind = kind, !.session = s]]
  /\ UNCHANGED <<disk, queue, asks, scan, reader, mode>>

Check(c) ==
  /\ At(c, "check")
  /\ \/ catalog.pending = {} /\ Goto(c, "enter") /\ UNCHANGED asks
     \/ Dead # {} /\ Goto(c, "repair") /\ asks' = asks \cup {c}
  /\ UNCHANGED <<disk, queue, scan, reader, mode>>

(* A broken variant: a claim does not look at the catalog once more when it *)
(* has the queue.                                                          *)
EnterUnseen(c) ==
  /\ At(c, "enter")
  /\ \/ ~OnSession(c) /\ Goto(c, "allocate") /\ UNCHANGED queue
     \/ OnSession(c) /\ queue = Nobody /\ Goto(c, "lookup") /\ queue' = c
  /\ UNCHANGED <<disk, asks, scan, reader, mode>>

(* Another operation (a message, a turn) takes the queue for each of its     *)
(* catalog writes; one on a session holds it from a clean catalog to its end. *)
Enter(c) ==
  /\ At(c, "enter")
  /\ \/ ~OnSession(c) /\ Goto(c, "allocate") /\ UNCHANGED queue
     \/ /\ OnSession(c) /\ queue = Nobody
        /\ IF catalog.pending = {} THEN Goto(c, "lookup") /\ queue' = c
                                   ELSE Goto(c, "check") /\ UNCHANGED queue
  /\ UNCHANGED <<disk, asks, scan, reader, mode>>

Lookup(s) == {o \in pointer.of[ShardOf(s)].owners : o.session = s}

(* claimSessionOwnership by the run that has it already, and patchSession of *)
(* what is there, change nothing.                                          *)
Unchanged(c) ==
  /\ body[c].session = op[c].session
  /\ op[c].session = NoSession \/ body[c].claim # 0

Taken(c) == op[c].session # NoSession /\ \E o \in Lookup(op[c].session) : o.conv # c

LookUp(c) ==
  /\ At(c, "lookup") /\ HasIndex
  /\ \/ ~Taken(c) /\ Goto(c, "allocate") /\ UNCHANGED queue
     \/ (Taken(c) \/ Unchanged(c)) /\ Settle(c) /\ queue' = Nobody
  /\ UNCHANGED <<disk, asks, scan, reader, mode>>

(* allocateGlobalUnlocked                                                  *)
Allocate(c) ==
  LET rev == catalog.rev + 1 IN
  /\ At(c, "allocate") /\ CanUseQueue(c) /\ Dead = {}
  /\ catalog' = [catalog EXCEPT !.rev = rev, !.pending = @ \cup {[conv |-> c, rev |-> rev]}]
  /\ op' = [op EXCEPT ![c].rev = rev, ![c].at = "commit"]
  /\ UNCHANGED <<body, index, queue, asks, scan, reader, mode>>

(***************************************************************************)
(* The conversation, then the index, then the catalog.                     *)
(***************************************************************************)
(* patchSession keeps the claim of a session it finds; a claim is a new one. *)
ClaimOf(c) ==
  IF op[c].session = NoSession THEN 0
  ELSE IF op[c].kind = "patch" /\ body[c].session = op[c].session /\ body[c].claim # 0
       THEN body[c].claim ELSE op[c].rev

Commit(c) ==
  /\ At(c, "commit")
  /\ IF OnSession(c)
     THEN /\ body' = [body EXCEPT ![c] = [rev |-> op[c].rev, session |-> op[c].session,
                                          claim |-> ClaimOf(c)]]
          /\ op' = [op EXCEPT ![c].at = "buckets", ![c].previous = body[c].session]
     ELSE body' = [body EXCEPT ![c].rev = op[c].rev] /\ Goto(c, "publish")
  /\ UNCHANGED <<catalog, index, queue, asks, scan, reader, mode>>

(* replaceIndexedSessionOwner: what the shards of the previous and the next *)
(* session will hold.                                                      *)
Leaves(c) == {o \in Indexed : o.session = op[c].previous}
Stays(c) == {o \in Indexed \ Leaves(c) : o.session = op[c].session}
Enters(c) == IF op[c].session = NoSession THEN {} ELSE {OwnerOf(c, body[c])}

(* A broken variant: the session the conversation had before stays its own. *)
ReplacedKeepsPrevious(c) == (Indexed \ Stays(c)) \cup Enters(c)

Replaced(c) == (Indexed \ (Leaves(c) \cup Stays(c))) \cup Enters(c)

Touched(c) == {ShardOf(s) : s \in {op[c].previous, op[c].session} \ {NoSession}}

Replaceable(c) ==
  /\ op[c].previous # NoSession => \E o \in Leaves(c) : o.conv = c
  /\ \A o \in Stays(c) : o.conv = c

WriteBuckets(c) ==
  /\ At(c, "buckets") /\ Replaceable(c)
  /\ files' = files \cup {Bucket(h, Replaced(c)) : h \in Touched(c)}
  /\ Goto(c, "pointer")
  /\ UNCHANGED <<body, catalog, pointer, queue, asks, scan, reader, mode>>

SwapPointer(c) ==
  /\ At(c, "pointer")
  /\ pointer' = [of |-> [h \in Shard |-> IF h \in Touched(c) THEN Bucket(h, Replaced(c))
                                                             ELSE pointer.of[h]],
                 count |-> (pointer.count - Cardinality(Leaves(c)))
                             + Cardinality(IF Stays(c) = {} THEN Enters(c) ELSE {})]
  /\ Goto(c, "publish")
  /\ UNCHANGED <<body, catalog, files, queue, asks, scan, reader, mode>>

(* upsertCatalogEntryUnlocked                                              *)
Publish(c) ==
  /\ At(c, "publish") /\ CanUseQueue(c)
  /\ catalog' = [rev |-> IF catalog.rev < op[c].rev THEN op[c].rev ELSE catalog.rev,
                 entry |-> IF catalog.entry[c].rev > op[c].rev THEN catalog.entry
                           ELSE [catalog.entry EXCEPT ![c] = body[c]],
                 pending |-> {m \in catalog.pending : ~(m.conv = c /\ m.rev <= op[c].rev)}]
  /\ Settle(c) /\ queue' = Nobody
  /\ UNCHANGED <<body, index, asks, scan, reader, mode>>

(***************************************************************************)
(* rebuildCatalogUnlocked, in the catalog queue, and the derivation of an   *)
(* index that is missing (ensureV2Store, scanSessionOwnerships).           *)
(***************************************************************************)
StartScan(asker) ==
  /\ queue' = Reader
  /\ scan' = [NoScan EXCEPT !.for = asker, !.at = "read", !.todo = Conversation]

RebuildAsked(asker) ==
  /\ asker \in asks /\ queue = Nobody
  /\ StartScan(asker)
  /\ UNCHANGED <<disk, op, asks, reader, mode>>

RebuildToAllocate(c) ==
  /\ At(c, "allocate") /\ CanUseQueue(c) /\ Dead # {} /\ Dead = catalog.pending
  /\ StartScan(c)
  /\ UNCHANGED <<disk, op, asks, reader, mode>>

(* Startup: a catalog with markers is rebuilt first.                       *)
Ensure ==
  /\ mode = "starting" /\ queue = Nobody
  /\ \/ catalog.pending # {} /\ asks' = asks \cup {Reader} /\ UNCHANGED <<mode, queue, scan>>
     \/ catalog.pending = {} /\ HasIndex /\ mode' = "running" /\ UNCHANGED <<asks, queue, scan>>
     \/ catalog.pending = {} /\ ~HasIndex /\ StartScan(Nobody) /\ UNCHANGED <<asks, mode>>
  /\ UNCHANGED <<disk, op, reader>>

ReadBody(c) ==
  /\ scan.at = "read" /\ c \in scan.todo
  /\ scan' = [scan EXCEPT !.todo = @ \ {c},
                          !.entry = [d \in DOMAIN @ \cup {c} |-> IF d = c THEN body[c] ELSE @[d]]]
  /\ UNCHANGED <<disk, op, queue, asks, reader, mode>>

Found == OwnersIn(scan.entry)
NoDuplicate == \A o, p \in Found : o.session = p.session => o = p

WriteAllBuckets ==
  /\ scan.at = "read" /\ scan.todo = {} /\ NoDuplicate
  /\ files' = files \cup {Bucket(h, Found) : h \in Shard}
  /\ scan' = [scan EXCEPT !.at = "pointer"]
  /\ UNCHANGED <<body, catalog, pointer, op, queue, asks, reader, mode>>

Resumed ==
  /\ asks' = asks \ {scan.for}
  /\ IF scan.for \in Conversation
     THEN IF At(scan.for, "repair")
          THEN Goto(scan.for, "enter") /\ queue' = Nobody
          ELSE UNCHANGED op /\ queue' = scan.for
     ELSE UNCHANGED op /\ queue' = Nobody
  /\ scan' = NoScan

InstallIndex ==
  /\ scan.at = "pointer"
  /\ pointer' = PointerTo(Found)
  /\ IF scan.for = Nobody THEN Resumed ELSE scan' = [scan EXCEPT !.at = "catalog"]
                                            /\ UNCHANGED <<op, queue, asks>>
  /\ UNCHANGED <<body, catalog, files, reader, mode>>

HighestOf(S) == CHOOSE x \in S : \A y \in S : y <= x

FinishRebuild ==
  /\ scan.at = "catalog"
  /\ catalog' = [rev |-> HighestOf({catalog.rev} \cup {scan.entry[c].rev : c \in Conversation}),
                 entry |-> scan.entry, pending |-> {}]
  /\ Resumed
  /\ UNCHANGED <<body, index, reader, mode>>

RebuildFails ==
  /\ scan # NoScan
  /\ queue' = Nobody /\ scan' = NoScan /\ asks' = asks \ {scan.for}
  /\ IF scan.for \in Conversation THEN Settle(scan.for) ELSE UNCHANGED op
  /\ UNCHANGED <<disk, reader, mode>>

(***************************************************************************)
(* loadSessionOwner: readConsistentCatalogView around one lookup.          *)
(***************************************************************************)
Ask(s) ==
  /\ mode = "running" /\ reader.at \in {"idle", "answered"}
  /\ reader' = [Idle EXCEPT !.at = "before", !.session = s]
  /\ UNCHANGED <<disk, op, queue, asks, scan, mode>>

(* Markers of operations under way are waited for; a dead one is repaired.  *)
ReadBefore ==
  /\ reader.at = "before"
  /\ \/ /\ catalog.pending = {} /\ UNCHANGED asks
        /\ reader' = [reader EXCEPT !.at = "pointer", !.catalog = catalog]
     \/ Dead # {} /\ asks' = asks \cup {Reader} /\ UNCHANGED reader
  /\ UNCHANGED <<disk, op, queue, scan, mode>>

ReadPointer ==
  /\ reader.at = "pointer" /\ HasIndex
  /\ reader' = [reader EXCEPT !.at = "bucket", !.bucket = pointer.of[ShardOf(reader.session)]]
  /\ UNCHANGED <<disk, op, queue, asks, scan, mode>>

ReadBucket ==
  /\ reader.at = "bucket" /\ reader.bucket \in files
  /\ reader' = [reader EXCEPT !.at = "after", !.bucket = <<>>,
                              !.found = {o \in reader.bucket.owners : o.session = reader.session}]
  /\ UNCHANGED <<disk, op, queue, asks, scan, mode>>

(* assertSessionOwnerMatchesCatalog                                        *)
Matches(o, entries) == o = OwnerOf(o.conv, entries[o.conv])

(* A broken variant: the catalog is not compared with the one before.      *)
ReadAfterOnce ==
  /\ reader.at = "after"
  /\ reader' = IF \A o \in reader.found : Matches(o, reader.catalog.entry)
               THEN [reader EXCEPT !.at = "answered", !.catalog = <<>>]
               ELSE [Idle EXCEPT !.at = "before", !.session = reader.session]
  /\ UNCHANGED <<disk, op, queue, asks, scan, mode>>

ReadAfter ==
  /\ reader.at = "after"
  /\ IF catalog = reader.catalog /\ \A o \in reader.found : Matches(o, catalog.entry)
     THEN reader' = [reader EXCEPT !.at = "answered", !.catalog = <<>>]
     ELSE reader' = [Idle EXCEPT !.at = "before", !.session = reader.session]
  /\ UNCHANGED <<disk, op, queue, asks, scan, mode>>

(* The rounds run out, or a read fails.                                    *)
GiveUp ==
  /\ reader.at \notin {"idle", "answered"}
  /\ reader' = Idle
  /\ UNCHANGED <<disk, op, queue, asks, scan, mode>>

(***************************************************************************)
(* Failures.                                                               *)
(***************************************************************************)
(* A write fails, or the allocation is deferred because a marker is dead    *)
(* while another is live (ConversationCatalog!Deferred).                    *)
Throw(c) ==
  /\ op[c].at \notin {"none", "repair"} /\ scan.for # c
  /\ Settle(c)
  /\ queue' = IF queue = c THEN Nobody ELSE queue
  /\ UNCHANGED <<disk, asks, scan, reader, mode>>

Crash ==
  /\ mode = "running"
  /\ op' = [c \in Conversation |-> NoOp]
  /\ queue' = Nobody /\ asks' = {} /\ scan' = NoScan /\ reader' = Idle
  /\ mode' = "starting"
  /\ UNCHANGED disk

Work(c) ==
  \/ Check(c) \/ Enter(c) \/ LookUp(c) \/ Allocate(c)
  \/ RebuildToAllocate(c) \/ Commit(c) \/ WriteBuckets(c) \/ SwapPointer(c) \/ Publish(c)

Rebuild ==
  \/ \E a \in Conversation \cup {Reader} : RebuildAsked(a)
  \/ \E c \in Conversation : ReadBody(c)
  \/ WriteAllBuckets \/ InstallIndex \/ FinishRebuild \/ RebuildFails

Read ==
  \/ \E s \in Session : Ask(s)
  \/ ReadBefore \/ ReadPointer \/ ReadBucket \/ ReadAfter \/ GiveUp

Next ==
  \/ \E c \in Conversation : Enqueue(c) \/ Work(c) \/ Throw(c)
  \/ Rebuild \/ Read \/ Ensure \/ Crash

Spec == Init /\ [][Next]_vars

(***************************************************************************)
(* Properties.                                                             *)
(***************************************************************************)
(* Two conversations never hold the same session in their own files: a     *)
(* claim that stopped after its commit is found by the next one.           *)
OneOwner ==
  \A c, d \in Conversation :
    c # d /\ body[c].session # NoSession => body[c].session # body[d].session

(* A lookup that answers, says who owns the session at that moment, however *)
(* claims, rebuilds and the reads of the lookup interleaved.               *)
Owning(s) == {<<c, body[c].claim>> : c \in {d \in Conversation : body[d].session = s}}
AnswersAreTrue ==
  [][reader.at = "after" /\ reader'.at = "answered" =>
       {<<o.conv, o.claim>> : o \in reader.found} = Owning(reader.session)]_vars

(* The index names whole buckets and counts them right at any time.  When   *)
(* no marker is left, it holds just the owners in the conversations, and    *)
(* every claim agrees with the catalog, so that a lookup of it succeeds.    *)
(* Sessions that were never claimed need not: their time is the time of     *)
(* the conversation, which goes on.                                        *)
IndexIsWhole ==
  HasIndex => /\ \A h \in Shard : pointer.of[h] \in files /\ pointer.of[h].shard = h
              /\ pointer.count = Cardinality(Indexed)
OwnersResolve ==
  /\ IndexIsWhole
  /\ HasIndex /\ catalog.pending = {} =>
       /\ \A s \in Session : {<<o.conv, o.claim>> : o \in Lookup(s)} = Owning(s)
       /\ \A o \in Indexed : Matches(o, catalog.entry) \/ o.claim = 0

(* Without the exception.                                                  *)
OwnedSessionsResolve ==
  HasIndex /\ catalog.pending = {} => \A o \in Indexed : Matches(o, catalog.entry)
=============================================================================
