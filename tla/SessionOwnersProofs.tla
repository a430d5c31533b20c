-------------------------- MODULE SessionOwnersProofs --------------------------
(***************************************************************************)
(* Proofs about SessionOwners, for any conversations and sessions: that two  *)
(* conversations never hold one session, that the index agrees with the      *)
(* conversations wherever no marker says otherwise, and that a lookup which  *)
(* answers tells the truth.                                                *)
(***************************************************************************)
EXTENDS SessionOwners, FiniteSetTheorems, TLAPS

-----------------------------------------------------------------------------
(* The inductive invariant, in parts.                                      *)

(* An operation on a session has the queue from its lookup on, with no       *)
(* marker at first and then none but its own.                              *)
Allocated == {"commit", "buckets", "pointer", "publish"}
Own(c) == [conv |-> c, rev |-> op[c].rev]
OpInv(c) ==
  /\ op[c].rev # 0 <=> op[c].at \in Allocated
  /\ op[c].rev <= catalog.rev
  /\ ~At(c, "none") => mode = "running" /\ op[c].kind # "none"
  /\ op[c].kind = "claim" => op[c].session # NoSession
  /\ op[c].at \in {"lookup", "buckets", "pointer"} => OnSession(c)
  /\ OnSession(c) /\ op[c].at \in {"lookup", "allocate"} => queue = c /\ catalog.pending = {}
  /\ OnSession(c) /\ op[c].at \in Allocated =>
       queue = c /\ catalog.pending = {Own(c)} /\ catalog.rev = op[c].rev
  /\ c \in asks => At(c, "repair")

(* A session about to be claimed is nobody else's.                          *)
ClaimInv(c) ==
  OnSession(c) /\ op[c].at \in {"allocate", "commit"} /\ op[c].session # NoSession =>
    \A d \in Conversation \ {c} : body[d].session # op[c].session

(* A marker is of a revision handed out, and of the operation of its         *)
(* conversation when that has a revision.                                  *)
MarkerInv ==
  \A m \in catalog.pending :
    /\ m.rev # 0 /\ m.rev <= catalog.rev
    /\ op[m.conv].rev \in {0, m.rev}

(* No revision is ahead of the catalog, and an entry that differs from its   *)
(* conversation has a marker.                                              *)
Outside(c) == op[c].at \in {"buckets", "pointer"}
SameOwner(a, b) == a.session = b.session /\ a.claim = b.claim
BodyInv(c) ==
  /\ body[c].rev <= catalog.rev /\ catalog.entry[c].rev <= catalog.rev
  /\ Outside(c) => body[c].session = op[c].session
  /\ \/ SameOwner(catalog.entry[c], body[c])
     \/ /\ \E m \in catalog.pending : m.conv = c
        /\ op[c].rev = 0 \/ (OnSession(c) /\ op[c].at \in {"buckets", "pointer", "publish"})

(* Without a dead marker the index holds what the conversations hold, or      *)
(* held before the one claim that has not reached it.                      *)
Was(c) == IF Outside(c) THEN op[c].previous ELSE body[c].session
Agrees ==
  /\ \A o \in Indexed : /\ o.session = Was(o.conv)
                        /\ Outside(o.conv) \/ o.claim = body[o.conv].claim
  /\ \A c \in Conversation : Was(c) # NoSession => \E o \in Indexed : o.conv = c
IndexInv == HasIndex /\ Dead = {} => Agrees

(* The shards of the index are apart, and no session is in it twice.         *)
Timed(o) == o.claim # 0 => o.at = o.claim
ShardsInv ==
  HasIndex => /\ \A h \in Shard : \A o \in pointer.of[h].owners : ShardOf(o.session) = h
              /\ \A o, p \in Indexed : o.session = p.session => o = p
              /\ \A o \in Indexed : Timed(o)
              /\ IsFiniteSet(Indexed)
WrittenInv(c) == At(c, "pointer") =>
  /\ Replaceable(c)
  /\ \A h \in Touched(c) : Bucket(h, Replaced(c)) \in files

ModeInv ==
  /\ mode = "running" => HasIndex
  /\ mode = "starting" => queue \in {Nobody, Reader}

(* What a rebuild has read of the owners is still so: it has the queue.      *)
ScanInv ==
  /\ scan.at = "none" => scan = NoScan
  /\ queue = Reader => scan.at # "none"
  /\ scan.at # "none" =>
       /\ queue = Reader
       /\ DOMAIN scan.entry = Conversation \ scan.todo
       /\ \A c \in DOMAIN scan.entry : /\ SameOwner(scan.entry[c], body[c])
                                       /\ scan.entry[c].rev <= catalog.rev
       /\ scan.for = Nobody => catalog.pending = {} /\ mode = "starting"
       /\ scan.for \in Conversation =>
            At(scan.for, "repair") \/ (At(scan.for, "allocate") /\ ~OnSession(scan.for))
  /\ scan.at \in {"pointer", "catalog"} => scan.todo = {} /\ NoDuplicate
  /\ scan.at = "pointer" => \A h \in Shard : Bucket(h, Found) \in files
  /\ scan.at = "catalog" => HasIndex /\ Agrees

(* As long as no revision is handed out, what a lookup has read is so.       *)
Pairs(owners) == {<<o.conv, o.claim>> : o \in owners}
Of(owners, s) == {o \in owners : o.session = s}
ReaderInv ==
  /\ reader.at \notin {"idle", "answered"} => mode = "running" /\ reader.session \in Session
  /\ reader.at \in {"pointer", "bucket", "after"} =>
       /\ reader.catalog \in Catalog /\ reader.catalog.rev <= catalog.rev
       /\ reader.at = "bucket" => reader.bucket \in BucketFile
       /\ reader.catalog.rev = catalog.rev =>
            /\ catalog.pending = {}
            /\ reader.at = "bucket" =>
                 Pairs(Of(reader.bucket.owners, reader.session)) = Owning(reader.session)
            /\ reader.at = "after" => Pairs(reader.found) = Owning(reader.session)

IInv ==
  /\ TypeOK /\ MarkerInv /\ IndexInv /\ IndexIsWhole /\ ShardsInv /\ ModeInv /\ ScanInv /\ ReaderInv
  /\ OneOwner
  /\ \A c \in Conversation : OpInv(c) /\ ClaimInv(c) /\ BodyInv(c) /\ WrittenInv(c)

-----------------------------------------------------------------------------
(* Lemmas about the operators of the module.                                *)

LEMMA NoOpIs ==
  /\ NoOp \in Operation /\ NoOp.at = "none" /\ NoOp.kind = "none" /\ NoOp.rev = 0
  /\ NoOp.session = NoSession /\ NoOp.previous = NoSession
BY DEF NoOp, Operation, Step

(* No rebuild under way is a record of the rebuild, too.                    *)
LEMMA NoScanTyped == NoScan \in Scan
<1>1. <<>> \in [{} -> Body]
  OBVIOUS
<1>2. PICK e \in UNION {[D -> Body] : D \in SUBSET Conversation} : e = <<>>
  BY <1>1
<1>3. [for |-> Nobody, at |-> "none", todo |-> {}, entry |-> e] \in Scan
  BY DEF Scan
<1> QED
  BY <1>2, <1>3 DEF NoScan

(* An operation that goes on changes its place only.                        *)
LEMMA GotoGoes ==
  ASSUME TypeOK, NEW c \in Conversation, NEW step \in Step, Goto(c, step)
  PROVE  /\ op' \in [Conversation -> Operation]
         /\ op'[c].at = step /\ op'[c].kind = op[c].kind /\ op'[c].session = op[c].session
         /\ op'[c].previous = op[c].previous /\ op'[c].rev = op[c].rev
         /\ \A d \in Conversation \ {c} : op'[d] = op[d]
<1>1. PICK o \in Operation : o = op[c]
  BY DEF TypeOK
<1> DEFINE n == [o EXCEPT !.at = step]
<1>2. n \in Operation /\ n.at = step /\ n.kind = o.kind /\ n.session = o.session
      /\ n.previous = o.previous /\ n.rev = o.rev
  BY DEF Operation
<1>3. op' = [op EXCEPT ![c] = n]
  BY <1>1 DEF Goto
<1> HIDE DEF n
<1>4. op' \in [Conversation -> Operation] /\ op'[c] = n /\ \A d \in Conversation \ {c} : op'[d] = op[d]
  BY <1>2, <1>3 DEF TypeOK
<1> QED
  BY <1>1, <1>2, <1>4

LEMMA SettleEnds ==
  ASSUME TypeOK, NEW c \in Conversation, Settle(c)
  PROVE  /\ op' \in [Conversation -> Operation] /\ op'[c] = NoOp
         /\ \A d \in Conversation \ {c} : op'[d] = op[d]
BY NoOpIs DEF TypeOK, Settle

(* While a rebuild is at work, or nobody has the queue, no operation on a    *)
(* session is past its wait for it.                                        *)
Waiting(c) == OnSession(c) => op[c].at \in {"none", "check", "repair", "enter"}
LEMMA QueueIsExclusive ==
  ASSUME IInv
  PROVE  /\ \A c \in Conversation : queue # c => Waiting(c) /\ ~Outside(c)
         /\ scan.at # "none" => queue = Reader
         /\ queue \in {Nobody, Reader} => \A c \in Conversation : queue # c
<1>1. ASSUME NEW c \in Conversation, queue # c PROVE Waiting(c) /\ ~Outside(c)
  <2>1. OpInv(c) /\ op[c].at \in Step
    BY DEF IInv, TypeOK, Operation
  <2> QED
    BY <1>1, <2>1 DEF OpInv, Waiting, Outside, Allocated, Step
<1>2. scan.at # "none" => queue = Reader
  BY DEF IInv, ScanInv
<1> QED
  BY <1>1, <1>2, OwnersAssumption

(* An operation before its revision gives the markers nothing, and leaves    *)
(* the index as it finds it.                                               *)
LEMMA DiskStays ==
  ASSUME IInv, UNCHANGED <<body, catalog, pointer>>, files \subseteq files',
         op' \in [Conversation -> Operation],
         \A c \in Conversation : op'[c] = op[c] \/ (op'[c].rev = 0 /\ ~Outside(c)' /\ ClaimInv(c)')
  PROVE  /\ MarkerInv' /\ IndexInv' /\ IndexIsWhole' /\ ShardsInv' /\ OneOwner'
         /\ \A c \in Conversation : ClaimInv(c)' /\ BodyInv(c)' /\ WrittenInv(c)'
<1>1. MarkerInv'
  BY DEF IInv, TypeOK, Catalog, MarkerInv
<1>2. Dead \subseteq Dead'
  BY DEF IInv, TypeOK, Catalog, MarkerInv, Dead
<1>3. IndexInv'
  <2> SUFFICES ASSUME HasIndex, Dead' = {} PROVE Agrees'
    BY DEF IndexInv, HasIndex
  <2>1. Agrees
    BY <1>2 DEF IInv, IndexInv
  <2>2. ASSUME NEW c \in Conversation PROVE (Outside(c)' <=> Outside(c)) /\ Was(c)' = Was(c)
    <3>1. CASE op'[c] = op[c]
      BY <3>1 DEF Outside, Was
    <3>2. CASE op'[c].rev = 0 /\ ~Outside(c)'
      <4>1. ASSUME Outside(c) PROVE FALSE
        <5>1. Own(c) \in catalog.pending /\ op[c].rev # 0
          BY <4>1 DEF IInv, OpInv, Outside, Allocated
        <5>2. Own(c) \in Dead'
          BY <3>2, <5>1 DEF Dead, Own
        <5> QED
          BY <5>2
      <4> QED
        BY <3>2, <4>1 DEF Was
    <3> QED
      BY <3>1, <3>2
  <2>3. Indexed' = Indexed /\ \A o \in Indexed : o.conv \in Conversation
    BY DEF Indexed, IInv, TypeOK, BucketFile, Owner, HasIndex
  <2> QED
    BY <2>1, <2>2, <2>3 DEF Agrees
<1>4. IndexIsWhole' /\ ShardsInv' /\ OneOwner'
  <2>1. HasIndex' = HasIndex /\ Indexed' = Indexed
    BY DEF HasIndex, Indexed
  <2>2. IndexIsWhole'
    BY <2>1 DEF IInv, IndexIsWhole
  <2>3. ShardsInv'
    BY <2>1 DEF IInv, ShardsInv
  <2> QED
    BY <2>2, <2>3 DEF IInv, OneOwner
<1>5. ASSUME NEW c \in Conversation PROVE ClaimInv(c)' /\ BodyInv(c)' /\ WrittenInv(c)'
  <2>1. CASE op'[c] = op[c]
    <3>1. ClaimInv(c)' /\ BodyInv(c)'
      BY <2>1 DEF IInv, ClaimInv, BodyInv, OnSession, Outside
    <3>2. Replaced(c)' = Replaced(c) /\ Replaceable(c)' = Replaceable(c) /\ Touched(c)' = Touched(c)
      BY <2>1 DEF Replaced, Leaves, Stays, Enters, Replaceable, Touched, Indexed
    <3>3. WrittenInv(c)'
      BY <2>1, <3>2 DEF IInv, WrittenInv, At
    <3> QED
      BY <3>1, <3>3
  <2>2. CASE op'[c].rev = 0 /\ ~Outside(c)' /\ ClaimInv(c)'
    BY <2>2 DEF IInv, BodyInv, WrittenInv, Outside, At
  <2> QED
    BY <2>1, <2>2
<1> QED
  BY <1>1, <1>3, <1>4, <1>5

(* An operation is not disturbed by one that leaves it the queue.            *)
LEMMA OpStays ==
  ASSUME IInv, NEW c \in Conversation, op'[c] = op[c], UNCHANGED <<catalog, mode>>,
         queue = c => queue' = c, c \in asks' => c \in asks \/ At(c, "repair")
  PROVE  OpInv(c)'
BY DEF IInv, OpInv, At, OnSession, Own

LEMMA OpWaits ==
  ASSUME IInv, NEW c \in Conversation, op'[c] = op[c], mode' = mode, Waiting(c),
         op[c].rev <= catalog'.rev, c \in asks' => c \in asks
  PROVE  OpInv(c)'
BY DEF IInv, OpInv, At, OnSession, Allocated, Waiting

(* Nor is a rebuild, as long as it has the queue.                           *)
LEMMA ScanStays ==
  ASSUME IInv, UNCHANGED <<pointer, scan, mode>>, files \subseteq files',
         queue' = Reader <=> queue = Reader, catalog.rev <= catalog'.rev,
         catalog'.rev \in Nat, \A c \in Conversation : SameOwner(body'[c], body[c]),
         mode = "starting" => UNCHANGED catalog,
         scan.for \in Conversation => op'[scan.for] = op[scan.for],
         \A c \in Conversation : queue # c => (Outside(c)' <=> Outside(c))
  PROVE  ScanInv'
<1>1. CASE scan.at = "none"
  BY <1>1 DEF IInv, ScanInv
<1>2. CASE scan.at # "none"
  <2>1. queue = Reader /\ \A c \in Conversation : ~Outside(c) /\ ~Outside(c)'
    BY <1>2, QueueIsExclusive
  <2>2. Found' = Found /\ (NoDuplicate' <=> NoDuplicate)
    BY DEF Found, NoDuplicate, OwnersIn, OwnerOf
  <2>3. HasIndex' = HasIndex /\ Indexed' = Indexed
    BY DEF HasIndex, Indexed
  <2>4. HasIndex /\ Agrees => Agrees'
    <3>1. HasIndex => \A o \in Indexed : o.conv \in Conversation
      BY DEF Indexed, IInv, TypeOK, BucketFile, Owner, HasIndex
    <3> QED
      BY <2>1, <2>3, <3>1 DEF Agrees, Was, SameOwner
  <2>5. \A c \in DOMAIN scan.entry : scan.entry[c].rev <= catalog'.rev
    <3>1. \A c \in DOMAIN scan.entry : scan.entry[c].rev \in Nat /\ scan.entry[c].rev <= catalog.rev
      BY <1>2 DEF IInv, ScanInv, TypeOK, Scan, Body
    <3> QED
      BY <3>1 DEF IInv, TypeOK, Catalog
  <2>8. \A c \in DOMAIN scan.entry : SameOwner(scan.entry[c], body'[c])
    <3>1. DOMAIN scan.entry \subseteq Conversation
      BY <1>2 DEF IInv, ScanInv
    <3> QED
      BY <1>2, <3>1 DEF IInv, ScanInv, SameOwner
  <2>6. /\ scan.for = Nobody => catalog'.pending = {}
        /\ scan.for \in Conversation =>
             At(scan.for, "repair")' \/ (At(scan.for, "allocate")' /\ ~OnSession(scan.for)')
    BY <1>2 DEF IInv, ScanInv, At, OnSession
  <2>7. /\ scan.at \in {"pointer", "catalog"} => scan.todo = {} /\ NoDuplicate'
        /\ scan.at = "pointer" => \A h \in Shard : Bucket(h, Found)' \in files'
        /\ scan.at = "catalog" => HasIndex' /\ Agrees'
    BY <2>2, <2>3, <2>4 DEF IInv, ScanInv, Bucket
  <2> QED
    BY <1>2, <2>1, <2>5, <2>6, <2>7, <2>8 DEF IInv, ScanInv
<1> QED
  BY <1>1, <1>2

(* What a lookup has read stays right until a revision is handed out.        *)
LEMMA ReaderStays ==
  ASSUME IInv, UNCHANGED <<reader, mode>>, catalog'.rev \in Nat, catalog.rev <= catalog'.rev,
         catalog.pending = {} => \A c \in Conversation : SameOwner(body'[c], body[c]),
         catalog'.rev = catalog.rev => catalog'.pending \subseteq catalog.pending
  PROVE  ReaderInv'
<1> SUFFICES ASSUME reader.at \in {"pointer", "bucket", "after"} PROVE ReaderInv'
  BY DEF IInv, ReaderInv
<1>1. /\ reader.catalog \in Catalog /\ reader.catalog.rev <= catalog.rev /\ mode = "running"
      /\ reader.session \in Session /\ (reader.at = "bucket" => reader.bucket \in BucketFile)
      /\ reader.catalog.rev \in Nat /\ catalog.rev \in Nat
  BY DEF IInv, ReaderInv, Catalog, TypeOK
<1>2. CASE reader.catalog.rev # catalog'.rev
  BY <1>1, <1>2 DEF ReaderInv
<1>3. CASE reader.catalog.rev = catalog'.rev
  <2>1. catalog'.rev = catalog.rev /\ catalog.pending = {} /\ catalog'.pending = {}
    BY <1>1, <1>3 DEF IInv, ReaderInv
  <2>2. \A s : Owning(s)' = Owning(s)
    BY <2>1 DEF Owning, SameOwner
  <2>3. Pairs(Of(reader.bucket.owners, reader.session))' = Pairs(Of(reader.bucket.owners, reader.session))
        /\ Pairs(reader.found)' = Pairs(reader.found)
    BY DEF Pairs, Of
  <2> QED
    BY <1>1, <1>3, <2>1, <2>2, <2>3 DEF IInv, ReaderInv
<1> QED
  BY <1>2, <1>3

-----------------------------------------------------------------------------
(* An operation up to its revision.                                        *)

(* A step of one operation that has no revision after it and touches nothing *)
(* on disk.                                                                *)
LEMMA OpOnlyKeeps ==
  ASSUME IInv, NEW c \in Conversation, UNCHANGED <<disk, scan, reader, mode>>, mode = "running",
         op' \in [Conversation -> Operation], \A d \in Conversation \ {c} : op'[d] = op[d],
         op'[c].rev = 0, ~Outside(c)', ClaimInv(c)', OpInv(c)', scan.for # c,
         queue' = queue \/ (queue = Nobody /\ queue' = c) \/ (queue = c /\ queue' = Nobody),
         asks' \in {asks, asks \cup {c}}
  PROVE  IInv'
<1>1. UNCHANGED <<body, catalog, pointer, files, scan, reader, mode>>
  BY DEF disk, index
<1>2. c # Reader /\ c # Nobody /\ Reader # Nobody
  BY OwnersAssumption
<1>3. TypeOK'
  BY <1>1 DEF IInv, TypeOK
<1>4. /\ MarkerInv' /\ IndexInv' /\ IndexIsWhole' /\ ShardsInv' /\ OneOwner'
      /\ \A d \in Conversation : ClaimInv(d)' /\ BodyInv(d)' /\ WrittenInv(d)'
  BY <1>1, DiskStays
<1>5. ASSUME NEW d \in Conversation PROVE OpInv(d)'
  <2>1. CASE d # c
    <3>1. queue = d => queue' = d
      BY <2>1, OwnersAssumption
    <3>2. op'[d] = op[d] /\ (d \in asks' => d \in asks)
      BY <2>1
    <3> QED
      BY <1>1, <3>1, <3>2, OpStays
  <2> QED
    BY <2>1
<1>6. ModeInv'
  BY <1>1 DEF IInv, ModeInv, HasIndex
<1>7. ScanInv'
  <2>1. queue' = Reader <=> queue = Reader
    BY <1>2
  <2>2. catalog.rev \in Nat
    BY DEF IInv, TypeOK, Catalog
  <2>3. \A d \in Conversation : queue # d => (Outside(d)' <=> Outside(d))
    BY QueueIsExclusive DEF Outside
  <2> QED
    BY <1>1, <2>1, <2>2, <2>3, ScanStays DEF SameOwner
<1>8. ReaderInv'
  <2>1. catalog.rev \in Nat
    BY DEF IInv, TypeOK, Catalog
  <2> QED
    BY <1>1, <2>1, ReaderStays DEF SameOwner
<1> QED
  BY <1>3, <1>4, <1>5, <1>6, <1>7, <1>8 DEF IInv

(* An operation a rebuild is for waits for it.                              *)
LEMMA ScanIsFor ==
  ASSUME IInv, NEW c \in Conversation, op[c].at \notin {"repair", "allocate"}
  PROVE  scan.for # c
BY OwnersAssumption DEF IInv, ScanInv, At, NoScan

LEMMA EnqueueKeeps ==
  ASSUME IInv, NEW c \in Conversation, Enqueue(c)
  PROVE  IInv'
<1>1. PICK kind \in {"claim", "patch", "touch"}, s \in Session \cup {NoSession} :
        /\ kind = "claim" => s # NoSession
        /\ op' = [op EXCEPT ![c] = [NoOp EXCEPT !.at = "check", !.kind = kind, !.session = s]]
  BY DEF Enqueue
<1> DEFINE n == [NoOp EXCEPT !.at = "check", !.kind = kind, !.session = s]
<1>2. n \in Operation /\ n.at = "check" /\ n.kind = kind /\ n.session = s /\ n.rev = 0
  BY DEF NoOp, Operation, Step
<1> HIDE DEF n
<1>3. /\ op' \in [Conversation -> Operation] /\ op'[c] = n
      /\ \A d \in Conversation \ {c} : op'[d] = op[d]
  BY <1>1, <1>2 DEF n, IInv, TypeOK
<1>4. At(c, "none") /\ mode = "running" /\ UNCHANGED <<disk, queue, asks, scan, reader, mode>>
  BY DEF Enqueue
<1>5. ~Outside(c)' /\ ClaimInv(c)'
  BY <1>2, <1>3 DEF Outside, ClaimInv
<1>6. OpInv(c)'
  <2>1. c \notin asks
    BY <1>4 DEF IInv, OpInv, At
  <2>2. catalog'.rev \in Nat
    BY <1>4 DEF IInv, TypeOK, Catalog, disk
  <2>3. op'[c].at = "check" /\ op'[c].rev = 0 /\ op'[c].kind = kind /\ op'[c].session = s
    BY <1>2, <1>3
  <2> QED
    BY <1>1, <1>4, <2>1, <2>2, <2>3 DEF OpInv, At, OnSession, Allocated
<1>7. scan.for # c
  BY <1>4, ScanIsFor DEF At
<1> QED
  BY <1>2, <1>3, <1>4, <1>5, <1>6, <1>7, OpOnlyKeeps

LEMMA CheckKeeps ==
  ASSUME IInv, NEW c \in Conversation, Check(c)
  PROVE  IInv'
<1>1. PICK step \in {"enter", "repair"} :
        /\ At(c, "check") /\ Goto(c, step) /\ UNCHANGED <<disk, queue, scan, reader, mode>>
        /\ asks' = IF step = "repair" THEN asks \cup {c} ELSE asks
  BY DEF Check
<1>2. /\ op' \in [Conversation -> Operation]
      /\ op'[c].at = step /\ op'[c].kind = op[c].kind /\ op'[c].session = op[c].session
      /\ op'[c].rev = op[c].rev /\ \A d \in Conversation \ {c} : op'[d] = op[d]
  BY <1>1, GotoGoes DEF IInv, Step
<1>3. /\ op[c].rev = 0 /\ mode = "running" /\ c \notin asks /\ catalog.rev \in Nat
      /\ op[c].kind # "none" /\ (op[c].kind = "claim" => op[c].session # NoSession)
  BY <1>1 DEF IInv, OpInv, At, Allocated, TypeOK, Catalog
<1>4. ~Outside(c)' /\ ClaimInv(c)' /\ OpInv(c)'
  BY <1>1, <1>2, <1>3 DEF Outside, ClaimInv, OpInv, At, OnSession, Allocated, disk
<1>5. scan.for # c
  BY <1>1, ScanIsFor DEF At
<1> QED
  BY <1>1, <1>2, <1>3, <1>4, <1>5, OpOnlyKeeps

LEMMA EnterKeeps ==
  ASSUME IInv, NEW c \in Conversation, Enter(c)
  PROVE  IInv'
<1>1. PICK step \in {"allocate", "lookup", "check"} :
        /\ At(c, "enter") /\ Goto(c, step) /\ UNCHANGED <<disk, asks, scan, reader, mode>>
        /\ step = "allocate" => ~OnSession(c) /\ queue' = queue
        /\ step = "lookup" => OnSession(c) /\ queue = Nobody /\ queue' = c /\ catalog.pending = {}
        /\ step = "check" => queue' = queue
  BY DEF Enter
<1>2. /\ op' \in [Conversation -> Operation]
      /\ op'[c].at = step /\ op'[c].kind = op[c].kind /\ op'[c].session = op[c].session
      /\ op'[c].rev = op[c].rev /\ \A d \in Conversation \ {c} : op'[d] = op[d]
  BY <1>1, GotoGoes DEF IInv, Step
<1>3. /\ op[c].rev = 0 /\ mode = "running" /\ c \notin asks /\ catalog.rev \in Nat
      /\ op[c].kind # "none" /\ (op[c].kind = "claim" => op[c].session # NoSession)
  BY <1>1 DEF IInv, OpInv, At, Allocated, TypeOK, Catalog
<1>4. ~Outside(c)' /\ ClaimInv(c)' /\ OpInv(c)'
  BY <1>1, <1>2, <1>3 DEF Outside, ClaimInv, OpInv, At, OnSession, Allocated, disk
<1>5. scan.for # c
  BY <1>1, ScanIsFor DEF At
<1>6. queue' = queue \/ (queue = Nobody /\ queue' = c) \/ (queue = c /\ queue' = Nobody)
  BY <1>1
<1> QED
  BY <1>1, <1>2, <1>3, <1>4, <1>5, <1>6, OpOnlyKeeps

(* With no dead marker and nobody before the index, whoever holds a session  *)
(* is in the index under it.                                               *)
LEMMA HoldersAreListed ==
  ASSUME IInv, HasIndex, Dead = {}, NEW d \in Conversation, ~Outside(d), body[d].session # NoSession
  PROVE  \E o \in Lookup(body[d].session) : o.conv = d /\ o.claim = body[d].claim
<1>1. Agrees
  BY DEF IInv, IndexInv
<1>2. PICK o \in Indexed : o.conv = d
  BY <1>1 DEF Agrees, Was
<1>3. o.session = body[d].session /\ o.claim = body[d].claim
  BY <1>1, <1>2 DEF Agrees, Was
<1>4. PICK h \in Shard : o \in pointer.of[h].owners
  BY <1>2 DEF Indexed, IInv, TypeOK, HasIndex
<1>5. ShardOf(o.session) = h
  BY <1>4 DEF IInv, ShardsInv
<1> QED
  BY <1>2, <1>3, <1>4, <1>5 DEF Lookup

LEMMA LookUpKeeps ==
  ASSUME IInv, NEW c \in Conversation, LookUp(c)
  PROVE  IInv'
<1>1. /\ At(c, "lookup") /\ HasIndex /\ UNCHANGED <<disk, asks, scan, reader, mode>>
      /\ \/ ~Taken(c) /\ Goto(c, "allocate") /\ queue' = queue
         \/ Settle(c) /\ queue' = Nobody
  BY DEF LookUp
<1>2. /\ op[c].rev = 0 /\ mode = "running" /\ c \notin asks /\ catalog.rev \in Nat /\ OnSession(c)
      /\ op[c].kind # "none" /\ (op[c].kind = "claim" => op[c].session # NoSession)
      /\ queue = c /\ catalog.pending = {} /\ Dead = {}
  BY <1>1 DEF IInv, OpInv, At, Allocated, TypeOK, Catalog, Dead
<1>3. scan.for # c
  BY <1>1, ScanIsFor DEF At
<1>4. CASE ~Taken(c) /\ Goto(c, "allocate") /\ queue' = queue
  <2>1. /\ op' \in [Conversation -> Operation]
        /\ op'[c].at = "allocate" /\ op'[c].kind = op[c].kind /\ op'[c].session = op[c].session
        /\ op'[c].rev = op[c].rev /\ \A d \in Conversation \ {c} : op'[d] = op[d]
    BY <1>4, GotoGoes DEF IInv, Step
  <2>2. ClaimInv(c)'
    <3> SUFFICES ASSUME op[c].session # NoSession, NEW d \in Conversation \ {c},
                        body[d].session = op[c].session
                 PROVE  FALSE
      BY <1>1, <2>1 DEF ClaimInv, disk
    <3>1. ~Outside(d)
      BY <1>2, QueueIsExclusive
    <3>2. \E o \in Lookup(op[c].session) : o.conv = d
      BY <1>1, <1>2, <3>1, HoldersAreListed
    <3> QED
      BY <1>4, <3>2 DEF Taken
  <2>3. ~Outside(c)' /\ OpInv(c)'
    BY <1>1, <1>2, <1>4, <2>1 DEF Outside, OpInv, At, OnSession, Allocated, disk
  <2> QED
    BY <1>1, <1>2, <1>3, <1>4, <2>1, <2>2, <2>3, OpOnlyKeeps
<1>5. CASE Settle(c) /\ queue' = Nobody
  <2>1. /\ op' \in [Conversation -> Operation] /\ op'[c] = NoOp
        /\ \A d \in Conversation \ {c} : op'[d] = op[d]
    BY <1>5, SettleEnds DEF IInv
  <2>2. ~Outside(c)' /\ ClaimInv(c)' /\ OpInv(c)' /\ op'[c].rev = 0
    BY <1>1, <1>2, <2>1, NoOpIs DEF Outside, ClaimInv, OpInv, At, OnSession, Allocated, disk
  <2> QED
    BY <1>1, <1>2, <1>3, <1>5, <2>1, <2>2, OpOnlyKeeps
<1> QED
  BY <1>1, <1>4, <1>5

(* An operation that stops after its commit leaves its marker behind.        *)
LEMMA ThrowKeeps ==
  ASSUME IInv, NEW c \in Conversation, Throw(c)
  PROVE  IInv'
<1>1. /\ op[c].at \notin {"none", "repair"} /\ scan.for # c /\ Settle(c)
      /\ queue' = IF queue = c THEN Nobody ELSE queue
      /\ UNCHANGED <<disk, asks, scan, reader, mode>>
  BY DEF Throw
<1>2. mode = "running" /\ c \notin asks /\ catalog.rev \in Nat
  BY <1>1 DEF IInv, OpInv, At, TypeOK, Catalog
<1>3. /\ op' \in [Conversation -> Operation] /\ op'[c] = NoOp
      /\ \A d \in Conversation \ {c} : op'[d] = op[d]
  BY <1>1, SettleEnds DEF IInv
<1>4. ~Outside(c)' /\ ClaimInv(c)' /\ OpInv(c)' /\ op'[c].rev = 0
  BY <1>1, <1>2, <1>3, NoOpIs DEF Outside, ClaimInv, OpInv, At, OnSession, Allocated, disk
<1>5. queue' = queue \/ (queue = Nobody /\ queue' = c) \/ (queue = c /\ queue' = Nobody)
  BY <1>1
<1> QED
  BY <1>1, <1>2, <1>3, <1>4, <1>5, OpOnlyKeeps

-----------------------------------------------------------------------------
(* An operation with a revision.                                           *)

(* Whoever has the queue, or could take it, is alone past the wait for it.   *)
LEMMA CanUseIsAlone ==
  ASSUME IInv, NEW c \in Conversation, CanUseQueue(c)
  PROVE  /\ \A d \in Conversation \ {c} : Waiting(d) /\ ~Outside(d) /\ ~At(d, "pointer")
         /\ scan.at = "none" /\ scan = NoScan /\ queue # Reader
<1>1. queue # Reader /\ \A d \in Conversation \ {c} : queue # d
  BY OwnersAssumption DEF CanUseQueue
<1>2. \A d \in Conversation \ {c} : Waiting(d) /\ ~Outside(d)
  BY <1>1, QueueIsExclusive
<1>3. scan.at = "none" /\ scan = NoScan
  BY <1>1 DEF IInv, ScanInv
<1> QED
  BY <1>1, <1>2, <1>3 DEF Outside, At

LEMMA NoScanIs == NoScan.at = "none" /\ NoScan.for = Nobody
BY DEF NoScan

LEMMA AllocateKeeps ==
  ASSUME IInv, NEW c \in Conversation, Allocate(c)
  PROVE  IInv'
<1>1. /\ At(c, "allocate") /\ CanUseQueue(c) /\ Dead = {}
      /\ UNCHANGED <<body, pointer, files, queue, asks, scan, reader, mode>>
  BY DEF Allocate, index
<1>2. PICK r \in Nat : r = catalog.rev + 1 /\ catalog.rev \in Nat
  BY DEF IInv, TypeOK, Catalog
<1>3. /\ op' \in [Conversation -> Operation]
      /\ op'[c].at = "commit" /\ op'[c].rev = r /\ op'[c].kind = op[c].kind
      /\ op'[c].session = op[c].session
      /\ \A d \in Conversation \ {c} : op'[d] = op[d]
  <2>1. PICK o \in Operation : o = op[c]
    BY DEF IInv, TypeOK
  <2> DEFINE n == [o EXCEPT !.rev = r, !.at = "commit"]
  <2>2. n \in Operation /\ n.at = "commit" /\ n.rev = r /\ n.kind = o.kind /\ n.session = o.session
    BY DEF Operation, Step
  <2>3. op' = [op EXCEPT ![c] = n]
    BY <1>2, <2>1 DEF Allocate, IInv, TypeOK
  <2> HIDE DEF n
  <2>4. op'[c] = n /\ op' \in [Conversation -> Operation]
        /\ \A d \in Conversation \ {c} : op'[d] = op[d]
    BY <2>2, <2>3 DEF IInv, TypeOK
  <2> QED
    BY <2>1, <2>2, <2>4
<1>4. /\ catalog' \in Catalog /\ catalog'.rev = r /\ catalog'.entry = catalog.entry
      /\ catalog'.pending = catalog.pending \cup {[conv |-> c, rev |-> r]}
  <2>1. PICK k \in Catalog, markers \in SUBSET [conv : Conversation, rev : Nat] :
          k = catalog /\ markers = k.pending \cup {[conv |-> c, rev |-> r]}
    <3>1. catalog \in Catalog /\ catalog.pending \in SUBSET [conv : Conversation, rev : Nat]
      BY DEF IInv, TypeOK, Catalog
    <3>2. catalog.pending \cup {[conv |-> c, rev |-> r]} \in SUBSET [conv : Conversation, rev : Nat]
      BY <3>1
    <3> QED
      BY <3>1, <3>2
  <2> DEFINE n == [k EXCEPT !.rev = r, !.pending = markers]
  <2>2. n \in Catalog /\ n.rev = r /\ n.entry = k.entry /\ n.pending = markers
    BY DEF Catalog
  <2>3. catalog' = n
    BY <1>2, <2>1 DEF Allocate
  <2> QED
    BY <2>1, <2>2, <2>3
<1>5. /\ op[c].rev = 0 /\ mode = "running" /\ op[c].kind # "none" /\ c \notin asks
      /\ op[c].kind = "claim" => op[c].session # NoSession
      /\ OnSession(c) => queue = c /\ catalog.pending = {}
  BY <1>1 DEF IInv, OpInv, At, Allocated
<1>6. \A m \in catalog.pending : m.conv # c /\ m.rev <= catalog.rev /\ m.rev \in Nat
                                 /\ m.rev # 0 /\ m.conv \in Conversation
  BY <1>1, <1>5 DEF IInv, MarkerInv, Dead, TypeOK, Catalog
<1>7. TypeOK'
  BY <1>1, <1>3, <1>4 DEF IInv, TypeOK
<1>8. MarkerInv'
  <2> SUFFICES ASSUME NEW m \in catalog'.pending
               PROVE  m.rev # 0 /\ m.rev <= catalog'.rev /\ op'[m.conv].rev \in {0, m.rev}
    BY DEF MarkerInv
  <2>1. CASE m \in catalog.pending
    BY <1>2, <1>3, <1>4, <1>6, <2>1 DEF IInv, MarkerInv
  <2>2. CASE m = [conv |-> c, rev |-> r]
    BY <1>2, <1>3, <1>4, <2>2
  <2> QED
    BY <1>4, <2>1, <2>2
<1>9. HasIndex' = HasIndex /\ Indexed' = Indexed
  BY <1>1 DEF HasIndex, Indexed
<1>10. IndexInv'
  <2> SUFFICES ASSUME HasIndex PROVE Agrees'
    BY <1>9 DEF IndexInv
  <2>1. Agrees
    BY <1>1 DEF IInv, IndexInv
  <2>2. \A d \in Conversation : (Outside(d)' <=> Outside(d)) /\ Was(d)' = Was(d)
    BY <1>1, <1>3 DEF Outside, Was, At
  <2>3. \A o \in Indexed : o.conv \in Conversation
    BY DEF Indexed, IInv, TypeOK, BucketFile, Owner, HasIndex
  <2> QED
    BY <1>1, <1>9, <2>1, <2>2, <2>3 DEF Agrees
<1>11. IndexIsWhole' /\ ShardsInv'
  <2>1. IndexIsWhole'
    BY <1>1, <1>9 DEF IInv, IndexIsWhole
  <2> QED
    BY <1>1, <1>9, <2>1 DEF IInv, ShardsInv
<1>12. OneOwner'
  BY <1>1 DEF IInv, OneOwner
<1>13. ModeInv'
  BY <1>1, <1>9 DEF IInv, ModeInv
<1>14. ScanInv'
  BY <1>1, CanUseIsAlone, NoScanIs DEF ScanInv
<1>15. ReaderInv'
  BY <1>1, <1>2, <1>4, ReaderStays DEF SameOwner
<1>16. ASSUME NEW d \in Conversation PROVE OpInv(d)' /\ ClaimInv(d)' /\ BodyInv(d)' /\ WrittenInv(d)'
  <2>1. op[d].rev \in Nat /\ op[d].rev <= catalog.rev /\ body[d].rev \in Nat /\ body[d].rev <= catalog.rev
        /\ catalog.entry[d].rev \in Nat /\ catalog.entry[d].rev <= catalog.rev
    BY DEF IInv, OpInv, BodyInv, TypeOK, Body, Catalog, Operation
  <2>2. CASE d = c
    <3>1. OpInv(c)'
      BY <1>1, <1>2, <1>3, <1>4, <1>5 DEF OpInv, At, OnSession, Allocated, Own
    <3>2. ClaimInv(c)'
      BY <1>1, <1>3 DEF IInv, ClaimInv, OnSession, At
    <3>3. BodyInv(c)'
      <4>1. SameOwner(catalog.entry[c], body[c])
        BY <1>6 DEF IInv, BodyInv
      <4> QED
        BY <1>1, <1>2, <1>3, <1>4, <2>1, <2>2, <4>1 DEF BodyInv, Outside
    <3>4. WrittenInv(c)'
      BY <1>3 DEF WrittenInv, At
    <3> QED
      BY <2>2, <3>1, <3>2, <3>3, <3>4
  <2>3. CASE d # c
    <3>1. OpInv(d)'
      <4>1. Waiting(d) /\ op[d].rev <= catalog'.rev
        BY <1>1, <1>2, <1>4, <2>1, <2>3, CanUseIsAlone
      <4> QED
        BY <1>1, <1>3, <2>3, <4>1, OpWaits
    <3>2. ClaimInv(d)'
      BY <1>1, <1>3, <2>3 DEF IInv, ClaimInv, OnSession
    <3>3. BodyInv(d)'
      <4>1. body[d].rev <= r /\ catalog.entry[d].rev <= r
        BY <1>2, <2>1
      <4> QED
        BY <1>1, <1>3, <1>4, <2>3, <4>1 DEF IInv, BodyInv, Outside, OnSession
    <3>4. WrittenInv(d)'
      BY <1>1, <1>3, <2>3, CanUseIsAlone DEF WrittenInv, At
    <3> QED
      BY <3>1, <3>2, <3>3, <3>4
  <2> QED
    BY <2>2, <2>3
<1> QED
  BY <1>7, <1>8, <1>10, <1>11, <1>12, <1>13, <1>14, <1>15, <1>16 DEF IInv


LEMMA CommitKeeps ==
  ASSUME IInv, NEW c \in Conversation, Commit(c)
  PROVE  IInv'
<1>1. At(c, "commit") /\ UNCHANGED <<catalog, pointer, files, queue, asks, scan, reader, mode>>
  BY DEF Commit, index
<1>2. PICK o \in Operation, b \in Body : o = op[c] /\ b = body[c]
  BY DEF IInv, TypeOK
<1>3. /\ o.at = "commit" /\ o.rev \in Nat /\ o.rev # 0 /\ o.rev <= catalog.rev /\ catalog.rev \in Nat
      /\ mode = "running" /\ o.kind # "none" /\ c \notin asks
      /\ o.kind = "claim" => o.session # NoSession
      /\ OnSession(c) => queue = c /\ catalog.pending = {Own(c)} /\ catalog.rev = o.rev
  BY <1>1, <1>2 DEF IInv, OpInv, At, Allocated, TypeOK, Catalog, Operation
<1>4. HasIndex' = HasIndex /\ Indexed' = Indexed
  BY <1>1 DEF HasIndex, Indexed
<1>5. IndexIsWhole' /\ ShardsInv' /\ ModeInv'
  <2>1. IndexIsWhole'
    BY <1>1, <1>4 DEF IInv, IndexIsWhole
  <2>2. ShardsInv'
    BY <1>1, <1>4 DEF IInv, ShardsInv
  <2> QED
    BY <1>1, <1>4, <2>1, <2>2 DEF IInv, ModeInv
<1>6. \A x \in Indexed : HasIndex => x.conv \in Conversation
  BY DEF Indexed, IInv, TypeOK, BucketFile, Owner, HasIndex
<1>7. CASE OnSession(c)
  <2>1. CanUseQueue(c)
    BY <1>3, <1>7 DEF CanUseQueue
  <2>2. PICK n \in Operation, claim \in Nat :
          /\ n.at = "buckets" /\ n.previous = b.session /\ n.kind = o.kind /\ n.session = o.session
          /\ n.rev = o.rev /\ claim = ClaimOf(c)
          /\ op' = [op EXCEPT ![c] = n]
    <3> DEFINE n == [o EXCEPT !.at = "buckets", !.previous = b.session]
    <3>1. /\ n \in Operation /\ n.at = "buckets" /\ n.previous = b.session /\ n.kind = o.kind
          /\ n.session = o.session /\ n.rev = o.rev
      BY DEF Operation, Step, Body
    <3>2. op' = [op EXCEPT ![c] = n]
      BY <1>2, <1>7 DEF Commit, IInv, TypeOK
    <3>3. ClaimOf(c) \in Nat
      BY <1>2, <1>3 DEF ClaimOf, Body
    <3> HIDE DEF n
    <3> QED
      BY <3>1, <3>2, <3>3
  <2>3. PICK new \in Body :
          /\ new.rev = o.rev /\ new.session = o.session /\ new.claim = claim
          /\ body' = [body EXCEPT ![c] = new]
    <3> DEFINE m == [rev |-> o.rev, session |-> o.session, claim |-> claim]
    <3>1. m \in Body /\ m.rev = o.rev /\ m.session = o.session /\ m.claim = claim
      BY <1>3 DEF Body, Operation
    <3>2. body' = [body EXCEPT ![c] = m]
      BY <1>2, <1>7, <2>2 DEF Commit
    <3> HIDE DEF m
    <3> QED
      BY <3>1, <3>2
  <2>4. /\ op' \in [Conversation -> Operation] /\ op'[c] = n
        /\ body' \in [Conversation -> Body] /\ body'[c] = new
        /\ \A d \in Conversation \ {c} : op'[d] = op[d] /\ body'[d] = body[d]
    BY <2>2, <2>3 DEF IInv, TypeOK
  <2>5. TypeOK'
    BY <1>1, <2>4 DEF IInv, TypeOK
  <2>6. MarkerInv'
    <3>1. \A d \in Conversation : op'[d].rev = op[d].rev
      BY <1>2, <2>2, <2>4
    <3> QED
      BY <1>1, <3>1 DEF IInv, MarkerInv, TypeOK, Catalog
  <2>7. IndexInv'
    <3> SUFFICES ASSUME HasIndex PROVE Agrees'
      BY <1>4 DEF IndexInv
    <3>1. Dead = {}
      BY <1>2, <1>3, <1>7 DEF Dead, Own
    <3>2. Agrees
      BY <3>1 DEF IInv, IndexInv
    <3>3. \A d \in Conversation : Was(d)' = Was(d)
      BY <1>1, <1>2, <2>2, <2>4 DEF Was, Outside, At
    <3>4. \A d \in Conversation \ {c} : Outside(d)' = Outside(d)
      BY <2>4 DEF Outside
    <3>5. Outside(c)'
      BY <2>2, <2>4 DEF Outside
    <3>6. ASSUME NEW x \in Indexed
          PROVE  x.session = Was(x.conv)' /\ (Outside(x.conv)' \/ x.claim = body'[x.conv].claim)
      BY <1>6, <2>4, <3>2, <3>3, <3>4, <3>5 DEF Agrees
    <3> QED
      BY <1>4, <3>2, <3>3, <3>6 DEF Agrees
  <2>8. OneOwner'
    <3>1. \A d \in Conversation \ {c} : o.session # NoSession => body[d].session # o.session
      BY <1>1, <1>2, <1>7 DEF IInv, ClaimInv, At
    <3> QED
      BY <2>3, <2>4, <3>1 DEF IInv, OneOwner
  <2>9. ScanInv'
    BY <1>1, <2>1, CanUseIsAlone, NoScanIs DEF ScanInv
  <2>10. ReaderInv'
    BY <1>1, <1>3, <1>7, ReaderStays
  <2>11. ASSUME NEW d \in Conversation PROVE OpInv(d)' /\ ClaimInv(d)' /\ BodyInv(d)' /\ WrittenInv(d)'
    <3>1. CASE d = c
      <4>1. OpInv(c)'
        BY <1>1, <1>2, <1>3, <1>7, <2>2, <2>4 DEF OpInv, At, OnSession, Allocated, Own
      <4>2. ClaimInv(c)' /\ WrittenInv(c)'
        BY <2>2, <2>4 DEF ClaimInv, WrittenInv, At
      <4>3. BodyInv(c)'
        <5>1. Own(c) \in catalog.pending /\ Own(c).conv = c
          BY <1>3, <1>7 DEF Own
        <5>2. catalog.entry[c].rev <= catalog.rev
          BY DEF IInv, BodyInv
        <5> QED
          BY <1>1, <1>2, <1>3, <1>7, <2>2, <2>3, <2>4, <5>1, <5>2 DEF BodyInv, Outside, OnSession
      <4> QED
        BY <3>1, <4>1, <4>2, <4>3
    <3>2. CASE d # c
      <4>1. Waiting(d) /\ ~Outside(d) /\ ~At(d, "pointer")
        BY <2>1, <3>2, CanUseIsAlone
      <4>2. OpInv(d)'
        <5>1. op[d].rev <= catalog'.rev
          BY <1>1 DEF IInv, OpInv
        <5> QED
          BY <1>1, <2>4, <3>2, <4>1, <5>1, OpWaits
      <4>3. ClaimInv(d)' /\ WrittenInv(d)'
        BY <2>4, <3>2, <4>1 DEF ClaimInv, WrittenInv, At, Waiting, OnSession
      <4>4. BodyInv(d)'
        BY <1>1, <2>4, <3>2 DEF IInv, BodyInv, Outside, OnSession
      <4> QED
        BY <4>2, <4>3, <4>4
    <3> QED
      BY <3>1, <3>2
  <2> QED
    BY <1>5, <2>5, <2>6, <2>7, <2>8, <2>9, <2>10, <2>11 DEF IInv
<1>8. CASE ~OnSession(c)
  <2>1. Goto(c, "publish") /\ body' = [body EXCEPT ![c].rev = o.rev]
    BY <1>2, <1>8 DEF Commit
  <2>2. /\ op' \in [Conversation -> Operation]
        /\ op'[c].at = "publish" /\ op'[c].kind = o.kind /\ op'[c].rev = o.rev
        /\ op'[c].session = o.session /\ \A d \in Conversation \ {c} : op'[d] = op[d]
    BY <1>2, <2>1, GotoGoes DEF IInv, Step
  <2>3. /\ body' \in [Conversation -> Body] /\ body'[c].rev = o.rev
        /\ \A d \in Conversation : SameOwner(body'[d], body[d])
        /\ \A d \in Conversation \ {c} : body'[d] = body[d]
    <3> DEFINE m == [b EXCEPT !.rev = o.rev]
    <3>1. m \in Body /\ m.rev = o.rev /\ m.session = b.session /\ m.claim = b.claim
      BY <1>3 DEF Body
    <3>2. body' = [body EXCEPT ![c] = m]
      BY <1>2, <2>1
    <3> HIDE DEF m
    <3> QED
      BY <1>2, <3>1, <3>2 DEF IInv, TypeOK, SameOwner
  <2>4. \A d \in Conversation : /\ Outside(d)' <=> Outside(d)
                                /\ Was(d)' = Was(d) /\ body'[d].claim = body[d].claim
    BY <1>1, <2>2, <2>3 DEF Outside, Was, At, SameOwner
  <2>5. TypeOK'
    BY <1>1, <2>2, <2>3 DEF IInv, TypeOK
  <2>6. \A d \in Conversation : op'[d].rev = op[d].rev
    BY <1>2, <2>2
  <2>7. MarkerInv' /\ Dead' = Dead
    BY <1>1, <2>6 DEF IInv, MarkerInv, TypeOK, Catalog, Dead
  <2>8. IndexInv'
    BY <1>4, <1>6, <2>4, <2>7 DEF IInv, IndexInv, Agrees
  <2>9. OneOwner'
    BY <2>3 DEF IInv, OneOwner, SameOwner
  <2>10. ScanInv'
    <3>1. scan.for \in Conversation => op'[scan.for] = op[scan.for]
      BY <1>2, <1>3, <2>2, ScanIsFor
    <3>2. mode = "starting" => UNCHANGED catalog
      BY <1>1
    <3> QED
      BY <1>1, <1>3, <2>3, <2>4, <3>1, <3>2, ScanStays
  <2>11. ReaderInv'
    BY <1>1, <1>3, <2>3, ReaderStays
  <2>12. ASSUME NEW d \in Conversation PROVE OpInv(d)' /\ ClaimInv(d)' /\ BodyInv(d)' /\ WrittenInv(d)'
    <3>1. ClaimInv(d)'
      BY <1>1, <1>8, <2>2, <2>3 DEF IInv, ClaimInv, OnSession, SameOwner
    <3>2. CASE d = c
      <4>1. OpInv(c)'
        BY <1>1, <1>2, <1>3, <1>8, <2>2 DEF OpInv, At, OnSession, Allocated
      <4>2. BodyInv(c)'
        <5>1. SameOwner(catalog.entry[c], body[c]) /\ catalog.entry[c].rev <= catalog.rev
          BY <1>2, <1>3, <1>8 DEF IInv, BodyInv
        <5> QED
          BY <1>1, <1>3, <2>2, <2>3, <5>1 DEF BodyInv, Outside, SameOwner
      <4>3. WrittenInv(c)'
        BY <2>2 DEF WrittenInv, At
      <4> QED
        BY <3>1, <3>2, <4>1, <4>2, <4>3
    <3>3. CASE d # c
      <4>1. OpInv(d)'
        BY <1>1, <2>2, <3>3, OpStays
      <4>2. BodyInv(d)'
        BY <1>1, <2>2, <2>3, <3>3 DEF IInv, BodyInv, Outside, OnSession
      <4>3. WrittenInv(d)'
        <5>1. Replaced(d)' = Replaced(d) /\ Replaceable(d)' = Replaceable(d) /\ Touched(d)' = Touched(d)
          BY <1>4, <2>2, <2>3, <3>3 DEF Replaced, Leaves, Stays, Enters, Replaceable, Touched
        <5> QED
          BY <1>1, <2>2, <3>3, <5>1 DEF IInv, WrittenInv, At, Bucket
      <4> QED
        BY <3>1, <4>1, <4>2, <4>3
    <3> QED
      BY <3>2, <3>3
  <2> QED
    BY <1>5, <2>5, <2>7, <2>8, <2>9, <2>10, <2>11, <2>12 DEF IInv
<1> QED
  BY <1>7, <1>8


(* What the index will hold is owners, and finitely many of them.            *)
LEMMA ReplacedIs ==
  ASSUME IInv, NEW c \in Conversation, Outside(c)
  PROVE  /\ HasIndex /\ queue = c /\ Dead = {} /\ Agrees
         /\ pointer \in [of : [Shard -> BucketFile], count : Nat]
         /\ Indexed \subseteq Owner /\ Replaced(c) \subseteq Owner
         /\ \A h \in Shard : \A X \in SUBSET Owner : Bucket(h, X) \in BucketFile
         /\ body[c].session = op[c].session
         /\ op[c].session # NoSession => Enters(c) = {OwnerOf(c, body[c])}
         /\ op[c].session = NoSession => Enters(c) = {}
<1>1. /\ queue = c /\ mode = "running" /\ catalog.pending = {Own(c)}
      /\ body[c].session = op[c].session
  BY DEF IInv, OpInv, BodyInv, Outside, At, Allocated
<1>2. HasIndex /\ Dead = {}
  BY <1>1 DEF IInv, ModeInv, Dead, Own
<1>3. Agrees
  BY <1>2 DEF IInv, IndexInv
<1>4. pointer \in [of : [Shard -> BucketFile], count : Nat]
  BY <1>2 DEF IInv, TypeOK, HasIndex
<1>5. Indexed \subseteq Owner
  BY <1>4 DEF Indexed, BucketFile
<1>6. op[c].session # NoSession => OwnerOf(c, body[c]) \in Owner
  <2>1. body[c] \in Body
    BY DEF IInv, TypeOK
  <2> QED
    BY <1>1, <2>1 DEF OwnerOf, Owner, Body
<1>7. Replaced(c) \subseteq Owner
  BY <1>5, <1>6 DEF Replaced, Enters
<1>8. \A h \in Shard : \A X \in SUBSET Owner : Bucket(h, X) \in BucketFile
  BY DEF Bucket, BucketFile
<1> QED
  BY <1>1, <1>2, <1>3, <1>4, <1>5, <1>7, <1>8 DEF Enters

LEMMA WriteBucketsKeeps ==
  ASSUME IInv, NEW c \in Conversation, WriteBuckets(c)
  PROVE  IInv'
<1>1. /\ At(c, "buckets") /\ Replaceable(c) /\ Goto(c, "pointer")
      /\ files' = files \cup {Bucket(h, Replaced(c)) : h \in Touched(c)}
      /\ UNCHANGED <<body, catalog, pointer, queue, asks, scan, reader, mode>>
  BY DEF WriteBuckets
<1>2. /\ op' \in [Conversation -> Operation]
      /\ op'[c].at = "pointer" /\ op'[c].kind = op[c].kind /\ op'[c].session = op[c].session
      /\ op'[c].previous = op[c].previous
      /\ op'[c].rev = op[c].rev /\ \A d \in Conversation \ {c} : op'[d] = op[d]
  BY <1>1, GotoGoes DEF IInv, Step
<1>3. /\ Outside(c) /\ Outside(c)' /\ op[c].rev # 0 /\ OnSession(c) /\ mode = "running" /\ c \notin asks
      /\ op[c].kind # "none" /\ op[c].rev <= catalog.rev /\ catalog.rev \in Nat
      /\ op[c].kind = "claim" => op[c].session # NoSession
      /\ queue = c /\ catalog.pending = {Own(c)} /\ catalog.rev = op[c].rev
  BY <1>1, <1>2 DEF IInv, OpInv, At, Allocated, Outside, TypeOK, Catalog
<1>4. CanUseQueue(c)
  BY <1>3 DEF CanUseQueue
<1>5. HasIndex' = HasIndex /\ Indexed' = Indexed /\ HasIndex
  BY <1>1, <1>3, ReplacedIs DEF HasIndex, Indexed
<1>6. TypeOK'
  <2>1. Touched(c) \subseteq Shard
    BY DEF Touched, ShardOf, Shard
  <2>2. files' \subseteq BucketFile
    BY <1>1, <1>3, <2>1, ReplacedIs DEF IInv, TypeOK
  <2> QED
    BY <1>1, <1>2, <2>2 DEF IInv, TypeOK
<1>7. \A d \in Conversation : /\ Outside(d)' <=> Outside(d)
                              /\ Was(d)' = Was(d) /\ op'[d].rev = op[d].rev
  BY <1>1, <1>2, <1>3 DEF Outside, Was
<1>8. MarkerInv' /\ Dead' = Dead
  BY <1>1, <1>7 DEF IInv, MarkerInv, TypeOK, Catalog, Dead
<1>9. IndexInv'
  <2>1. \A x \in Indexed : x.conv \in Conversation
    BY <1>3, ReplacedIs DEF Owner
  <2> QED
    BY <1>1, <1>5, <1>7, <1>8, <2>1 DEF IInv, IndexInv, Agrees
<1>10. IndexIsWhole' /\ ShardsInv' /\ ModeInv' /\ OneOwner'
  <2>1. IndexIsWhole'
    BY <1>1, <1>5 DEF IInv, IndexIsWhole
  <2>2. ShardsInv'
    BY <1>1, <1>5 DEF IInv, ShardsInv
  <2> QED
    BY <1>1, <1>5, <2>1, <2>2 DEF IInv, ModeInv, OneOwner
<1>11. ScanInv'
  BY <1>1, <1>4, CanUseIsAlone, NoScanIs DEF ScanInv
<1>12. ReaderInv'
  BY <1>1, <1>3, ReaderStays DEF SameOwner
<1>13. ASSUME NEW d \in Conversation PROVE OpInv(d)' /\ ClaimInv(d)' /\ BodyInv(d)' /\ WrittenInv(d)'
  <2>1. CASE d = c
    <3>1. OpInv(c)' /\ ClaimInv(c)'
      BY <1>1, <1>2, <1>3 DEF OpInv, ClaimInv, At, OnSession, Allocated, Own
    <3>2. BodyInv(c)'
      <4>1. Own(c) \in catalog.pending /\ Own(c).conv = c
        BY <1>3 DEF Own
      <4>2. body[c].session = op[c].session /\ body[c].rev <= catalog.rev
            /\ catalog.entry[c].rev <= catalog.rev
        BY <1>3 DEF IInv, BodyInv
      <4> QED
        BY <1>1, <1>2, <1>3, <4>1, <4>2 DEF BodyInv, OnSession
    <3>3. WrittenInv(c)'
      <4>1. Replaced(c)' = Replaced(c) /\ Replaceable(c)' = Replaceable(c) /\ Touched(c)' = Touched(c)
        BY <1>1, <1>2, <1>5 DEF Replaced, Leaves, Stays, Enters, Replaceable, Touched
      <4> QED
        BY <1>1, <4>1 DEF WrittenInv, Bucket
    <3> QED
      BY <2>1, <3>1, <3>2, <3>3
  <2>2. CASE d # c
    <3>1. Waiting(d) /\ ~Outside(d) /\ ~At(d, "pointer")
      BY <1>4, <2>2, CanUseIsAlone
    <3>2. OpInv(d)'
      <4>1. op[d].rev <= catalog'.rev
        BY <1>1 DEF IInv, OpInv
      <4> QED
        BY <1>1, <1>2, <2>2, <3>1, <4>1, OpWaits
    <3>3. ClaimInv(d)' /\ WrittenInv(d)'
      BY <1>2, <2>2, <3>1 DEF ClaimInv, WrittenInv, At, Waiting, OnSession
    <3>4. BodyInv(d)'
      BY <1>1, <1>2, <2>2 DEF IInv, BodyInv, Outside, OnSession
    <3> QED
      BY <3>2, <3>3, <3>4
  <2> QED
    BY <2>1, <2>2
<1> QED
  BY <1>6, <1>8, <1>9, <1>10, <1>11, <1>12, <1>13 DEF IInv

(* The owners before the pointer is swapped: of the conversation itself, just *)
(* the session it had; of its new session, nobody.                          *)
LEMMA OnlyOwnLeaves ==
  ASSUME IInv, NEW c \in Conversation, At(c, "pointer")
  PROVE  /\ Stays(c) = {}
         /\ \A o \in Indexed : o \in Leaves(c) <=> o.conv = c
         /\ op[c].previous = NoSession => Leaves(c) = {}
         /\ op[c].previous # NoSession => \E o \in Indexed : Leaves(c) = {o}
         /\ Indexed \cap Enters(c) \subseteq Leaves(c)
<1>1. Outside(c)
  BY DEF At, Outside
<1>2. Agrees /\ HasIndex /\ Replaceable(c) /\ Indexed \subseteq Owner
  BY <1>1, ReplacedIs DEF IInv, WrittenInv
<1>3. \A o \in Indexed : o.conv = c => o.session = op[c].previous
  BY <1>1, <1>2 DEF Agrees, Was
<1>4. Stays(c) = {}
  BY <1>2, <1>3 DEF Replaceable, Stays, Leaves
<1>5. \A o, p \in Indexed : o.session = p.session => o = p
  BY <1>2 DEF IInv, ShardsInv
<1>6. op[c].previous = NoSession => Leaves(c) = {}
  BY <1>2, OwnersAssumption DEF Leaves, Owner
<1>7. ASSUME op[c].previous # NoSession PROVE \E o \in Indexed : o.conv = c /\ Leaves(c) = {o}
  <2>1. PICK o \in Leaves(c) : o.conv = c
    BY <1>2, <1>7 DEF Replaceable
  <2>2. Leaves(c) = {o}
    BY <1>5, <2>1 DEF Leaves
  <2> QED
    BY <2>1, <2>2 DEF Leaves
<1>8. \A o \in Indexed : o \in Leaves(c) <=> o.conv = c
  BY <1>3, <1>6, <1>7 DEF Leaves
<1>9. \A o \in Enters(c) : o.conv = c
  BY DEF Enters, OwnerOf
<1> QED
  BY <1>4, <1>6, <1>7, <1>8, <1>9

LEMMA PointersAreSome ==
  ASSUME NEW f \in [Shard -> BucketFile], NEW n \in Nat
  PROVE  [of |-> f, count |-> n] # NoPointer
<1>1. "low" \in DOMAIN f
  BY DEF Shard
<1>2. DOMAIN <<>> = {}
  OBVIOUS
<1> QED
  BY <1>1, <1>2 DEF NoPointer

(* The swapped pointer is of what the index should hold, and counts it.      *)
LEMMA SwappedIs ==
  ASSUME IInv, NEW c \in Conversation, SwapPointer(c)
  PROVE  /\ HasIndex' /\ Indexed' = Replaced(c) /\ IndexIsWhole' /\ ShardsInv'
         /\ pointer' \in [of : [Shard -> BucketFile], count : Nat]
<1>1. /\ At(c, "pointer") /\ Outside(c)
      /\ files' = files
  BY DEF SwapPointer, At, Outside
<1>2. /\ HasIndex /\ Indexed \subseteq Owner /\ Replaced(c) \subseteq Owner
      /\ pointer \in [of : [Shard -> BucketFile], count : Nat]
      /\ \A h \in Shard : \A X \in SUBSET Owner : Bucket(h, X) \in BucketFile
      /\ body[c].session = op[c].session
      /\ op[c].session # NoSession => Enters(c) = {OwnerOf(c, body[c])}
      /\ op[c].session = NoSession => Enters(c) = {}
  BY <1>1, ReplacedIs
<1>3. /\ Stays(c) = {} /\ \A o \in Indexed : o \in Leaves(c) <=> o.conv = c
      /\ op[c].previous = NoSession => Leaves(c) = {}
      /\ op[c].previous # NoSession => \E o \in Indexed : Leaves(c) = {o}
      /\ Indexed \cap Enters(c) \subseteq Leaves(c)
  BY <1>1, OnlyOwnLeaves
<1>4. Replaced(c) = (Indexed \ Leaves(c)) \cup Enters(c)
  BY <1>3 DEF Replaced
<1>5. /\ IsFiniteSet(Indexed) /\ pointer.count = Cardinality(Indexed)
      /\ \A h \in Shard : \A o \in pointer.of[h].owners : ShardOf(o.session) = h
      /\ \A o, p \in Indexed : o.session = p.session => o = p
      /\ \A o \in Indexed : Timed(o)
      /\ \A h \in Shard : pointer.of[h] \in files /\ pointer.of[h].shard = h
  BY <1>2 DEF IInv, ShardsInv, IndexIsWhole
<1>6. /\ IsFiniteSet(Replaced(c)) /\ Cardinality(Replaced(c)) \in Nat
      /\ Cardinality(Replaced(c)) = (pointer.count - Cardinality(Leaves(c))) + Cardinality(Enters(c))
  <2> DEFINE Rest == Indexed \ Leaves(c)
  <2>1. IsFiniteSet(Rest) /\ Cardinality(Rest) = pointer.count - Cardinality(Leaves(c))
        /\ Cardinality(Rest) \in Nat
    <3>1. CASE op[c].previous = NoSession
      <4>1. Leaves(c) = {} /\ Rest = Indexed
        BY <1>3, <3>1
      <4> QED
        BY <1>5, <4>1, FS_EmptySet, FS_CardinalityType
    <3>2. CASE op[c].previous # NoSession
      <4>1. PICK o \in Indexed : Leaves(c) = {o}
        BY <1>3, <3>2
      <4>2. IsFiniteSet(Rest) /\ Cardinality(Rest) = Cardinality(Indexed) - 1
        BY <1>5, <4>1, FS_RemoveElement
      <4>3. Cardinality(Leaves(c)) = 1
        BY <4>1, FS_Singleton
      <4> QED
        BY <1>5, <4>2, <4>3, FS_CardinalityType
    <3> QED
      BY <3>1, <3>2
  <2> HIDE DEF Rest
  <2>2. CASE op[c].session = NoSession
    <3>1. Enters(c) = {} /\ Replaced(c) = Rest
      BY <1>2, <1>4, <2>2 DEF Rest
    <3> QED
      BY <2>1, <3>1, FS_EmptySet
  <2>3. CASE op[c].session # NoSession
    <3> DEFINE e == OwnerOf(c, body[c])
    <3>1. Enters(c) = {e} /\ e \notin Rest /\ Replaced(c) = Rest \cup {e}
      BY <1>2, <1>3, <1>4, <2>3 DEF Rest
    <3>2. IsFiniteSet(Rest \cup {e}) /\ Cardinality(Rest \cup {e}) = Cardinality(Rest) + 1
      BY <2>1, <3>1, FS_AddElement
    <3>3. Cardinality(Enters(c)) = 1
      BY <3>1, FS_Singleton
    <3> QED
      BY <2>1, <3>1, <3>2, <3>3
  <2> QED
    BY <2>2, <2>3
<1>7. PICK f \in [Shard -> BucketFile], n \in Nat :
        /\ pointer' = [of |-> f, count |-> n] /\ n = Cardinality(Replaced(c))
        /\ \A h \in Shard : f[h] = IF h \in Touched(c) THEN Bucket(h, Replaced(c)) ELSE pointer.of[h]
  <2> DEFINE f == [h \in Shard |-> IF h \in Touched(c) THEN Bucket(h, Replaced(c)) ELSE pointer.of[h]]
  <2>1. f \in [Shard -> BucketFile]
    BY <1>2
  <2>2. Cardinality(IF Stays(c) = {} THEN Enters(c) ELSE {}) = Cardinality(Enters(c))
    BY <1>3
  <2>3. pointer' = [of |-> f, count |-> Cardinality(Replaced(c))]
    BY <1>6, <2>2 DEF SwapPointer
  <2> QED
    BY <1>6, <2>1, <2>3
<1>8. ASSUME NEW h \in Shard
      PROVE  f[h] \in files /\ f[h].shard = h /\ f[h].owners = {o \in Replaced(c) : ShardOf(o.session) = h}
  <2>1. CASE h \in Touched(c)
    BY <1>1, <1>7, <2>1 DEF Bucket, IInv, WrittenInv
  <2>2. CASE h \notin Touched(c)
    <3>1. f[h] = pointer.of[h] /\ f[h] \in files /\ f[h].shard = h
      BY <1>5, <1>7, <2>2
    <3>2. f[h].owners = {o \in Indexed : ShardOf(o.session) = h}
      BY <1>2, <1>5, <3>1 DEF Indexed
    <3>3. \A o \in Leaves(c) : ShardOf(o.session) # h
      BY <1>3, <2>2 DEF Leaves, Touched
    <3>4. \A o \in Enters(c) : ShardOf(o.session) # h
      BY <1>2, <2>2 DEF OwnerOf, Touched
    <3> QED
      BY <1>4, <3>1, <3>2, <3>3, <3>4
  <2> QED
    BY <2>1, <2>2
<1>9. HasIndex' /\ pointer'.of = f /\ pointer'.count = n
  BY <1>7, PointersAreSome DEF HasIndex
<1>10. Indexed' = Replaced(c)
  <2>1. Indexed' = UNION {f[h].owners : h \in Shard}
    BY <1>9 DEF Indexed
  <2>2. \A o : ShardOf(o.session) \in Shard
    BY DEF ShardOf, Shard
  <2> QED
    BY <1>8, <2>1, <2>2
<1>11. IndexIsWhole'
  BY <1>1, <1>7, <1>8, <1>9, <1>10 DEF IndexIsWhole
<1>12. ShardsInv'
  <2>1. \A h \in Shard : \A o \in f[h].owners : ShardOf(o.session) = h
    BY <1>8
  <2>2. ASSUME NEW o \in Replaced(c), NEW p \in Replaced(c), o.session = p.session PROVE o = p
    <3>1. \A x \in Indexed \ Leaves(c), y \in Enters(c) : x.session # y.session
      BY <1>2, <1>3 DEF Stays, OwnerOf
    <3>2. \A x, y \in Enters(c) : x = y
      BY <1>2
    <3> QED
      BY <1>4, <1>5, <2>2, <3>1, <3>2
  <2>3. \A o \in Replaced(c) : Timed(o)
    <3>1. Timed(OwnerOf(c, body[c]))
      BY DEF Timed, OwnerOf
    <3> QED
      BY <1>2, <1>4, <1>5, <3>1
  <2> QED
    BY <1>6, <1>9, <1>10, <2>1, <2>2, <2>3 DEF ShardsInv, Timed
<1> QED
  BY <1>7, <1>9, <1>10, <1>11, <1>12


LEMMA SwapPointerKeeps ==
  ASSUME IInv, NEW c \in Conversation, SwapPointer(c)
  PROVE  IInv'
<1>1. /\ At(c, "pointer") /\ Goto(c, "publish")
      /\ UNCHANGED <<body, catalog, files, queue, asks, scan, reader, mode>>
  BY DEF SwapPointer
<1>2. /\ op' \in [Conversation -> Operation]
      /\ op'[c].at = "publish" /\ op'[c].kind = op[c].kind /\ op'[c].session = op[c].session
      /\ op'[c].rev = op[c].rev /\ \A d \in Conversation \ {c} : op'[d] = op[d]
  BY <1>1, GotoGoes DEF IInv, Step
<1>3. /\ Outside(c) /\ ~Outside(c)' /\ op[c].rev # 0 /\ OnSession(c) /\ mode = "running" /\ c \notin asks
      /\ op[c].kind # "none" /\ op[c].rev <= catalog.rev /\ catalog.rev \in Nat
      /\ op[c].kind = "claim" => op[c].session # NoSession
      /\ queue = c /\ catalog.pending = {Own(c)} /\ catalog.rev = op[c].rev
  BY <1>1, <1>2 DEF IInv, OpInv, At, Allocated, Outside, TypeOK, Catalog
<1>4. CanUseQueue(c)
  BY <1>3 DEF CanUseQueue
<1>5. /\ HasIndex' /\ Indexed' = Replaced(c) /\ IndexIsWhole' /\ ShardsInv'
      /\ pointer' \in [of : [Shard -> BucketFile], count : Nat]
  BY SwappedIs
<1>6. /\ HasIndex /\ Agrees /\ Indexed \subseteq Owner /\ body[c].session = op[c].session
      /\ op[c].session # NoSession => Enters(c) = {OwnerOf(c, body[c])}
      /\ op[c].session = NoSession => Enters(c) = {}
  BY <1>3, ReplacedIs
<1>7. Replaced(c) = (Indexed \ Leaves(c)) \cup Enters(c) /\ \A o \in Indexed : o \in Leaves(c) <=> o.conv = c
  BY <1>1, OnlyOwnLeaves DEF Replaced
<1>8. TypeOK'
  BY <1>1, <1>2, <1>5 DEF IInv, TypeOK
<1>9. \A d \in Conversation : op'[d].rev = op[d].rev
  BY <1>2
<1>10. MarkerInv'
  BY <1>1, <1>9 DEF IInv, MarkerInv, TypeOK, Catalog
<1>11. IndexInv'
  <2>1. \A d \in Conversation \ {c} : /\ Outside(d)' <=> Outside(d)
                                      /\ Was(d)' = Was(d) /\ body'[d] = body[d]
    BY <1>1, <1>2 DEF Outside, Was
  <2>2. Was(c)' = body[c].session /\ body'[c] = body[c]
    BY <1>1, <1>3 DEF Was
  <2>3. ASSUME NEW o \in Replaced(c)
        PROVE  o.session = Was(o.conv)' /\ (Outside(o.conv)' \/ o.claim = body'[o.conv].claim)
    <3>1. CASE o \in Indexed \ Leaves(c)
      <4>1. o.conv \in Conversation \ {c}
        BY <1>6, <1>7, <3>1 DEF Owner
      <4> QED
        BY <1>6, <2>1, <3>1, <4>1 DEF Agrees
    <3>2. CASE o \in Enters(c)
      <4>1. o = OwnerOf(c, body[c])
        BY <1>6, <3>2
      <4> QED
        BY <2>2, <4>1 DEF OwnerOf
    <3> QED
      BY <1>7, <3>1, <3>2
  <2>4. ASSUME NEW d \in Conversation, Was(d)' # NoSession PROVE \E o \in Replaced(c) : o.conv = d
    <3>1. CASE d = c
      <4>1. OwnerOf(c, body[c]) \in Replaced(c)
        BY <1>6, <1>7, <2>2, <2>4, <3>1
      <4> QED
        BY <3>1, <4>1 DEF OwnerOf
    <3>2. CASE d # c
      BY <1>6, <1>7, <2>1, <2>4, <3>2 DEF Agrees
    <3> QED
      BY <3>1, <3>2
  <2> QED
    BY <1>5, <2>3, <2>4 DEF IndexInv, Agrees
<1>12. ModeInv' /\ OneOwner'
  BY <1>1, <1>5 DEF IInv, ModeInv, OneOwner
<1>13. ScanInv'
  BY <1>1, <1>4, CanUseIsAlone, NoScanIs DEF ScanInv
<1>14. ReaderInv'
  BY <1>1, <1>3, ReaderStays DEF SameOwner
<1>15. ASSUME NEW d \in Conversation PROVE OpInv(d)' /\ ClaimInv(d)' /\ BodyInv(d)' /\ WrittenInv(d)'
  <2>1. CASE d = c
    <3>1. OpInv(c)' /\ ClaimInv(c)'
      BY <1>1, <1>2, <1>3 DEF OpInv, ClaimInv, At, OnSession, Allocated, Own
    <3>2. BodyInv(c)'
      <4>1. Own(c) \in catalog.pending /\ Own(c).conv = c
        BY <1>3 DEF Own
      <4>2. body[c].rev <= catalog.rev /\ catalog.entry[c].rev <= catalog.rev
        BY DEF IInv, BodyInv
      <4> QED
        BY <1>1, <1>2, <1>3, <4>1, <4>2 DEF BodyInv, OnSession
    <3>3. WrittenInv(c)'
      BY <1>2 DEF WrittenInv, At
    <3> QED
      BY <2>1, <3>1, <3>2, <3>3
  <2>2. CASE d # c
    <3>1. Waiting(d) /\ ~Outside(d) /\ ~At(d, "pointer")
      BY <1>4, <2>2, CanUseIsAlone
    <3>2. OpInv(d)'
      <4>1. op[d].rev <= catalog'.rev
        BY <1>1 DEF IInv, OpInv
      <4> QED
        BY <1>1, <1>2, <2>2, <3>1, <4>1, OpWaits
    <3>3. ClaimInv(d)' /\ WrittenInv(d)'
      BY <1>2, <2>2, <3>1 DEF ClaimInv, WrittenInv, At, Waiting, OnSession
    <3>4. BodyInv(d)'
      BY <1>1, <1>2, <2>2 DEF IInv, BodyInv, Outside, OnSession
    <3> QED
      BY <3>2, <3>3, <3>4
  <2> QED
    BY <2>1, <2>2
<1> QED
  BY <1>5, <1>8, <1>10, <1>11, <1>12, <1>13, <1>14, <1>15 DEF IInv

LEMMA PublishKeeps ==
  ASSUME IInv, NEW c \in Conversation, Publish(c)
  PROVE  IInv'
<1>1. /\ At(c, "publish") /\ CanUseQueue(c) /\ Settle(c) /\ queue' = Nobody
      /\ UNCHANGED <<body, pointer, files, asks, scan, reader, mode>>
  BY DEF Publish, index
<1>2. /\ op' \in [Conversation -> Operation] /\ op'[c] = NoOp
      /\ \A d \in Conversation \ {c} : op'[d] = op[d]
  BY <1>1, SettleEnds DEF IInv
<1>3. /\ op[c].rev # 0 /\ op[c].rev \in Nat /\ op[c].rev <= catalog.rev /\ catalog.rev \in Nat
      /\ c \notin asks /\ mode = "running"
      /\ OnSession(c) => catalog.pending = {Own(c)} /\ catalog.rev = op[c].rev
  BY <1>1 DEF IInv, OpInv, At, Allocated, TypeOK, Catalog, Operation
<1>4. PICK entry \in [Conversation -> Body], pending \in SUBSET [conv : Conversation, rev : Nat] :
        /\ catalog' = [rev |-> catalog.rev, entry |-> entry, pending |-> pending]
        /\ entry = IF catalog.entry[c].rev > op[c].rev THEN catalog.entry
                   ELSE [catalog.entry EXCEPT ![c] = body[c]]
        /\ pending = {m \in catalog.pending : ~(m.conv = c /\ m.rev <= op[c].rev)}
  <2> DEFINE entry == IF catalog.entry[c].rev > op[c].rev THEN catalog.entry
                      ELSE [catalog.entry EXCEPT ![c] = body[c]]
             pending == {m \in catalog.pending : ~(m.conv = c /\ m.rev <= op[c].rev)}
  <2>1. entry \in [Conversation -> Body] /\ pending \in SUBSET [conv : Conversation, rev : Nat]
    BY DEF IInv, TypeOK, Catalog
  <2>2. (IF catalog.rev < op[c].rev THEN op[c].rev ELSE catalog.rev) = catalog.rev
    BY <1>3
  <2>3. catalog' = [rev |-> catalog.rev, entry |-> entry, pending |-> pending]
    BY <2>2 DEF Publish
  <2> HIDE DEF entry, pending
  <2>4. PICK e \in [Conversation -> Body], p \in SUBSET [conv : Conversation, rev : Nat] :
          e = entry /\ p = pending
    BY <2>1
  <2> QED
    BY <2>3, <2>4 DEF entry, pending
<1>5. catalog' \in Catalog /\ catalog'.rev = catalog.rev /\ catalog'.entry = entry /\ catalog'.pending = pending
  BY <1>3, <1>4 DEF Catalog
<1>6. \A m \in catalog.pending : /\ m.conv \in Conversation /\ m.rev \in Nat
                                 /\ m.conv = c => m \notin pending /\ op[c].rev = m.rev
                                 /\ m.conv # c => m \in pending
  BY <1>3, <1>4 DEF IInv, MarkerInv, TypeOK, Catalog
<1>7. TypeOK'
  BY <1>1, <1>2, <1>5, OwnersAssumption DEF IInv, TypeOK
<1>8. MarkerInv'
  BY <1>2, <1>4, <1>5, <1>6 DEF IInv, MarkerInv
<1>9. HasIndex' = HasIndex /\ Indexed' = Indexed
  BY <1>1 DEF HasIndex, Indexed
<1>10. \A d \in Conversation : (Outside(d)' <=> Outside(d)) /\ Was(d)' = Was(d)
  BY <1>1, <1>2, NoOpIs DEF Outside, Was, At
<1>11. IndexInv'
  <2> SUFFICES ASSUME HasIndex, Dead' = {} PROVE Agrees'
    BY <1>9 DEF IndexInv
  <2>1. Dead = {}
    <3> SUFFICES ASSUME NEW m \in Dead PROVE m \in Dead'
      OBVIOUS
    <3> QED
      BY <1>2, <1>5, <1>6 DEF Dead
  <2>2. Agrees /\ \A o \in Indexed : o.conv \in Conversation
    BY <2>1 DEF Indexed, IInv, IndexInv, TypeOK, BucketFile, Owner, HasIndex
  <2> QED
    BY <1>1, <1>9, <1>10, <2>2 DEF Agrees
<1>12. IndexIsWhole' /\ ShardsInv' /\ ModeInv' /\ OneOwner'
  <2>1. IndexIsWhole'
    BY <1>1, <1>9 DEF IInv, IndexIsWhole
  <2>2. ShardsInv'
    BY <1>1, <1>9 DEF IInv, ShardsInv
  <2> QED
    BY <1>1, <1>9, <2>1, <2>2 DEF IInv, ModeInv, OneOwner
<1>13. ScanInv'
  BY <1>1, CanUseIsAlone, NoScanIs, OwnersAssumption DEF ScanInv
<1>14. ReaderInv'
  BY <1>1, <1>3, <1>4, <1>5, ReaderStays DEF SameOwner
<1>15. ASSUME NEW d \in Conversation PROVE OpInv(d)' /\ ClaimInv(d)' /\ BodyInv(d)' /\ WrittenInv(d)'
  <2>1. CASE d = c
    <3>1. OpInv(c)' /\ ClaimInv(c)' /\ WrittenInv(c)'
      BY <1>1, <1>2, <1>3, <1>5, NoOpIs DEF OpInv, ClaimInv, WrittenInv, At, OnSession, Allocated
    <3>2. BodyInv(c)'
      <4>1. catalog.entry \in [Conversation -> Body] /\ body[c].rev <= catalog.rev
            /\ catalog.entry[c].rev <= catalog.rev
        BY DEF IInv, BodyInv, TypeOK, Catalog
      <4>2. CASE catalog.entry[c].rev > op[c].rev
        <5>1. ~OnSession(c)
          BY <1>3, <4>1, <4>2 DEF Body
        <5>2. SameOwner(catalog.entry[c], body[c])
          BY <1>3, <5>1 DEF IInv, BodyInv
        <5> QED
          BY <1>1, <1>4, <1>5, <1>10, <4>1, <4>2, <5>2, NoOpIs, <1>2 DEF BodyInv, Outside, SameOwner
      <4>3. CASE ~(catalog.entry[c].rev > op[c].rev)
        <5>1. entry[c] = body[c]
          BY <1>4, <4>1, <4>3
        <5> QED
          BY <1>1, <1>2, <1>5, <4>1, <5>1, NoOpIs DEF BodyInv, Outside, SameOwner
      <4> QED
        BY <4>2, <4>3
    <3> QED
      BY <2>1, <3>1, <3>2
  <2>2. CASE d # c
    <3>1. Waiting(d) /\ ~Outside(d) /\ ~At(d, "pointer")
      BY <1>1, <2>2, CanUseIsAlone
    <3>2. OpInv(d)'
      <4>1. op[d].rev <= catalog'.rev
        BY <1>5 DEF IInv, OpInv
      <4> QED
        BY <1>1, <1>2, <2>2, <3>1, <4>1, OpWaits
    <3>3. ClaimInv(d)' /\ WrittenInv(d)'
      BY <1>2, <2>2, <3>1 DEF ClaimInv, WrittenInv, At, Waiting, OnSession
    <3>4. BodyInv(d)'
      <4>1. entry[d] = catalog.entry[d]
        BY <1>4, <2>2 DEF IInv, TypeOK, Catalog
      <4>2. (\E m \in catalog.pending : m.conv = d) => \E m \in pending : m.conv = d
        BY <1>6, <2>2
      <4> QED
        BY <1>1, <1>2, <1>5, <2>2, <4>1, <4>2 DEF IInv, BodyInv, Outside, OnSession
    <3> QED
      BY <3>2, <3>3, <3>4
  <2> QED
    BY <2>1, <2>2
<1> QED
  BY <1>7, <1>8, <1>11, <1>12, <1>13, <1>14, <1>15 DEF IInv

-----------------------------------------------------------------------------
(* The rebuild.                                                            *)

(* The owners in some conversations are finitely many, one per conversation  *)
(* that holds a session.                                                   *)
LEMMA OwnersInIs ==
  ASSUME NEW b \in [Conversation -> Body]
  PROVE  /\ OwnersIn(b) \subseteq Owner /\ IsFiniteSet(OwnersIn(b))
         /\ \A o \in OwnersIn(b) : /\ o.conv \in Conversation /\ Timed(o)
                                   /\ o.session = b[o.conv].session /\ o.claim = b[o.conv].claim
         /\ \A c \in Conversation : b[c].session # NoSession => \E o \in OwnersIn(b) : o.conv = c
<1> DEFINE holders == {d \in Conversation : b[d].session # NoSession}
<1>1. OwnersIn(b) = {OwnerOf(c, b[c]) : c \in holders}
  BY DEF OwnersIn
<1>2. IsFiniteSet(OwnersIn(b))
  <2>1. IsFiniteSet(holders)
    BY OwnersAssumption, FS_Subset
  <2> DEFINE f == [c \in holders |-> OwnerOf(c, b[c])]
             S == OwnersIn(b)
  <2>2. f \in Surjection(holders, S)
    BY <1>1 DEF Surjection
  <2> HIDE DEF f, holders, S
  <2>3. IsFiniteSet(S)
    BY <2>1, <2>2, FS_Surjection
  <2> QED
    BY <2>3 DEF S
<1>3. ASSUME NEW c \in holders
      PROVE  /\ OwnerOf(c, b[c]) \in Owner /\ OwnerOf(c, b[c]).conv = c /\ Timed(OwnerOf(c, b[c]))
             /\ OwnerOf(c, b[c]).session = b[c].session /\ OwnerOf(c, b[c]).claim = b[c].claim
  <2>1. PICK x \in Body : x = b[c] /\ x.session \in Session
    BY DEF Body
  <2> QED
    BY <2>1 DEF OwnerOf, Owner, Body, Timed
<1>4. \A c \in holders : OwnerOf(c, b[c]) \in OwnersIn(b)
  BY <1>1
<1> QED
  BY <1>1, <1>2, <1>3, <1>4

(* The pointer to an index of some owners is of just these.                  *)
LEMMA PointerToIs ==
  ASSUME NEW X \in SUBSET Owner, IsFiniteSet(X)
  PROVE  /\ PointerTo(X) \in [of : [Shard -> BucketFile], count : Nat] /\ PointerTo(X) # NoPointer
         /\ UNION {PointerTo(X).of[h].owners : h \in DOMAIN PointerTo(X).of} = X
         /\ PointerTo(X).count = Cardinality(X)
         /\ \A h \in Shard : /\ PointerTo(X).of[h] = Bucket(h, X) /\ Bucket(h, X) \in BucketFile
                             /\ Bucket(h, X).shard = h
                             /\ \A o \in Bucket(h, X).owners : ShardOf(o.session) = h
<1>1. PICK f \in [Shard -> BucketFile], n \in Nat :
        /\ f = [h \in Shard |-> Bucket(h, X)] /\ n = Cardinality(X)
  <2>1. \A h \in Shard : Bucket(h, X) \in BucketFile
    BY DEF Bucket, BucketFile
  <2> QED
    BY <2>1, FS_CardinalityType
<1>2. PointerTo(X) = [of |-> f, count |-> n]
  BY <1>1 DEF PointerTo
<1>3. PointerTo(X).of = f /\ PointerTo(X).count = n /\ DOMAIN f = Shard
  BY <1>2
<1>4. \A h \in Shard : f[h].owners = {o \in X : ShardOf(o.session) = h} /\ f[h].shard = h
  BY <1>1 DEF Bucket
<1>5. UNION {f[h].owners : h \in Shard} = X
  <2>1. \A o : ShardOf(o.session) \in Shard
    BY DEF ShardOf, Shard
  <2> QED
    BY <1>4, <2>1
<1>6. [of |-> f, count |-> n] # NoPointer
  BY PointersAreSome
<1> QED
  BY <1>1, <1>2, <1>3, <1>4, <1>5, <1>6 DEF BucketFile

(* A step of the rebuild, and one that begins it.                           *)
LEMMA ScanOnlyKeeps ==
  ASSUME IInv, UNCHANGED <<body, catalog, pointer, op, reader, mode>>,
         files \subseteq files', files' \subseteq BucketFile,
         asks' \in {asks, asks \cup {Reader}}, queue' = Reader, scan' \in Scan, ScanInv',
         \A d \in Conversation : queue = d => Waiting(d)
  PROVE  IInv'
<1>1. TypeOK'
  BY DEF IInv, TypeOK
<1>2. /\ MarkerInv' /\ IndexInv' /\ IndexIsWhole' /\ ShardsInv' /\ OneOwner'
      /\ \A d \in Conversation : ClaimInv(d)' /\ BodyInv(d)' /\ WrittenInv(d)'
  <2>1. op' \in [Conversation -> Operation] /\ \A c \in Conversation : op'[c] = op[c]
    BY DEF IInv, TypeOK
  <2> QED
    BY <2>1, DiskStays
<1>3. ASSUME NEW d \in Conversation PROVE OpInv(d)'
  <2>1. Waiting(d)
    BY QueueIsExclusive
  <2>2. op[d].rev <= catalog'.rev
    BY DEF IInv, OpInv
  <2>3. d \in asks' => d \in asks
    BY OwnersAssumption
  <2> QED
    BY <2>1, <2>2, <2>3, OpWaits
<1>4. ModeInv'
  BY DEF IInv, ModeInv, HasIndex
<1>5. ReaderInv'
  <2>1. catalog.rev \in Nat
    BY DEF IInv, TypeOK, Catalog
  <2> QED
    BY <2>1, ReaderStays DEF SameOwner
<1> QED
  BY <1>1, <1>2, <1>3, <1>4, <1>5 DEF IInv

LEMMA StartScanIs ==
  ASSUME NEW asker \in Conversation \cup {Reader, Nobody}, StartScan(asker)
  PROVE  /\ queue' = Reader /\ scan' \in Scan /\ scan'.at = "read" /\ scan'.for = asker
         /\ scan'.todo = Conversation /\ DOMAIN scan'.entry = {}
<1>1. scan' = [for |-> asker, at |-> "read", todo |-> Conversation, entry |-> <<>>]
  BY DEF StartScan, NoScan
<1>2. <<>> \in [{} -> Body] /\ DOMAIN <<>> = {}
  OBVIOUS
<1>3. <<>> \in UNION {[D -> Body] : D \in SUBSET Conversation}
  BY <1>2
<1>4. PICK e \in UNION {[D -> Body] : D \in SUBSET Conversation} : e = <<>> /\ DOMAIN e = {}
  BY <1>2, <1>3
<1>5. [for |-> asker, at |-> "read", todo |-> Conversation, entry |-> e] \in Scan
  BY DEF Scan
<1>6. scan' = [for |-> asker, at |-> "read", todo |-> Conversation, entry |-> e]
  BY <1>1, <1>4
<1>7. scan' \in Scan
  BY <1>5, <1>6
<1>8. /\ scan'.at = "read" /\ scan'.for = asker /\ scan'.todo = Conversation
      /\ scan'.entry = e
  BY <1>6
<1>9. queue' = Reader
  BY DEF StartScan
<1> QED
  BY <1>4, <1>7, <1>8, <1>9

LEMMA StartScanKeeps ==
  ASSUME IInv, NEW asker \in Conversation \cup {Reader, Nobody}, StartScan(asker),
         UNCHANGED <<disk, op, asks, reader, mode>>,
         asker = Nobody => catalog.pending = {} /\ mode = "starting",
         asker \in Conversation => At(asker, "repair") \/ (At(asker, "allocate") /\ ~OnSession(asker)),
         queue \in {Nobody, asker}
  PROVE  IInv'
<1>1. /\ queue' = Reader /\ scan' \in Scan /\ scan'.at = "read" /\ scan'.for = asker
      /\ scan'.todo = Conversation /\ DOMAIN scan'.entry = {}
  BY StartScanIs
<1>2. ScanInv'
  BY <1>1 DEF ScanInv, disk, At, OnSession
<1>3. UNCHANGED <<body, catalog, pointer, files>> /\ files \subseteq BucketFile
  BY DEF disk, index, IInv, TypeOK
<1>4. \A d \in Conversation : queue = d => Waiting(d)
  BY OwnersAssumption DEF Waiting, At
<1> QED
  BY <1>1, <1>2, <1>3, <1>4, ScanOnlyKeeps

LEMMA ScanBeginsKeeps ==
  ASSUME IInv, \/ \E a \in Conversation \cup {Reader} : RebuildAsked(a)
               \/ \E c \in Conversation : RebuildToAllocate(c)
  PROVE  IInv'
<1>1. ASSUME NEW a \in Conversation \cup {Reader}, RebuildAsked(a) PROVE IInv'
  <2>1. a \in Conversation => At(a, "repair")
    BY <1>1 DEF RebuildAsked, IInv, OpInv
  <2>2. a # Nobody
    BY OwnersAssumption
  <2> QED
    BY <1>1, <2>1, <2>2, StartScanKeeps DEF RebuildAsked
<1>2. ASSUME NEW c \in Conversation, RebuildToAllocate(c) PROVE IInv'
  <2>1. At(c, "allocate") /\ ~OnSession(c)
    BY <1>2 DEF RebuildToAllocate, IInv, OpInv, At, Dead
  <2>2. c # Nobody
    BY OwnersAssumption
  <2> QED
    BY <1>2, <2>1, <2>2, StartScanKeeps DEF RebuildToAllocate, CanUseQueue
<1> QED
  BY <1>1, <1>2

LEMMA ReadBodyKeeps ==
  ASSUME IInv, NEW c \in Conversation, ReadBody(c)
  PROVE  IInv'
<1>1. /\ scan.at = "read" /\ c \in scan.todo
      /\ UNCHANGED <<body, catalog, pointer, files, op, queue, asks, reader, mode>>
  BY DEF ReadBody, disk, index
<1>2. PICK s \in Scan : s = scan
  BY DEF IInv, TypeOK
<1>3. /\ queue = Reader /\ DOMAIN s.entry = Conversation \ s.todo /\ s.entry \in [DOMAIN s.entry -> Body]
      /\ \A d \in DOMAIN s.entry : SameOwner(s.entry[d], body[d]) /\ s.entry[d].rev <= catalog.rev
      /\ body \in [Conversation -> Body] /\ body[c].rev <= catalog.rev
  BY <1>1, <1>2 DEF IInv, ScanInv, Scan, TypeOK, BodyInv
<1>4. PICK D \in SUBSET Conversation, todo \in SUBSET Conversation :
        D = DOMAIN s.entry \cup {c} /\ todo = s.todo \ {c}
  BY <1>3 DEF Scan
<1> DEFINE e == [d \in D |-> IF d = c THEN body[c] ELSE s.entry[d]]
<1>5. e \in [D -> Body]
  BY <1>3, <1>4
<1>6. PICK entry \in [D -> Body] : entry = e /\ \A d \in D : entry[d] = IF d = c THEN body[c] ELSE s.entry[d]
  BY <1>5
<1>7. scan' = [s EXCEPT !.todo = todo, !.entry = entry]
  BY <1>2, <1>4, <1>6 DEF ReadBody
<1>8. /\ scan' \in Scan /\ scan'.at = s.at /\ scan'.for = s.for /\ scan'.todo = todo
      /\ scan'.entry = entry /\ DOMAIN entry = D
  <2>1. entry \in UNION {[X -> Body] : X \in SUBSET Conversation}
    OBVIOUS
  <2> QED
    BY <1>7, <2>1 DEF Scan
<1>9. ScanInv'
  <2>1. \A d \in D : SameOwner(entry[d], body[d]) /\ entry[d].rev <= catalog.rev
    BY <1>3, <1>4, <1>6 DEF SameOwner
  <2>2. D = Conversation \ todo
    BY <1>1, <1>2, <1>3, <1>4
  <2>3. /\ s.for = Nobody => catalog.pending = {} /\ mode = "starting"
        /\ s.for \in Conversation => At(s.for, "repair") \/ (At(s.for, "allocate") /\ ~OnSession(s.for))
    BY <1>1, <1>2 DEF IInv, ScanInv
  <2> QED
    BY <1>1, <1>2, <1>3, <1>8, <2>1, <2>2, <2>3 DEF ScanInv, SameOwner, At, OnSession
<1>10. \A d \in Conversation : queue = d => Waiting(d)
  BY <1>3, OwnersAssumption
<1> QED
  BY <1>1, <1>3, <1>8, <1>9, <1>10, ScanOnlyKeeps DEF IInv, TypeOK

(* What a rebuild that has read everything found.                           *)
LEMMA FoundIs ==
  ASSUME IInv, scan.at # "none", scan.todo = {}
  PROVE  /\ scan.entry \in [Conversation -> Body]
         /\ Found \subseteq Owner /\ IsFiniteSet(Found)
         /\ \A o \in Found : /\ o.conv \in Conversation /\ Timed(o)
                             /\ o.session = body[o.conv].session /\ o.claim = body[o.conv].claim
         /\ \A c \in Conversation : body[c].session # NoSession => \E o \in Found : o.conv = c
<1>1. scan.entry \in [Conversation -> Body]
  BY DEF IInv, ScanInv, TypeOK, Scan
<1>2. \A c \in Conversation : SameOwner(scan.entry[c], body[c])
  BY <1>1 DEF IInv, ScanInv
<1>3. PICK b \in [Conversation -> Body] : b = scan.entry
  BY <1>1
<1> QED
  BY <1>1, <1>2, <1>3, OwnersInIs DEF Found, SameOwner

LEMMA WriteAllBucketsKeeps ==
  ASSUME IInv, WriteAllBuckets
  PROVE  IInv'
<1>1. /\ scan.at = "read" /\ scan.todo = {} /\ NoDuplicate
      /\ files' = files \cup {Bucket(h, Found) : h \in Shard}
      /\ UNCHANGED <<body, catalog, pointer, op, queue, asks, reader, mode>>
  BY DEF WriteAllBuckets
<1>2. PICK s \in Scan : s = scan
  BY DEF IInv, TypeOK
<1>3. /\ scan' \in Scan /\ scan'.at = "pointer" /\ scan'.for = s.for /\ scan'.todo = s.todo
      /\ scan'.entry = s.entry
  <2>1. scan' = [s EXCEPT !.at = "pointer"]
    BY <1>2 DEF WriteAllBuckets
  <2> QED
    BY <2>1 DEF Scan
<1>4. files' \subseteq BucketFile
  <2>1. \A h \in Shard : Bucket(h, Found) \in BucketFile
    BY <1>1, FoundIs, PointerToIs
  <2> QED
    BY <1>1, <2>1 DEF IInv, TypeOK
<1>5. queue = Reader
  BY <1>1 DEF IInv, ScanInv
<1>6. ScanInv'
  <2>1. Found' = Found /\ NoDuplicate'
    BY <1>1, <1>2, <1>3 DEF Found, NoDuplicate
  <2>2. \A h \in Shard : Bucket(h, Found)' \in files'
    BY <1>1, <2>1 DEF Bucket
  <2>3. /\ DOMAIN s.entry = Conversation \ s.todo
        /\ \A d \in DOMAIN s.entry : SameOwner(s.entry[d], body[d]) /\ s.entry[d].rev <= catalog.rev
        /\ s.for = Nobody => catalog.pending = {} /\ mode = "starting"
        /\ s.for \in Conversation => At(s.for, "repair") \/ (At(s.for, "allocate") /\ ~OnSession(s.for))
    BY <1>1, <1>2 DEF IInv, ScanInv
  <2> QED
    BY <1>1, <1>2, <1>3, <1>5, <2>1, <2>2, <2>3 DEF ScanInv, SameOwner, At, OnSession
<1>7. \A d \in Conversation : queue = d => Waiting(d)
  BY <1>5, OwnersAssumption
<1> QED
  BY <1>1, <1>3, <1>4, <1>5, <1>6, <1>7, ScanOnlyKeeps

(* A rebuild which installs the index installs what the conversations hold.  *)
LEMMA InstallIndexKeeps ==
  ASSUME IInv, InstallIndex
  PROVE  IInv'
<1>1. /\ scan.at = "pointer" /\ pointer' = PointerTo(Found)
      /\ UNCHANGED <<body, catalog, files, reader, mode>>
  BY DEF InstallIndex
<1>2. /\ scan.todo = {} /\ NoDuplicate /\ queue = Reader
      /\ \A h \in Shard : Bucket(h, Found) \in files
      /\ scan.for = Nobody => mode = "starting"
  BY <1>1 DEF IInv, ScanInv
<1>3. /\ Found \subseteq Owner /\ IsFiniteSet(Found)
      /\ \A o \in Found : /\ o.conv \in Conversation /\ Timed(o)
                          /\ o.session = body[o.conv].session /\ o.claim = body[o.conv].claim
      /\ \A c \in Conversation : body[c].session # NoSession => \E o \in Found : o.conv = c
  BY <1>1, <1>2, FoundIs
<1>4. /\ pointer' \in [of : [Shard -> BucketFile], count : Nat] /\ HasIndex' /\ Indexed' = Found
      /\ pointer'.count = Cardinality(Found)
      /\ \A h \in Shard : /\ pointer'.of[h] = Bucket(h, Found) /\ Bucket(h, Found).shard = h
                          /\ \A o \in Bucket(h, Found).owners : ShardOf(o.session) = h
  BY <1>1, <1>3, PointerToIs DEF HasIndex, Indexed
<1>5. \A c \in Conversation : Waiting(c) /\ ~Outside(c)
  BY <1>2, QueueIsExclusive
<1>6. PICK s \in Scan : s = scan
  BY DEF IInv, TypeOK
<1>7. /\ op' = op /\ asks' \subseteq asks
      /\ \/ scan' = NoScan /\ queue' = Nobody
         \/ scan' = [s EXCEPT !.at = "catalog"] /\ queue' = Reader /\ s.for # Nobody
  BY <1>1, <1>2, <1>6, OwnersAssumption DEF InstallIndex, Resumed
<1>8. scan' \in Scan
  <2>1. [s EXCEPT !.at = "catalog"] \in Scan
    BY DEF Scan
  <2>2. NoScan \in Scan
    BY NoScanTyped
  <2> QED
    BY <1>7, <2>1, <2>2
<1>9. TypeOK'
  BY <1>1, <1>4, <1>7, <1>8 DEF IInv, TypeOK
<1>10. \A c \in Conversation : Was(c)' = body[c].session /\ ~Outside(c)'
  BY <1>1, <1>5, <1>7 DEF Was, Outside
<1>11. Agrees'
  BY <1>1, <1>3, <1>4, <1>10 DEF Agrees
<1>12. MarkerInv' /\ IndexInv' /\ OneOwner'
  BY <1>1, <1>7, <1>11 DEF IInv, MarkerInv, IndexInv, OneOwner
<1>13. IndexIsWhole'
  BY <1>1, <1>2, <1>4 DEF IndexIsWhole
<1>14. ShardsInv'
  BY <1>2, <1>3, <1>4 DEF ShardsInv, NoDuplicate
<1>15. ModeInv'
  BY <1>1, <1>4, <1>7 DEF ModeInv
<1>16. ScanInv'
  <2>1. CASE scan' = NoScan /\ queue' = Nobody
    BY <2>1, OwnersAssumption DEF ScanInv, NoScan
  <2>2. CASE scan' = [s EXCEPT !.at = "catalog"] /\ queue' = Reader /\ s.for # Nobody
    <3>1. /\ scan'.at = "catalog" /\ scan'.for = s.for /\ scan'.todo = s.todo /\ scan'.entry = s.entry
      BY <2>2 DEF Scan
    <3>2. /\ DOMAIN s.entry = Conversation \ s.todo
          /\ \A d \in DOMAIN s.entry : SameOwner(s.entry[d], body[d]) /\ s.entry[d].rev <= catalog.rev
          /\ s.for \in Conversation => At(s.for, "repair") \/ (At(s.for, "allocate") /\ ~OnSession(s.for))
      BY <1>1, <1>6 DEF IInv, ScanInv
    <3>3. NoDuplicate'
      BY <1>2, <1>6, <3>1 DEF NoDuplicate, Found
    <3>4. s.todo = {}
      BY <1>2, <1>6
    <3> QED
      BY <1>1, <1>4, <1>7, <1>11, <2>2, <3>1, <3>2, <3>3, <3>4 DEF ScanInv, SameOwner, At, OnSession
  <2> QED
    BY <1>7, <2>1, <2>2
<1>17. ReaderInv'
  <2>1. catalog.rev \in Nat
    BY DEF IInv, TypeOK, Catalog
  <2> QED
    BY <1>1, <2>1, ReaderStays DEF SameOwner
<1>18. ASSUME NEW c \in Conversation PROVE OpInv(c)' /\ ClaimInv(c)' /\ BodyInv(c)' /\ WrittenInv(c)'
  <2>1. OpInv(c)'
    <3>1. op[c].rev <= catalog'.rev
      BY <1>1 DEF IInv, OpInv
    <3> QED
      BY <1>1, <1>5, <1>7, <3>1, OpWaits
  <2>2. ClaimInv(c)' /\ BodyInv(c)'
    BY <1>1, <1>7 DEF IInv, ClaimInv, BodyInv, Outside, OnSession
  <2>3. WrittenInv(c)'
    BY <1>5, <1>7 DEF WrittenInv, Outside, At
  <2> QED
    BY <2>1, <2>2, <2>3
<1> QED
  BY <1>9, <1>12, <1>13, <1>14, <1>15, <1>16, <1>17, <1>18 DEF IInv

(* A rebuild which ends lets the operation it is for go on, with the queue if *)
(* that is at its revision, or has it begin again.                          *)
LEMMA FinishRebuildKeeps ==
  ASSUME IInv, FinishRebuild
  PROVE  IInv'
<1>1. scan.at = "catalog" /\ Resumed /\ UNCHANGED <<body, pointer, files, reader, mode>>
  BY DEF FinishRebuild, index
<1>2. /\ scan.todo = {} /\ queue = Reader /\ HasIndex /\ Agrees
      /\ scan.for \in Conversation =>
           At(scan.for, "repair") \/ (At(scan.for, "allocate") /\ ~OnSession(scan.for))
  BY <1>1 DEF IInv, ScanInv
<1>3. PICK entry \in [Conversation -> Body] :
        /\ entry = scan.entry
        /\ \A c \in Conversation : SameOwner(entry[c], body[c]) /\ entry[c].rev <= catalog.rev
  <2>1. scan.entry \in [Conversation -> Body]
    BY <1>1, <1>2, FoundIs
  <2> QED
    BY <1>1, <2>1 DEF IInv, ScanInv
<1>4. catalog.rev \in Nat /\ \A c \in Conversation : entry[c].rev \in Nat
  BY DEF IInv, TypeOK, Catalog, Body
<1>5. HighestOf({catalog.rev} \cup {entry[c].rev : c \in Conversation}) = catalog.rev
  <2> DEFINE S == {catalog.rev} \cup {entry[c].rev : c \in Conversation}
  <2>1. catalog.rev \in S /\ \A y \in S : y <= catalog.rev /\ y \in Nat
    BY <1>3, <1>4
  <2> HIDE DEF S
  <2> QED
    BY <2>1 DEF HighestOf, S
<1>6. catalog' = [rev |-> catalog.rev, entry |-> entry, pending |-> {}]
  BY <1>3, <1>5 DEF FinishRebuild
<1>7. catalog' \in Catalog /\ catalog'.rev = catalog.rev /\ catalog'.entry = entry /\ catalog'.pending = {}
  BY <1>4, <1>6 DEF Catalog
<1>8. \A c \in Conversation : Waiting(c) /\ ~Outside(c)
  BY <1>2, QueueIsExclusive
<1>9. scan' = NoScan /\ NoScan \in Scan /\ asks' = asks \ {scan.for}
  BY <1>1, NoScanTyped DEF Resumed
<1>10. /\ queue' \in Conversation \cup {Nobody} /\ op' \in [Conversation -> Operation]
       /\ queue' \in Conversation => queue' = scan.for /\ At(scan.for, "allocate") /\ op' = op
       /\ \A c \in Conversation :
            \/ op'[c] = op[c]
            \/ /\ c = scan.for /\ At(c, "repair") /\ op'[c].at = "enter" /\ op'[c].rev = op[c].rev
               /\ op'[c].kind = op[c].kind /\ op'[c].session = op[c].session /\ queue' = Nobody
  <2>1. CASE scan.for \in Conversation /\ At(scan.for, "repair")
    <3>1. Goto(scan.for, "enter") /\ queue' = Nobody
      BY <1>1, <2>1 DEF Resumed
    <3>2. /\ op' \in [Conversation -> Operation]
          /\ op'[scan.for].at = "enter" /\ op'[scan.for].kind = op[scan.for].kind
          /\ op'[scan.for].session = op[scan.for].session
          /\ op'[scan.for].rev = op[scan.for].rev /\ \A d \in Conversation \ {scan.for} : op'[d] = op[d]
      BY <2>1, <3>1, GotoGoes DEF IInv, Step
    <3> QED
      BY <2>1, <3>1, <3>2, OwnersAssumption
  <2>2. CASE ~(scan.for \in Conversation /\ At(scan.for, "repair"))
    <3>1. op' = op /\ queue' = (IF scan.for \in Conversation THEN scan.for ELSE Nobody)
      BY <1>1, <2>2 DEF Resumed
    <3>2. scan.for \in Conversation => At(scan.for, "allocate")
      BY <1>2, <2>2
    <3> QED
      BY <3>1, <3>2, OwnersAssumption DEF IInv, TypeOK
  <2> QED
    BY <2>1, <2>2
<1>11. TypeOK'
  BY <1>1, <1>7, <1>9, <1>10 DEF IInv, TypeOK
<1>12. MarkerInv'
  BY <1>7 DEF MarkerInv
<1>13. HasIndex' /\ Indexed' = Indexed /\ \A o \in Indexed : o.conv \in Conversation
  BY <1>1, <1>2 DEF HasIndex, Indexed, IInv, TypeOK, BucketFile, Owner
<1>14. \A c \in Conversation : ~Outside(c)' /\ Was(c)' = Was(c)
  BY <1>1, <1>8, <1>10 DEF Outside, Was
<1>15. IndexInv'
  BY <1>1, <1>2, <1>8, <1>13, <1>14 DEF IndexInv, Agrees
<1>16. IndexIsWhole'
  BY <1>1, <1>13 DEF IInv, IndexIsWhole, HasIndex
<1>17. ShardsInv'
  BY <1>1, <1>13 DEF IInv, ShardsInv, HasIndex
<1>18. ModeInv' /\ OneOwner'
  <2>1. scan.for \in Conversation => mode = "running"
    BY <1>2 DEF IInv, OpInv, At
  <2> QED
    BY <1>1, <1>10, <1>13, <2>1 DEF IInv, ModeInv, OneOwner
<1>19. ScanInv'
  BY <1>9, <1>10, OwnersAssumption DEF ScanInv, NoScan
<1>20. ReaderInv'
  BY <1>1, <1>4, <1>7, ReaderStays DEF SameOwner
<1>21. ASSUME NEW c \in Conversation PROVE OpInv(c)' /\ ClaimInv(c)' /\ BodyInv(c)' /\ WrittenInv(c)'
  <2>1. op[c].rev <= catalog'.rev
    BY <1>7 DEF IInv, OpInv
  <2>2. OpInv(c)'
    <3>1. CASE op'[c] = op[c]
      <4>1. c \in asks' => c \in asks
        BY <1>9
      <4> QED
        BY <1>1, <1>8, <2>1, <3>1, <4>1, OpWaits
    <3>2. CASE c = scan.for /\ At(c, "repair") /\ op'[c].at = "enter" /\ op'[c].rev = op[c].rev
               /\ op'[c].kind = op[c].kind /\ op'[c].session = op[c].session
      <4>1. op[c].rev = 0 /\ mode = "running" /\ op[c].kind # "none"
            /\ (op[c].kind = "claim" => op[c].session # NoSession) /\ c \notin asks'
        BY <1>9, <3>2 DEF IInv, OpInv, At, Allocated
      <4> QED
        BY <1>1, <2>1, <3>2, <4>1 DEF OpInv, At, OnSession, Allocated
    <3> QED
      BY <1>10, <3>1, <3>2
  <2>3. ClaimInv(c)' /\ WrittenInv(c)'
    <3>1. ~(OnSession(c)' /\ op'[c].at \in {"allocate", "commit"}) /\ ~At(c, "pointer")'
      BY <1>8, <1>10 DEF Waiting, OnSession, At, Outside
    <3> QED
      BY <3>1 DEF ClaimInv, WrittenInv
  <2>4. BodyInv(c)'
    BY <1>1, <1>3, <1>7, <1>14 DEF IInv, BodyInv, SameOwner
  <2> QED
    BY <2>2, <2>3, <2>4
<1> QED
  BY <1>11, <1>12, <1>15, <1>16, <1>17, <1>18, <1>19, <1>20, <1>21 DEF IInv

LEMMA RebuildFailsKeeps ==
  ASSUME IInv, RebuildFails
  PROVE  IInv'
<1>1. /\ scan # NoScan /\ queue' = Nobody /\ scan' = NoScan /\ asks' = asks \ {scan.for}
      /\ UNCHANGED <<body, catalog, pointer, files, reader, mode>>
  BY DEF RebuildFails, disk, index
<1>2. scan.at # "none" /\ queue = Reader
  BY <1>1 DEF IInv, ScanInv
<1>3. op' \in [Conversation -> Operation]
      /\ \A c \in Conversation : op'[c] = op[c] \/ (c = scan.for /\ op'[c] = NoOp)
  <2>1. CASE scan.for \in Conversation
    BY <2>1, SettleEnds DEF IInv, RebuildFails
  <2>2. CASE scan.for \notin Conversation
    BY <2>2 DEF IInv, TypeOK, RebuildFails
  <2> QED
    BY <2>1, <2>2
<1>4. NoScan \in Scan
  BY NoScanTyped
<1>5. TypeOK'
  BY <1>1, <1>3, <1>4 DEF IInv, TypeOK
<1>6. /\ MarkerInv' /\ IndexInv' /\ IndexIsWhole' /\ ShardsInv' /\ OneOwner'
      /\ \A d \in Conversation : ClaimInv(d)' /\ BodyInv(d)' /\ WrittenInv(d)'
  <2>1. \A c \in Conversation : op'[c] = op[c] \/ (op'[c].rev = 0 /\ ~Outside(c)' /\ ClaimInv(c)')
    BY <1>3, NoOpIs DEF Outside, ClaimInv, OnSession
  <2> QED
    BY <1>1, <1>3, <2>1, DiskStays
<1>7. ASSUME NEW c \in Conversation PROVE OpInv(c)'
  <2>1. catalog.rev \in Nat /\ op[c].rev <= catalog.rev /\ Waiting(c)
    BY <1>2, QueueIsExclusive DEF IInv, OpInv, TypeOK, Catalog
  <2>2. CASE op'[c] = op[c]
    BY <1>1, <2>1, <2>2, OpWaits
  <2>3. CASE c = scan.for /\ op'[c] = NoOp
    BY <1>1, <2>1, <2>3, NoOpIs DEF OpInv, At, OnSession, Allocated
  <2> QED
    BY <1>3, <2>2, <2>3
<1>8. ModeInv' /\ ScanInv'
  BY <1>1, OwnersAssumption DEF IInv, ModeInv, HasIndex, ScanInv, NoScan
<1>9. ReaderInv'
  <2>1. catalog.rev \in Nat
    BY DEF IInv, TypeOK, Catalog
  <2> QED
    BY <1>1, <2>1, ReaderStays DEF SameOwner
<1> QED
  BY <1>5, <1>6, <1>7, <1>8, <1>9 DEF IInv

-----------------------------------------------------------------------------
(* A lookup, startup and a crash.                                          *)

(* A step of a lookup is its own.                                           *)
LEMMA ReaderOnlyKeeps ==
  ASSUME IInv, UNCHANGED <<disk, op, queue, scan, mode>>, asks' \in {asks, asks \cup {Reader}},
         reader' \in Lookups, ReaderInv'
  PROVE  IInv'
<1>1. UNCHANGED <<body, catalog, pointer, files>>
  BY DEF disk, index
<1>2. TypeOK'
  BY <1>1 DEF IInv, TypeOK
<1>3. /\ MarkerInv' /\ IndexInv' /\ IndexIsWhole' /\ ShardsInv' /\ OneOwner'
      /\ \A d \in Conversation : ClaimInv(d)' /\ BodyInv(d)' /\ WrittenInv(d)'
  <2>1. op' \in [Conversation -> Operation] /\ \A c \in Conversation : op'[c] = op[c]
    BY DEF IInv, TypeOK
  <2> QED
    BY <1>1, <2>1, DiskStays
<1>4. ASSUME NEW d \in Conversation PROVE OpInv(d)'
  <2>1. d \in asks' => d \in asks
    BY OwnersAssumption
  <2> QED
    BY <1>1, <2>1, OpStays
<1>5. ModeInv'
  BY <1>1 DEF IInv, ModeInv, HasIndex
<1>6. ScanInv'
  <2>1. catalog.rev \in Nat /\ \A d \in Conversation : Outside(d)' <=> Outside(d)
    BY DEF IInv, TypeOK, Catalog, Outside
  <2> QED
    BY <1>1, <2>1, ScanStays DEF SameOwner
<1> QED
  BY <1>2, <1>3, <1>4, <1>5, <1>6 DEF IInv

(* Where no marker is left, the index answers with what the conversations    *)
(* hold.                                                                   *)
LEMMA LookupsOwn ==
  ASSUME IInv, HasIndex, catalog.pending = {}, NEW s \in Session
  PROVE  Pairs(Lookup(s)) = Owning(s)
<1>1. Agrees /\ Dead = {}
  BY DEF IInv, IndexInv, Dead
<1>2. \A c \in Conversation : ~Outside(c)
  BY DEF IInv, OpInv, Outside, Allocated
<1>3. s # NoSession
  BY OwnersAssumption
<1>4. ASSUME NEW o \in Lookup(s)
      PROVE  o.conv \in Conversation /\ body[o.conv].session = s /\ body[o.conv].claim = o.claim
  <2>1. ShardOf(s) \in Shard /\ DOMAIN pointer.of = Shard
    BY DEF ShardOf, Shard, IInv, TypeOK, HasIndex
  <2>2. o \in Indexed /\ o.session = s
    BY <2>1 DEF Lookup, Indexed
  <2>3. o.conv \in Conversation
    BY <2>2 DEF Indexed, IInv, TypeOK, BucketFile, Owner, HasIndex
  <2> QED
    BY <1>1, <1>2, <2>2, <2>3 DEF Agrees, Was
<1>5. ASSUME NEW c \in Conversation, body[c].session = s
      PROVE  \E o \in Lookup(s) : o.conv = c /\ o.claim = body[c].claim
  BY <1>1, <1>2, <1>3, <1>5, HoldersAreListed
<1>6. Pairs(Lookup(s)) \subseteq Owning(s)
  BY <1>4 DEF Pairs, Owning
<1>7. Owning(s) \subseteq Pairs(Lookup(s))
  BY <1>5 DEF Pairs, Owning
<1> QED
  BY <1>6, <1>7

LEMMA AskKeeps ==
  ASSUME IInv, NEW s \in Session, Ask(s)
  PROVE  IInv'
<1>1. reader' = [Idle EXCEPT !.at = "before", !.session = s]
  BY DEF Ask
<1>2. reader' \in Lookups /\ reader'.at = "before" /\ reader'.session = s
  BY <1>1 DEF Idle, Lookups
<1>3. ReaderInv'
  BY <1>2 DEF Ask, ReaderInv
<1> QED
  BY <1>2, <1>3, ReaderOnlyKeeps DEF Ask

LEMMA ReadBeforeKeeps ==
  ASSUME IInv, ReadBefore
  PROVE  IInv'
<1>1. PICK r \in Lookups : r = reader
  BY DEF IInv, TypeOK
<1>2. PICK k \in Catalog : k = catalog
  BY DEF IInv, TypeOK
<1>3. /\ r.at = "before" /\ mode = "running" /\ r.session \in Session
      /\ UNCHANGED <<disk, op, queue, scan, mode>> /\ catalog' = k
  BY <1>1, <1>2 DEF ReadBefore, IInv, ReaderInv, disk
<1>4. CASE UNCHANGED reader /\ asks' = asks \cup {Reader}
  <2>1. reader' \in Lookups
    BY <1>1, <1>4
  <2>2. ReaderInv'
    BY <1>1, <1>3, <1>4 DEF ReaderInv
  <2> QED
    BY <1>3, <1>4, <2>1, <2>2, ReaderOnlyKeeps
<1>5. CASE /\ catalog.pending = {} /\ UNCHANGED asks
           /\ reader' = [reader EXCEPT !.at = "pointer", !.catalog = catalog]
  <2>1. reader' = [r EXCEPT !.at = "pointer", !.catalog = k]
    BY <1>1, <1>2, <1>5
  <2>2. /\ reader' \in Lookups /\ reader'.at = "pointer" /\ reader'.session = r.session
        /\ reader'.catalog = k
    BY <2>1 DEF Lookups
  <2>3. k.rev \in Nat /\ k.pending = {}
    BY <1>2, <1>5 DEF Catalog
  <2>4. ReaderInv'
    BY <1>3, <2>2, <2>3 DEF ReaderInv
  <2> QED
    BY <1>3, <1>5, <2>2, <2>4, ReaderOnlyKeeps
<1> QED
  BY <1>4, <1>5 DEF ReadBefore

(* What a lookup knows between its two reads of the catalog.                *)
LEMMA LookupKnows ==
  ASSUME IInv, reader.at \in {"pointer", "bucket", "after"}
  PROVE  /\ mode = "running" /\ HasIndex /\ reader.session \in Session
         /\ reader.catalog \in Catalog /\ reader.catalog.rev <= catalog.rev
         /\ reader.catalog.rev = catalog.rev => catalog.pending = {}
BY DEF IInv, ReaderInv, ModeInv

LEMMA ReadPointerKeeps ==
  ASSUME IInv, ReadPointer
  PROVE  IInv'
<1>1. PICK r \in Lookups : r = reader
  BY DEF IInv, TypeOK
<1>2. /\ r.at = "pointer" /\ HasIndex /\ UNCHANGED <<disk, op, queue, asks, scan, mode>>
      /\ UNCHANGED <<body, catalog, pointer>>
  BY <1>1 DEF ReadPointer, disk, index
<1>3. /\ mode = "running" /\ r.session \in Session
      /\ r.catalog \in Catalog /\ r.catalog.rev <= catalog.rev
      /\ r.catalog.rev = catalog.rev => catalog.pending = {}
  BY <1>1, <1>2, LookupKnows
<1>4. PICK b \in BucketFile : b = pointer.of[ShardOf(r.session)]
  BY <1>2 DEF IInv, TypeOK, HasIndex, ShardOf, Shard
<1>5. reader' = [r EXCEPT !.at = "bucket", !.bucket = b]
  BY <1>1, <1>4 DEF ReadPointer
<1>6. /\ reader' \in Lookups /\ reader'.at = "bucket" /\ reader'.session = r.session
      /\ reader'.catalog = r.catalog /\ reader'.bucket = b
  BY <1>5 DEF Lookups
<1>7. r.catalog.rev = catalog.rev => Pairs(Of(b.owners, r.session)) = Owning(r.session)'
  <2>1. Of(b.owners, r.session) = Lookup(r.session)
    BY <1>4 DEF Of, Lookup
  <2>2. Owning(r.session)' = Owning(r.session)
    BY <1>2 DEF Owning
  <2> QED
    BY <1>2, <1>3, <2>1, <2>2, LookupsOwn
<1>8. ReaderInv'
  <2>1. Pairs(Of(reader'.bucket.owners, reader'.session)) = Pairs(Of(b.owners, r.session))
    BY <1>6
  <2>2. Owning(reader.session)' = Owning(r.session)'
    BY <1>6 DEF Owning
  <2>3. Pairs(Of(reader.bucket.owners, reader.session))' = Pairs(Of(b.owners, r.session))
    BY <2>1 DEF Pairs, Of
  <2> QED
    BY <1>2, <1>3, <1>6, <1>7, <2>2, <2>3 DEF ReaderInv
<1> QED
  BY <1>2, <1>6, <1>8, ReaderOnlyKeeps

LEMMA ReadBucketKeeps ==
  ASSUME IInv, ReadBucket
  PROVE  IInv'
<1>1. PICK r \in Lookups : r = reader
  BY DEF IInv, TypeOK
<1>2. /\ r.at = "bucket" /\ UNCHANGED <<disk, op, queue, asks, scan, mode>>
      /\ UNCHANGED <<body, catalog, pointer>>
  BY <1>1 DEF ReadBucket, disk, index
<1>3. /\ mode = "running" /\ r.session \in Session
      /\ r.catalog \in Catalog /\ r.catalog.rev <= catalog.rev
      /\ r.catalog.rev = catalog.rev => catalog.pending = {}
  BY <1>1, <1>2, LookupKnows
<1>4. /\ r.bucket \in BucketFile
      /\ r.catalog.rev = catalog.rev => Pairs(Of(r.bucket.owners, r.session)) = Owning(r.session)
  BY <1>1, <1>2 DEF IInv, ReaderInv
<1>5. PICK f \in SUBSET Owner : f = Of(r.bucket.owners, r.session)
  BY <1>4 DEF Of, BucketFile
<1>6. reader' = [r EXCEPT !.at = "after", !.bucket = <<>>, !.found = f]
  BY <1>1, <1>5 DEF ReadBucket, Of
<1>7. /\ reader' \in Lookups /\ reader'.at = "after" /\ reader'.session = r.session
      /\ reader'.catalog = r.catalog /\ reader'.found = f
  BY <1>6 DEF Lookups
<1>8. ReaderInv'
  <2>1. Pairs(reader.found)' = Pairs(f)
    BY <1>7 DEF Pairs
  <2>2. Owning(reader.session)' = Owning(r.session)
    BY <1>2, <1>7 DEF Owning
  <2>3. r.catalog.rev = catalog.rev => Pairs(f) = Owning(r.session)
    BY <1>4, <1>5
  <2> QED
    BY <1>2, <1>3, <1>7, <2>1, <2>2, <2>3 DEF ReaderInv
<1> QED
  BY <1>2, <1>7, <1>8, ReaderOnlyKeeps

LEMMA ReadAfterKeeps ==
  ASSUME IInv, ReadAfter \/ GiveUp
  PROVE  IInv'
<1>1. PICK r \in Lookups : r = reader
  BY DEF IInv, TypeOK
<1>2. UNCHANGED <<disk, op, queue, asks, scan, mode>>
  BY DEF ReadAfter, GiveUp
<1>3. \/ reader' = [r EXCEPT !.at = "answered", !.catalog = <<>>]
      \/ reader' = [Idle EXCEPT !.at = "before", !.session = r.session] /\ r.at = "after"
      \/ reader' = Idle
  BY <1>1 DEF ReadAfter, GiveUp
<1>4. /\ reader' \in Lookups /\ reader'.at \in {"idle", "before", "answered"}
      /\ reader'.at = "before" => reader'.session = r.session /\ r.at = "after"
  <2>1. CASE reader' = [r EXCEPT !.at = "answered", !.catalog = <<>>]
    BY <2>1 DEF Lookups
  <2>2. CASE reader' = [Idle EXCEPT !.at = "before", !.session = r.session] /\ r.at = "after"
    <3>1. r.session \in Session \cup {NoSession}
      BY DEF Lookups
    <3> QED
      BY <2>2, <3>1 DEF Idle, Lookups
  <2>3. CASE reader' = Idle
    BY <2>3 DEF Idle, Lookups
  <2> QED
    BY <1>3, <2>1, <2>2, <2>3
<1>5. r.at = "after" => r.session \in Session /\ mode = "running"
  BY <1>1, LookupKnows
<1>6. ReaderInv'
  BY <1>2, <1>4, <1>5 DEF ReaderInv
<1> QED
  BY <1>2, <1>4, <1>6, ReaderOnlyKeeps

(* At startup nothing is under way; a store that has its index and no marker *)
(* is open.                                                                *)
LEMMA EnsureKeeps ==
  ASSUME IInv, Ensure
  PROVE  IInv'
<1>1. /\ mode = "starting" /\ queue = Nobody
      /\ UNCHANGED <<body, catalog, pointer, files, disk, op, reader>>
  BY DEF Ensure, disk, index
<1>2. \A c \in Conversation : At(c, "none") /\ ~Outside(c) /\ c \notin asks
  BY <1>1 DEF IInv, OpInv, At, Outside
<1>3. reader.at \in {"idle", "answered"} /\ scan = NoScan
  BY <1>1, OwnersAssumption DEF IInv, ReaderInv, ScanInv
<1>4. CASE asks' = asks \cup {Reader} /\ UNCHANGED <<mode, queue, scan>>
  <2>1. reader' \in Lookups
    BY <1>1 DEF IInv, TypeOK
  <2>2. ReaderInv'
    BY <1>1, <1>3 DEF ReaderInv
  <2> QED
    BY <1>1, <1>4, <2>1, <2>2, ReaderOnlyKeeps
<1>5. CASE HasIndex /\ mode' = "running" /\ UNCHANGED <<asks, queue, scan>>
  <2>1. TypeOK'
    BY <1>1, <1>5 DEF IInv, TypeOK
  <2>2. /\ MarkerInv' /\ IndexInv' /\ IndexIsWhole' /\ ShardsInv' /\ OneOwner'
        /\ \A d \in Conversation : ClaimInv(d)' /\ BodyInv(d)' /\ WrittenInv(d)'
    <3>1. op' \in [Conversation -> Operation] /\ \A c \in Conversation : op'[c] = op[c]
      BY <1>1 DEF IInv, TypeOK
    <3> QED
      BY <1>1, <3>1, DiskStays
  <2>3. ASSUME NEW c \in Conversation PROVE OpInv(c)'
    BY <1>1, <1>2, <1>5 DEF IInv, OpInv, At, OnSession, Own, Allocated
  <2>4. ModeInv' /\ ScanInv' /\ ReaderInv'
    BY <1>1, <1>3, <1>5, OwnersAssumption DEF ModeInv, HasIndex, ScanInv, ReaderInv, NoScan
  <2> QED
    BY <2>1, <2>2, <2>3, <2>4 DEF IInv
<1>6. CASE catalog.pending = {} /\ StartScan(Nobody) /\ UNCHANGED <<asks, mode>>
  BY <1>1, <1>6, StartScanKeeps, OwnersAssumption
<1> QED
  BY <1>4, <1>5, <1>6 DEF Ensure

(* A crash takes what is under way and leaves what is on disk.              *)
LEMMA CrashKeeps ==
  ASSUME IInv, Crash
  PROVE  IInv'
<1>1. /\ op' = [c \in Conversation |-> NoOp] /\ queue' = Nobody /\ asks' = {} /\ scan' = NoScan
      /\ reader' = Idle /\ mode' = "starting" /\ UNCHANGED <<body, catalog, pointer, files>>
  BY DEF Crash, disk, index
<1>2. NoScan \in Scan
  BY NoScanTyped
<1>3. Idle \in Lookups /\ Idle.at = "idle"
  BY DEF Idle, Lookups
<1>4. op' \in [Conversation -> Operation] /\ \A c \in Conversation : op'[c] = NoOp
  BY <1>1, NoOpIs
<1>5. TypeOK'
  BY <1>1, <1>2, <1>3, <1>4 DEF IInv, TypeOK
<1>6. /\ MarkerInv' /\ IndexInv' /\ IndexIsWhole' /\ ShardsInv' /\ OneOwner'
      /\ \A d \in Conversation : ClaimInv(d)' /\ BodyInv(d)' /\ WrittenInv(d)'
  <2>1. \A c \in Conversation : op'[c].rev = 0 /\ ~Outside(c)' /\ ClaimInv(c)'
    BY <1>4, NoOpIs DEF Outside, ClaimInv, OnSession
  <2> QED
    BY <1>1, <1>4, <2>1, DiskStays
<1>7. ASSUME NEW c \in Conversation PROVE OpInv(c)'
  <2>1. catalog.rev \in Nat
    BY DEF IInv, TypeOK, Catalog
  <2> QED
    BY <1>1, <1>4, <2>1, NoOpIs DEF OpInv, At, OnSession, Allocated
<1>8. ModeInv' /\ ScanInv' /\ ReaderInv'
  BY <1>1, <1>3, OwnersAssumption DEF ModeInv, ScanInv, ReaderInv, NoScan
<1> QED
  BY <1>5, <1>6, <1>7, <1>8 DEF IInv

-----------------------------------------------------------------------------
(* The invariant holds of a store as a migration leaves it, or the first      *)
(* version, and every step keeps it.                                        *)
LEMMA InitHolds ==
  ASSUME Init
  PROVE  IInv
<1>1. /\ body \in [Conversation -> Body]
      /\ \A c \in Conversation : body[c].rev = 0 /\ body[c].claim = 0
  <2>1. [rev : {0}, session : Session \cup {NoSession}, claim : {0}] \subseteq Body
    BY DEF Body
  <2> QED
    BY <2>1 DEF Init
<1>2. /\ catalog = [rev |-> 0, entry |-> body, pending |-> {}]
      /\ op = [c \in Conversation |-> NoOp] /\ queue = Nobody /\ asks = {} /\ scan = NoScan
      /\ reader = Idle /\ mode = "starting"
      /\ \/ pointer = NoPointer /\ files = {}
         \/ pointer = PointerTo(OwnersIn(body)) /\ files = {pointer.of[h] : h \in Shard}
      /\ \A c, d \in Conversation :
           c # d /\ body[c].session = body[d].session => body[c].session = NoSession
  BY DEF Init
<1>3. /\ catalog \in Catalog /\ catalog.rev = 0 /\ catalog.pending = {} /\ catalog.entry = body
  <2>1. PICK b \in [Conversation -> Body] : b = body
    BY <1>1
  <2>2. [rev |-> 0, entry |-> b, pending |-> {}] \in Catalog
    BY DEF Catalog
  <2> QED
    BY <1>2, <2>1, <2>2
<1>4. op \in [Conversation -> Operation] /\ \A c \in Conversation : op[c] = NoOp
  BY <1>2, NoOpIs
<1>5. NoScan \in Scan
  BY NoScanTyped
<1>6. Idle \in Lookups /\ Idle.at = "idle"
  BY DEF Idle, Lookups
<1>7. PICK X \in SUBSET Owner :
        /\ X = OwnersIn(body) /\ IsFiniteSet(X)
        /\ \A o \in X : /\ o.conv \in Conversation /\ Timed(o)
                        /\ o.session = body[o.conv].session /\ o.claim = body[o.conv].claim
        /\ \A c \in Conversation : body[c].session # NoSession => \E o \in X : o.conv = c
  <2>1. PICK b \in [Conversation -> Body] : b = body
    BY <1>1
  <2>2. /\ OwnersIn(b) \subseteq Owner /\ IsFiniteSet(OwnersIn(b))
        /\ \A o \in OwnersIn(b) : /\ o.conv \in Conversation /\ Timed(o)
                                  /\ o.session = b[o.conv].session /\ o.claim = b[o.conv].claim
        /\ \A c \in Conversation : b[c].session # NoSession => \E o \in OwnersIn(b) : o.conv = c
    BY OwnersInIs
  <2>3. PICK X \in SUBSET Owner : X = OwnersIn(b)
    BY <2>2
  <2> QED
    BY <2>1, <2>2, <2>3
<1>8. \A o \in X : o.session \in Session /\ o \in OwnersIn(body) /\ body[o.conv].claim = 0
  BY <1>1, <1>7 DEF Owner
<1>9. HasIndex =>
         /\ pointer \in [of : [Shard -> BucketFile], count : Nat] /\ Indexed = X
         /\ pointer.count = Cardinality(X) /\ files = {pointer.of[h] : h \in Shard}
         /\ \A h \in Shard : /\ pointer.of[h] \in BucketFile /\ pointer.of[h].shard = h
                             /\ \A o \in pointer.of[h].owners : ShardOf(o.session) = h
  BY <1>2, <1>7, PointerToIs DEF HasIndex, Indexed
<1>10. TypeOK
  <2>1. pointer \in {NoPointer} \cup [of : [Shard -> BucketFile], count : Nat] /\ files \subseteq BucketFile
    <3>1. CASE HasIndex
      BY <1>9, <3>1
    <3>2. CASE ~HasIndex
      <4>1. pointer # PointerTo(OwnersIn(body))
        BY <1>7, <3>2, PointerToIs DEF HasIndex
      <4> QED
        BY <1>2, <3>2, <4>1
    <3> QED
      BY <3>1, <3>2
  <2> QED
    BY <1>1, <1>2, <1>3, <1>4, <1>5, <1>6, <2>1 DEF TypeOK
<1>11. \A c \in Conversation : ~Outside(c)
  BY <1>4, NoOpIs DEF Outside
<1>12. MarkerInv /\ IndexInv /\ IndexIsWhole /\ ShardsInv /\ OneOwner
  <2>1. MarkerInv
    BY <1>3 DEF MarkerInv
  <2>2. IndexInv
    BY <1>7, <1>9, <1>11 DEF IndexInv, Agrees, Was
  <2>3. IndexIsWhole
    BY <1>9 DEF IndexIsWhole
  <2>4. OneOwner
    BY <1>2 DEF OneOwner
  <2>5. ShardsInv
    <3>1. \A o, p \in X : o.session = p.session => o.conv = p.conv
      BY <1>2, <1>7, <1>8, OwnersAssumption
    <3>2. \A o \in X : o = OwnerOf(o.conv, body[o.conv])
      BY <1>7 DEF OwnersIn, OwnerOf
    <3> QED
      BY <1>7, <1>9, <3>1, <3>2 DEF ShardsInv
  <2> QED
    BY <2>1, <2>2, <2>3, <2>4, <2>5
<1>13. ModeInv /\ ScanInv /\ ReaderInv
  BY <1>2, <1>6, OwnersAssumption DEF ModeInv, ScanInv, NoScan, ReaderInv
<1>14. ASSUME NEW c \in Conversation PROVE OpInv(c) /\ ClaimInv(c) /\ BodyInv(c) /\ WrittenInv(c)
  BY <1>1, <1>2, <1>3, <1>4, <1>11, NoOpIs
     DEF OpInv, ClaimInv, BodyInv, WrittenInv, At, OnSession, Allocated, SameOwner
<1> QED
  BY <1>10, <1>12, <1>13, <1>14 DEF IInv

LEMMA StutterKeeps ==
  ASSUME IInv, UNCHANGED vars
  PROVE  IInv'
<1>1. UNCHANGED <<disk, body, catalog, pointer, files, op, queue, asks, scan, reader, mode>>
  BY DEF vars, disk, index
<1>2. reader' \in Lookups /\ catalog.rev \in Nat
  BY <1>1 DEF IInv, TypeOK, Catalog
<1>3. ReaderInv'
  BY <1>1, <1>2, ReaderStays DEF SameOwner
<1> QED
  BY <1>1, <1>2, <1>3, ReaderOnlyKeeps

LEMMA NextKeeps ==
  ASSUME IInv, Next
  PROVE  IInv'
<1>1. ASSUME NEW c \in Conversation, Enqueue(c) \/ Work(c) \/ Throw(c) PROVE IInv'
  BY <1>1, EnqueueKeeps, CheckKeeps, EnterKeeps, LookUpKeeps, AllocateKeeps, ScanBeginsKeeps,
     CommitKeeps, WriteBucketsKeeps, SwapPointerKeeps, PublishKeeps, ThrowKeeps DEF Work
<1>2. CASE Rebuild
  BY <1>2, ScanBeginsKeeps, ReadBodyKeeps, WriteAllBucketsKeeps, InstallIndexKeeps,
     FinishRebuildKeeps, RebuildFailsKeeps DEF Rebuild
<1>3. CASE Read
  BY <1>3, AskKeeps, ReadBeforeKeeps, ReadPointerKeeps, ReadBucketKeeps, ReadAfterKeeps DEF Read
<1>4. CASE Ensure \/ Crash
  BY <1>4, EnsureKeeps, CrashKeeps
<1> QED
  BY <1>1, <1>2, <1>3, <1>4 DEF Next

-----------------------------------------------------------------------------
(* The results.                                                            *)

(* IInv is an invariant, whatever order claims, rebuilds, lookups, failures   *)
(* and crashes come in.                                                    *)
THEOREM OwnersInvariant == Spec => []IInv
<1>1. Init => IInv
  BY InitHolds
<1>2. IInv /\ [Next]_vars => IInv'
  BY NextKeeps, StutterKeeps
<1> QED
  BY <1>1, <1>2, PTL DEF Spec

(* What is on disk and what is under way have their types.                  *)
THEOREM TypeCorrect == Spec => []TypeOK
<1>1. IInv => TypeOK
  BY DEF IInv
<1> QED
  BY <1>1, OwnersInvariant, PTL

(* Two conversations never hold the same session in their own files:         *)
(* claimSessionOwnership finds the claim of another even when that stopped    *)
(* after its commit, before the index knew.                                 *)
THEOREM OneOwnerAlways == Spec => []OneOwner
<1>1. IInv => OneOwner
  BY DEF IInv
<1> QED
  BY <1>1, OwnersInvariant, PTL

(* The index names whole buckets and counts them right; with no marker left   *)
(* it answers with the owners in the conversations, and the catalog confirms  *)
(* every claim, so that loadSessionOwner succeeds.                          *)
THEOREM OwnersAgree == Spec => []OwnersResolve
<1>1. ASSUME IInv PROVE OwnersResolve
  <2> SUFFICES ASSUME HasIndex, catalog.pending = {}
               PROVE  /\ \A s \in Session : {<<o.conv, o.claim>> : o \in Lookup(s)} = Owning(s)
                      /\ \A o \in Indexed : Matches(o, catalog.entry) \/ o.claim = 0
    BY <1>1 DEF OwnersResolve, IInv
  <2>1. ASSUME NEW s \in Session PROVE {<<o.conv, o.claim>> : o \in Lookup(s)} = Owning(s)
    BY <1>1, LookupsOwn DEF Pairs
  <2>2. ASSUME NEW o \in Indexed, o.claim # 0 PROVE Matches(o, catalog.entry)
    <3>1. o \in Owner
      BY <1>1 DEF Indexed, IInv, TypeOK, BucketFile, HasIndex
    <3>2. o.conv \in Conversation /\ o = [session |-> o.session, conv |-> o.conv, claim |-> o.claim, at |-> o.at]
      BY <3>1 DEF Owner
    <3>3. Agrees /\ ~Outside(o.conv)
      BY <1>1, <3>2 DEF IInv, IndexInv, Dead, OpInv, Outside, Allocated
    <3>4. o.session = body[o.conv].session /\ o.claim = body[o.conv].claim
      BY <3>3 DEF Agrees, Was
    <3>5. SameOwner(catalog.entry[o.conv], body[o.conv])
      BY <1>1, <3>2 DEF IInv, BodyInv
    <3>6. o.at = o.claim
      BY <1>1, <2>2 DEF IInv, ShardsInv, Timed
    <3> QED
      BY <2>2, <3>2, <3>4, <3>5, <3>6 DEF Matches, OwnerOf, SameOwner
  <2> QED
    BY <2>1, <2>2
<1> QED
  BY <1>1, OwnersInvariant, PTL

(* A lookup that answers (loadSessionOwner) says who owns the session at that *)
(* moment, whatever happened between its reads.                             *)
THEOREM LookupsAreTrue == Spec => AnswersAreTrue
<1> DEFINE A == reader.at = "after" /\ reader'.at = "answered" =>
                  {<<o.conv, o.claim>> : o \in reader.found} = Owning(reader.session)
<1>1. ASSUME IInv, Next, reader.at = "after", reader'.at = "answered"
      PROVE  {<<o.conv, o.claim>> : o \in reader.found} = Owning(reader.session)
  <2>1. PICK r \in Lookups : r = reader
    BY <1>1 DEF IInv, TypeOK
  <2>2. reader' # reader
    BY <1>1
  <2>3. \A c \in Conversation : ~(Enqueue(c) \/ Work(c) \/ Throw(c))
    BY <2>2 DEF Enqueue, Work, Throw, Check, Enter, LookUp, Allocate, RebuildToAllocate, Commit,
                WriteBuckets, SwapPointer, Publish
  <2>4. ~Rebuild /\ ~Ensure
    BY <2>2 DEF Rebuild, RebuildAsked, ReadBody, WriteAllBuckets, InstallIndex, FinishRebuild,
                RebuildFails, Ensure
  <2>5. ~Crash /\ ~GiveUp
    BY <1>1 DEF Crash, GiveUp, Idle
  <2>6. ~ReadBefore /\ ~ReadPointer /\ ~ReadBucket /\ \A s \in Session : ~Ask(s)
    BY <1>1 DEF ReadBefore, ReadPointer, ReadBucket, Ask
  <2>7. ReadAfter
    BY <1>1, <2>3, <2>4, <2>5, <2>6 DEF Next, Read
  <2>8. catalog = reader.catalog
    <3>1. [Idle EXCEPT !.at = "before", !.session = reader.session].at = "before"
      BY DEF Idle
    <3> QED
      BY <1>1, <2>7, <3>1 DEF ReadAfter
  <2> QED
    BY <1>1, <2>8 DEF IInv, ReaderInv, Pairs
<1>2. IInv /\ [Next]_vars => [A]_vars
  BY <1>1
<1> QED
  BY <1>2, OwnersInvariant, PTL DEF Spec, AnswersAreTrue

=============================================================================
