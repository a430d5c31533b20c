----------------------- MODULE ConversationCatalogProofs -----------------------
(***************************************************************************)
(* Proofs about ConversationCatalog, for any set of conversations and any   *)
(* bound on the revisions: that revisions are fresh, that the catalog never *)
(* announces what is not in the files, and that what it lags behind on is   *)
(* marked, unless a rebuild took the marker.                                *)
(***************************************************************************)
EXTENDS ConversationCatalog, TLAPS

-----------------------------------------------------------------------------
(* The inductive invariant, in parts.                                      *)

Allocated == {"seed", "commit", "meta", "publish"}
Uncommitted == {"seed", "commit"}

(* The files of a conversation, and the operation on it.  A conversation    *)
(* with a revision is whole; meta.json follows the run-state, and both the  *)
(* catalog's counter.  An operation has a revision above the one on disk    *)
(* until it commits, and the one on disk from then on.                      *)
FilesInv(c) ==
  /\ meta[c] <= body[c].rev /\ body[c].rev <= catalog.rev
  /\ body[c].rev > 0 => body[c].files = "whole"
  /\ op[c].at \in Allocated => op[c].rev <= catalog.rev
  /\ op[c].at \notin Allocated => local[c] = {}
  /\ op[c].at = "allocate" => body[c].files \in {"none", "whole"}
  /\ op[c].at \in Uncommitted => body[c].rev < op[c].rev
  /\ op[c].at = "seed" => body[c].rev = 0
  /\ op[c].at \in {"commit", "meta", "publish"} => body[c].files = "whole"
  /\ op[c].at \in {"meta", "publish"} => op[c].rev = body[c].rev /\ op[c].rev > 0
  /\ op[c].at = "publish" => meta[c] = op[c].rev

(* No two conversations have a revision in common, on disk or on its way    *)
(* there.                                                                  *)
Held(c) == {body[c].rev} \cup (IF op[c].at \in Uncommitted THEN {op[c].rev} ELSE {})
Apart(c, d) == c # d => Held(c) \cap Held(d) \subseteq {0}

(* What the catalog lists is whole on disk, and not older there.            *)
ListedInv(c) == c \in catalog.listed => body[c].files = "whole" /\ catalog.entry[c] <= meta[c]

(* A marker of a creation: no rebuild lists the conversation for a body as  *)
(* old as the seed's.                                                      *)
Creation(m, c) == m.conv = c /\ ~m.was /\ m.rev > 0

(* Markers: an operation's conversation has no other marker than the        *)
(* operation's own; it has that one until the commit, unless a rebuild read *)
(* the body in between.  A marker of a creation ahead of the body is ahead  *)
(* of a body that was only seeded.                                         *)
MarkerInv(c) ==
  /\ op[c].at \in Allocated => \A m \in catalog.pending : m.conv = c => m.rev = op[c].rev
  /\ op[c].at \in Uncommitted => Marked(c) \/ c \in robbed
  /\ op[c].at = "seed" => c \in robbed \/ \E m \in catalog.pending : Creation(m, c)
  /\ \A m \in catalog.pending :
       m.conv = c => /\ m.rev > 0
                     /\ ~m.was /\ body[c].rev < m.rev => body[c].rev = 0 \/ c \in robbed
  /\ HasBody(c) /\ body[c].rev = 0
       => c \in skipped \cup robbed \/ \E m \in catalog.pending : Creation(m, c)

(* The property LagsOnlyWhenRobbed, of one conversation.                    *)
LagInv(c) ==
  /\ body[c].rev > 0 /\ ~Current(c) => Marked(c) \/ c \in robbed
  /\ c \in catalog.listed /\ body[c].rev = 0 => c \in skipped \cup robbed

(* What a rebuild has found out of a conversation it has read still holds,  *)
(* unless it overtook the commit of an operation.                          *)
ScanInv ==
  queue = Reader =>
    /\ scan.for \in Asker /\ scan.entry \in [Conversation -> Revisions]
    /\ scan.pending = catalog.pending /\ scan.listed \cap scan.todo = {}
    /\ \A c \in scan.listed : body[c].files = "whole" /\ scan.entry[c] <= meta[c]
    /\ \A c \in Conversation \ scan.todo :
         \/ c \in robbed
         \/ /\ op[c].at \notin Uncommitted
            /\ c \in scan.listed => scan.entry[c] = body[c].rev
            /\ c \notin scan.listed => body[c].rev = 0
            /\ HasBody(c) /\ body[c].rev = 0 => c \in skipped

IInv ==
  /\ TypeOK /\ ScanInv
  /\ \A c \in Conversation : FilesInv(c) /\ ListedInv(c) /\ MarkerInv(c) /\ LagInv(c)
  /\ \A c, d \in Conversation : Apart(c, d)

(* Markers stay what they are when nothing is written and no operation goes *)
(* further than to what it was before.                                     *)
LEMMA MarkersStay ==
  ASSUME NEW d, MarkerInv(d), UNCHANGED <<catalog, body, history>>,
         op'[d].at \in Allocated => op[d].at \in Allocated /\ op'[d].rev = op[d].rev,
         op'[d].at \in Uncommitted => op[d].at \in Uncommitted,
         op'[d].at = "seed" => op[d].at = "seed"
  PROVE  MarkerInv(d)'
BY DEF MarkerInv, Marked, HasBody, history

(* What a rebuild has found holds on through steps that write nothing it    *)
(* has read, except for the operations it overtook.                        *)
LEMMA ScanStays ==
  ASSUME TypeOK, ScanInv, UNCHANGED <<catalog, scan, history>>, queue' = Reader => queue = Reader,
         \A d \in Conversation : meta'[d] \in Nat /\ meta[d] <= meta'[d],
         \A d \in Conversation : body[d].files = "whole" => body'[d].files = "whole",
         \A d \in Conversation :
           op[d].at \notin Uncommitted => op'[d].at \notin Uncommitted /\ body'[d] = body[d]
  PROVE  ScanInv'
<1> SUFFICES ASSUME queue = Reader PROVE ScanInv'
  BY DEF ScanInv
<1> USE DEF history
<1>1. \A d \in scan.listed : body'[d].files = "whole" /\ scan.entry[d] <= meta'[d]
  <2> TAKE d \in scan.listed
  <2>1. d \in Conversation /\ scan.entry[d] \in Nat /\ meta[d] \in Nat
    BY DEF TypeOK, ScanInv, Revisions
  <2>2. body[d].files = "whole" /\ scan.entry[d] <= meta[d] /\ meta[d] <= meta'[d] /\ meta'[d] \in Nat
    BY <2>1 DEF ScanInv
  <2> QED
    BY <2>1, <2>2
<1> QED
  BY <1>1 DEF ScanInv, HasBody

-----------------------------------------------------------------------------
(* Lemmas about the steps.                                                 *)

Operation == [at : Steps, kind : {"none", "mutate", "claim"}, rev : Revisions]

(* An operation goes on to a step; nothing else about operations changes.   *)
LEMMA GotoMoves ==
  ASSUME TypeOK, NEW c \in Conversation, NEW step \in Steps, Goto(c, step)
  PROVE  /\ op' \in [Conversation -> Operation]
         /\ op'[c].at = step /\ op'[c].rev = op[c].rev /\ op'[c].kind = op[c].kind
         /\ \A d \in Conversation \ {c} : op'[d] = op[d]
BY DEF TypeOK, Goto, Operation

(* A settled operation is gone, and so are its local revisions.             *)
LEMMA SettleEnds ==
  ASSUME TypeOK, NEW c \in Conversation, Settle(c)
  PROVE  /\ op' \in [Conversation -> Operation] /\ local' \in [Conversation -> SUBSET Revisions]
         /\ op'[c] = NoOp /\ op'[c].at = "none" /\ local'[c] = {}
         /\ \A d \in Conversation \ {c} : op'[d] = op[d] /\ local'[d] = local[d]
<1>1. NoOp \in Operation /\ NoOp.at = "none"
  BY DEF NoOp, Operation, Steps, Revisions
<1>2. op \in [Conversation -> Operation] /\ local \in [Conversation -> SUBSET Revisions]
  BY DEF TypeOK, Operation
<1> QED
  BY <1>1, <1>2 DEF Settle

(* Revisions stay apart if no conversation takes a new one.                 *)
LEMMA StayApart ==
  ASSUME \A d, e \in Conversation : Apart(d, e),
         \A d \in Conversation : Held(d)' \subseteq Held(d)
  PROVE  \A d, e \in Conversation : Apart(d, e)'
BY DEF Apart

(* The highest of a set that has a highest element.                        *)
LEMMA HighestIs ==
  ASSUME NEW S \in SUBSET Nat, NEW m \in S, \A x \in S : x <= m
  PROVE  HighestOf(S) = m
<1>1. \A y \in S : y <= HighestOf(S)
  BY DEF HighestOf
<1>2. HighestOf(S) \in S
  BY DEF HighestOf
<1>3. m \in Nat /\ HighestOf(S) \in Nat /\ m <= HighestOf(S) /\ HighestOf(S) <= m
  BY <1>1, <1>2
<1> QED
  BY <1>3

-----------------------------------------------------------------------------
(* A queued operation has not allocated anything.                          *)
LEMMA EnqueueKeeps ==
  ASSUME IInv, NEW c \in Conversation, NEW kind \in {"mutate", "claim"}, Enqueue(c, kind)
  PROVE  IInv'
<1> USE CatalogAssumption DEF disk, history, Asker, At, CanUseQueue
<1>1. TypeOK'
  BY DEF Enqueue, IInv, TypeOK, Steps, Revisions
<1>2. ScanInv'
  BY DEF Enqueue, IInv, ScanInv, HasBody, Uncommitted
<1>3. ASSUME NEW d \in Conversation PROVE FilesInv(d)'
  BY DEF Enqueue, IInv, FilesInv, Allocated, Uncommitted
<1>4. ASSUME NEW d \in Conversation PROVE ListedInv(d)'
  BY DEF Enqueue, IInv, ListedInv
<1>5. ASSUME NEW d \in Conversation PROVE MarkerInv(d)'
  BY DEF Enqueue, IInv, MarkerInv, Marked, HasBody, Allocated, Uncommitted
<1>6. ASSUME NEW d \in Conversation PROVE LagInv(d)'
  BY DEF Enqueue, IInv, LagInv, Marked, Current
<1>7. \A d, e \in Conversation : Apart(d, e)'
  <2>1. ASSUME NEW d \in Conversation PROVE Held(d)' \subseteq Held(d)
    BY DEF Enqueue, IInv, TypeOK, Held, Uncommitted, NoOp
  <2> QED
    BY <2>1, StayApart DEF IInv
<1> QED
  BY <1>1, <1>2, <1>3, <1>4, <1>5, <1>6, <1>7 DEF IInv

(* Having found the catalog clean, an operation only goes on.              *)
LEMMA CheckCleanKeeps ==
  ASSUME IInv, NEW c \in Conversation, CheckClean(c)
  PROVE  IInv'
<1> USE CatalogAssumption DEF disk, history, Asker, At, CanUseQueue
<1>0. /\ op' \in [Conversation -> Operation]
      /\ op'[c].at = "enter" /\ op'[c].rev = op[c].rev
      /\ \A d \in Conversation \ {c} : op'[d] = op[d]
  BY GotoMoves DEF IInv, Steps, CheckClean
<1>1. TypeOK'
  BY <1>0 DEF CheckClean, IInv, TypeOK, Operation
<1>2. ScanInv'
  BY <1>0 DEF CheckClean, IInv, TypeOK, ScanInv, Revisions, HasBody, NoOp, NoScan, Uncommitted
<1>3. ASSUME NEW d \in Conversation PROVE FilesInv(d)'
  BY <1>0 DEF CheckClean, IInv, FilesInv, Allocated, Uncommitted, Revisions
<1>4. ASSUME NEW d \in Conversation PROVE ListedInv(d)'
  BY DEF CheckClean, IInv, ListedInv
<1>5. ASSUME NEW d \in Conversation PROVE MarkerInv(d)'
  BY <1>0 DEF CheckClean, IInv, FilesInv, MarkerInv, ScanInv, Revisions, Marked, Creation, HasBody, Uncommitted, Markers
<1>6. ASSUME NEW d \in Conversation PROVE LagInv(d)'
  BY DEF CheckClean, IInv, LagInv, Marked, Current
<1>7. \A d, e \in Conversation : Apart(d, e)'
  <2>1. ASSUME NEW d \in Conversation PROVE Held(d)' \subseteq Held(d)
    BY <1>0 DEF CheckClean, Held, Uncommitted, NoOp
  <2> QED
    BY <2>1, StayApart DEF IInv
<1> QED
  BY <1>1, <1>2, <1>3, <1>4, <1>5, <1>6, <1>7 DEF IInv

(* Having found a dead marker, an operation only asks for a rebuild.       *)
LEMMA CheckDeadKeeps ==
  ASSUME IInv, NEW c \in Conversation, CheckDead(c)
  PROVE  IInv'
<1> USE CatalogAssumption DEF disk, history, Asker, At, CanUseQueue
<1>0. /\ op' \in [Conversation -> Operation]
      /\ op'[c].at = "repair" /\ op'[c].rev = op[c].rev
      /\ \A d \in Conversation \ {c} : op'[d] = op[d]
  BY GotoMoves DEF IInv, Steps, CheckDead
<1>1. TypeOK'
  BY <1>0 DEF CheckDead, IInv, TypeOK, Operation
<1>2. ScanInv'
  BY <1>0 DEF CheckDead, IInv, ScanInv, Revisions, HasBody, NoOp, NoScan, Uncommitted
<1>3. ASSUME NEW d \in Conversation PROVE FilesInv(d)'
  BY <1>0 DEF CheckDead, IInv, FilesInv, Allocated, Uncommitted, Revisions
<1>4. ASSUME NEW d \in Conversation PROVE ListedInv(d)'
  BY DEF CheckDead, IInv, ListedInv
<1>5. ASSUME NEW d \in Conversation PROVE MarkerInv(d)'
  BY <1>0 DEF CheckDead, IInv, FilesInv, MarkerInv, Revisions, Marked, HasBody, Allocated, Uncommitted
<1>6. ASSUME NEW d \in Conversation PROVE LagInv(d)'
  BY DEF CheckDead, IInv, LagInv, Marked, Current
<1>7. \A d, e \in Conversation : Apart(d, e)'
  <2>1. ASSUME NEW d \in Conversation PROVE Held(d)' \subseteq Held(d)
    BY <1>0 DEF CheckDead, Held, Uncommitted, NoOp
  <2> QED
    BY <2>1, StayApart DEF IInv
<1> QED
  BY <1>1, <1>2, <1>3, <1>4, <1>5, <1>6, <1>7 DEF IInv

(* An operation that enters finds a body that is whole, or none at all.    *)
LEMMA EnterKeeps ==
  ASSUME IInv, NEW c \in Conversation, Enter(c)
  PROVE  IInv'
<1> USE CatalogAssumption DEF disk, history, Asker, At, CanUseQueue
<1>0. \E step \in {"allocate", "check"} :
         /\ op' \in [Conversation -> Operation]
         /\ op'[c].at = step /\ op'[c].rev = op[c].rev
         /\ \A d \in Conversation \ {c} : op'[d] = op[d]
         /\ step = "allocate" => body[c].files \in {"none", "whole"}
  BY GotoMoves DEF IInv, Steps, Enter
<1>01. queue' \in {queue, c} /\ (queue' = Reader => queue = Reader) /\ op[c].at = "enter"
  BY DEF Enter
<1>02. UNCHANGED <<disk, local, asks, scan, history>>
  BY DEF Enter
<1>1. TypeOK'
  BY <1>0, <1>01, <1>02 DEF IInv, TypeOK, Operation
<1>2. ScanInv'
  BY <1>0, <1>01, <1>02 DEF IInv, ScanInv, HasBody, Uncommitted
<1>3. ASSUME NEW d \in Conversation PROVE FilesInv(d)'
  BY <1>0, <1>01, <1>02 DEF IInv, FilesInv, Allocated, Uncommitted
<1>4. ASSUME NEW d \in Conversation PROVE ListedInv(d)'
  BY <1>02 DEF IInv, ListedInv
<1>5. ASSUME NEW d \in Conversation PROVE MarkerInv(d)'
  BY <1>0, <1>02 DEF IInv, FilesInv, MarkerInv, Marked, Creation, HasBody, Allocated, Uncommitted
<1>6. ASSUME NEW d \in Conversation PROVE LagInv(d)'
  BY <1>02 DEF IInv, LagInv, Marked, Current
<1>7. \A d, e \in Conversation : Apart(d, e)'
  <2>1. ASSUME NEW d \in Conversation PROVE Held(d)' \subseteq Held(d)
    BY <1>0, <1>02 DEF Held, Uncommitted
  <2> QED
    BY <2>1, StayApart DEF IInv
<1> QED
  BY <1>1, <1>2, <1>3, <1>4, <1>5, <1>6, <1>7 DEF IInv

(* A refused operation leaves the half seeded body with its marker.        *)
LEMMA RefusedKeeps ==
  ASSUME IInv, NEW c \in Conversation, Refused(c)
  PROVE  IInv'
<1> USE CatalogAssumption DEF disk, history, Asker, At, CanUseQueue
<1>0. /\ op' \in [Conversation -> Operation] /\ local' \in [Conversation -> SUBSET Revisions]
      /\ op'[c].at = "none" /\ local'[c] = {}
      /\ \A d \in Conversation \ {c} : op'[d] = op[d] /\ local'[d] = local[d]
  BY SettleEnds DEF IInv, Refused
<1>1. TypeOK'
  BY <1>0 DEF Refused, IInv, TypeOK, Operation
<1>2. ScanInv'
  BY <1>0 DEF Refused, IInv, ScanInv, HasBody, NoOp, NoScan, Uncommitted
<1>3. ASSUME NEW d \in Conversation PROVE FilesInv(d)'
  BY <1>0 DEF Refused, IInv, FilesInv, Allocated, Uncommitted
<1>4. ASSUME NEW d \in Conversation PROVE ListedInv(d)'
  BY DEF Refused, IInv, ListedInv
<1>5. ASSUME NEW d \in Conversation PROVE MarkerInv(d)'
  BY <1>0 DEF Refused, IInv, MarkerInv, Marked, HasBody, Allocated, Uncommitted
<1>6. ASSUME NEW d \in Conversation PROVE LagInv(d)'
  BY DEF Refused, IInv, LagInv, Marked, Current
<1>7. \A d, e \in Conversation : Apart(d, e)'
  <2>1. ASSUME NEW d \in Conversation PROVE Held(d)' \subseteq Held(d)
    BY <1>0 DEF Refused, Held, Uncommitted
  <2> QED
    BY <2>1, StayApart DEF IInv
<1> QED
  BY <1>1, <1>2, <1>3, <1>4, <1>5, <1>6, <1>7 DEF IInv

(* The allocated revision is above all there are, and the operation's      *)
(* marker is the only one of its conversation: a dead one would have       *)
(* stopped it.                                                             *)
LEMMA AllocateKeeps ==
  ASSUME IInv, NEW c \in Conversation, Allocate(c)
  PROVE  IInv'
<1> USE CatalogAssumption DEF disk, history, Asker, At, CanUseQueue
<1>00. catalog.rev \in Nat
  BY DEF IInv, TypeOK, Revisions
<1>0. /\ catalog' \in [rev : Revisions, listed : SUBSET Conversation,
                      entry : [Conversation -> Revisions], pending : SUBSET Markers]
      /\ op' \in [Conversation -> Operation] /\ local' \in [Conversation -> SUBSET Revisions]
  <2>1. Marker(c, catalog.rev + 1, c \in catalog.listed) \in Markers
    <3>1. \A r \in Nat, was \in BOOLEAN : Marker(c, r, was) \in Markers
      BY DEF Marker, Markers, Revisions
    <3>2. (c \in catalog.listed) \in BOOLEAN
      OBVIOUS
    <3>3. catalog.rev + 1 \in Nat
      BY <1>00
    <3> QED
      BY <3>1, <3>2, <3>3, Zenon
  <2>2. catalog.rev + 1 \in Revisions
    BY DEF IInv, TypeOK, Revisions
  <2> QED
    BY <2>1 DEF IInv, TypeOK, Allocate
<1>1. TypeOK'
  BY DEF Allocate, Marker, IInv, TypeOK
<1>2. ScanInv'
  BY DEF Allocate, ScanInv
<1>3. ASSUME NEW d \in Conversation PROVE FilesInv(d)'
  BY DEF Allocate, IInv, TypeOK
<1>4. ASSUME NEW d \in Conversation PROVE ListedInv(d)'
  BY DEF Allocate, IInv, TypeOK
<1>5. ASSUME NEW d \in Conversation PROVE MarkerInv(d)'
  BY DEF Allocate, IInv, TypeOK, ScanInv
<1>6. ASSUME NEW d \in Conversation PROVE LagInv(d)'
  BY DEF Allocate, IInv, TypeOK
<1>7. ASSUME NEW d \in Conversation, NEW e \in Conversation PROVE Apart(d, e)'
  BY <1>0 DEF Allocate, IInv, TypeOK, Held, Revisions, Uncommitted
<1> QED
  BY <1>1, <1>2, <1>3, <1>4, <1>5, <1>6, <1>7 DEF IInv

(* A deferred operation has allocated nothing.                             *)
LEMMA DeferredKeeps ==
  ASSUME IInv, NEW c \in Conversation, Deferred(c)
  PROVE  IInv'
<1> USE CatalogAssumption DEF disk, history, Asker, At, CanUseQueue
<1>0. /\ op' \in [Conversation -> Operation] /\ local' \in [Conversation -> SUBSET Revisions]
      /\ op'[c].at = "none" /\ local'[c] = {}
      /\ \A d \in Conversation \ {c} : op'[d] = op[d] /\ local'[d] = local[d]
  BY SettleEnds DEF IInv, Deferred
<1>1. TypeOK'
  BY <1>0 DEF Deferred, IInv, TypeOK, Operation
<1>2. ScanInv'
  BY DEF Deferred, ScanInv
<1>3. ASSUME NEW d \in Conversation PROVE FilesInv(d)'
  BY <1>0 DEF Deferred, IInv, FilesInv, Allocated, Uncommitted, Revisions
<1>4. ASSUME NEW d \in Conversation PROVE ListedInv(d)'
  BY DEF Deferred, IInv, ListedInv
<1>5. ASSUME NEW d \in Conversation PROVE MarkerInv(d)'
  BY <1>0 DEF Deferred, IInv, MarkerInv, Marked, HasBody, Allocated, Uncommitted
<1>6. ASSUME NEW d \in Conversation PROVE LagInv(d)'
  BY DEF Deferred, IInv, LagInv, Marked, Current
<1>7. \A d, e \in Conversation : Apart(d, e)'
  <2>1. ASSUME NEW d \in Conversation PROVE Held(d)' \subseteq Held(d)
    BY <1>0 DEF Deferred, Held, Uncommitted
  <2> QED
    BY <2>1, StayApart DEF IInv
<1> QED
  BY <1>1, <1>2, <1>3, <1>4, <1>5, <1>6, <1>7 DEF IInv

(* A rebuild before an allocation starts with nothing read.                *)
LEMMA RebuildToAllocateKeeps ==
  ASSUME IInv, NEW c \in Conversation, RebuildToAllocate(c)
  PROVE  IInv'
<1> USE CatalogAssumption DEF disk, history, Asker, At, CanUseQueue
<1>1. TypeOK'
  BY DEF RebuildToAllocate, StartScan, IInv, TypeOK, Revisions
<1>2. ScanInv'
  BY DEF RebuildToAllocate, StartScan, ScanInv, Revisions
<1>3. ASSUME NEW d \in Conversation PROVE FilesInv(d)'
  BY DEF RebuildToAllocate, IInv, FilesInv
<1>4. ASSUME NEW d \in Conversation PROVE ListedInv(d)'
  BY DEF RebuildToAllocate, IInv, ListedInv
<1>5. ASSUME NEW d \in Conversation PROVE MarkerInv(d)'
  BY DEF RebuildToAllocate, IInv, MarkerInv, Marked, HasBody
<1>6. ASSUME NEW d \in Conversation PROVE LagInv(d)'
  BY DEF RebuildToAllocate, IInv, LagInv, Marked, Current
<1>7. \A d, e \in Conversation : Apart(d, e)'
  <2>1. ASSUME NEW d \in Conversation PROVE Held(d)' \subseteq Held(d)
    BY DEF RebuildToAllocate, Held
  <2> QED
    BY <2>1, StayApart DEF IInv
<1> QED
  BY <1>1, <1>2, <1>3, <1>4, <1>5, <1>6, <1>7 DEF IInv

(* Seeding a body: it stays at revision 0, behind the marker of its        *)
(* creation.                                                               *)
LEMMA SeedKeeps ==
  ASSUME IInv, NEW c \in Conversation, Seed(c)
  PROVE  IInv'
<1> USE CatalogAssumption DEF disk, history, Asker, At, CanUseQueue
<1>0. /\ op' \in [Conversation -> Operation]
      /\ body' \in [Conversation -> [files : {"none", "snapshot", "runState", "whole"}, rev : Revisions]]
      /\ op'[c].at \in {"seed", "commit"} /\ op'[c].rev = op[c].rev
      /\ op'[c].at = "commit" => body'[c].files = "whole"
      /\ \A d \in Conversation \ {c} : op'[d] = op[d] /\ body'[d] = body[d]
      /\ \A d \in Conversation : body'[d].rev = body[d].rev
      /\ body[c].files = "whole" => body'[c].files = "whole"
  <2>1. CASE Goto(c, "commit") /\ body' = [body EXCEPT ![c].files = "whole"]
    BY <2>1, GotoMoves DEF IInv, TypeOK, Steps
  <2>2. CASE /\ body[c].files \in {"none", "snapshot"} /\ UNCHANGED op
             /\ \E f \in {"snapshot", "runState"} : body' = [body EXCEPT ![c].files = f]
    BY <2>2 DEF IInv, TypeOK, Seed, Operation, At
  <2> QED
    BY <2>1, <2>2 DEF Seed
<1>01. op[c].at = "seed" /\ UNCHANGED <<catalog, meta, local, queue, asks, scan, history>>
  BY DEF Seed
<1>1. TypeOK'
  BY <1>0, <1>01 DEF IInv, TypeOK, Operation
<1>2. ScanInv'
  <2>1. \A d \in Conversation : op[d].at \notin Uncommitted => op'[d].at \notin Uncommitted /\ body'[d] = body[d]
    BY <1>0, <1>01 DEF Uncommitted
  <2>2. \A d \in Conversation : body[d].files = "whole" => body'[d].files = "whole"
    BY <1>0
  <2>3. \A d \in Conversation : meta'[d] \in Nat /\ meta[d] <= meta'[d]
    BY <1>01 DEF IInv, TypeOK, Revisions
  <2> QED
    BY <1>01, <2>1, <2>2, <2>3, ScanStays DEF IInv
<1>3. ASSUME NEW d \in Conversation PROVE FilesInv(d)'
  BY <1>0, <1>01 DEF IInv, FilesInv, Allocated, Uncommitted
<1>4. ASSUME NEW d \in Conversation PROVE ListedInv(d)'
  BY <1>0, <1>01 DEF IInv, ListedInv, Revisions
<1>5. ASSUME NEW d \in Conversation PROVE MarkerInv(d)'
  <2>1. CASE d # c
    BY <1>0, <1>01, <2>1 DEF IInv, MarkerInv, Marked, HasBody
  <2>2. CASE d = c
    BY <1>0, <1>01, <2>2 DEF IInv, MarkerInv, Marked, Allocated, Uncommitted
  <2> QED
    BY <2>1, <2>2
<1>6. ASSUME NEW d \in Conversation PROVE LagInv(d)'
  BY <1>0, <1>01 DEF IInv, LagInv, Marked, Current
<1>7. \A d, e \in Conversation : Apart(d, e)'
  <2>1. ASSUME NEW d \in Conversation PROVE Held(d)' \subseteq Held(d)
    BY <1>0, <1>01 DEF Held, Uncommitted
  <2> QED
    BY <2>1, StayApart DEF IInv
<1> QED
  BY <1>1, <1>2, <1>3, <1>4, <1>5, <1>6, <1>7 DEF IInv

(* The commit puts the operation's revision in the files; its marker, or a *)
(* rebuild that overtook it, accounts for the catalog's lag.               *)
LEMMA CommitKeeps ==
  ASSUME IInv, NEW c \in Conversation, Commit(c)
  PROVE  IInv'
<1> USE CatalogAssumption DEF disk, history, Asker, At, CanUseQueue
<1>0. /\ op' \in [Conversation -> Operation]
      /\ op'[c].at = "meta" /\ op'[c].rev = op[c].rev
      /\ \A d \in Conversation \ {c} : op'[d] = op[d]
  BY GotoMoves DEF IInv, Steps, Commit
<1>01. /\ body' \in [Conversation -> [files : {"none", "snapshot", "runState", "whole"}, rev : Revisions]]
       /\ body'[c].rev = op[c].rev /\ body'[c].files = body[c].files
       /\ \A d \in Conversation \ {c} : body'[d] = body[d]
  BY DEF IInv, TypeOK, Commit
<1>1. TypeOK'
  BY <1>0, <1>01 DEF Commit, IInv, TypeOK, Operation
<1>2. ScanInv'
  BY <1>0 DEF Commit, IInv, ScanInv, HasBody, Uncommitted, FilesInv
<1>3. ASSUME NEW d \in Conversation PROVE FilesInv(d)'
  BY <1>0 DEF Commit, IInv, TypeOK, FilesInv, Allocated, Uncommitted, Revisions
<1>4. ASSUME NEW d \in Conversation PROVE ListedInv(d)'
  BY DEF Commit, IInv, ListedInv
<1>5. ASSUME NEW d \in Conversation PROVE MarkerInv(d)'
  BY <1>0, <1>01 DEF Commit, IInv, MarkerInv, Revisions, Marked, HasBody, Allocated, Uncommitted
<1>6. ASSUME NEW d \in Conversation PROVE LagInv(d)'
  BY <1>01 DEF Commit, IInv, TypeOK, FilesInv, LagInv, MarkerInv, Revisions, Marked, Current, Uncommitted
<1>7. \A d, e \in Conversation : Apart(d, e)'
  <2>1. ASSUME NEW d \in Conversation PROVE Held(d)' \subseteq Held(d)
    BY <1>0 DEF Commit, Held, Uncommitted
  <2> QED
    BY <2>1, StayApart DEF IInv
<1> QED
  BY <1>1, <1>2, <1>3, <1>4, <1>5, <1>6, <1>7 DEF IInv

(* meta.json follows the run-state before the entry is published.          *)
LEMMA WriteMetaKeeps ==
  ASSUME IInv, NEW c \in Conversation, WriteMeta(c)
  PROVE  IInv'
<1> USE CatalogAssumption DEF disk, history, Asker, At, CanUseQueue
<1>0. /\ op' \in [Conversation -> Operation]
      /\ op'[c].at = "publish" /\ op'[c].rev = op[c].rev
      /\ \A d \in Conversation \ {c} : op'[d] = op[d]
  BY GotoMoves DEF IInv, Steps, WriteMeta
<1>01. meta' \in [Conversation -> Revisions]
  BY DEF IInv, TypeOK, WriteMeta
<1>1. TypeOK'
  BY <1>0, <1>01 DEF WriteMeta, IInv, TypeOK, Operation
<1>2. ScanInv'
  <2>1. \A d \in Conversation : op[d].at \notin Uncommitted => op'[d].at \notin Uncommitted /\ body'[d] = body[d]
    BY <1>0 DEF WriteMeta, Uncommitted
  <2>2. \A d \in Conversation : meta'[d] \in Nat /\ meta[d] <= meta'[d]
    BY <1>01 DEF IInv, TypeOK, FilesInv, WriteMeta, Revisions
  <2>3. UNCHANGED <<catalog, body, scan, queue, history>>
    BY DEF WriteMeta
  <2> QED
    BY <2>1, <2>2, <2>3, ScanStays DEF IInv
<1>3. ASSUME NEW d \in Conversation PROVE FilesInv(d)'
  BY <1>0, <1>01 DEF WriteMeta, IInv, FilesInv, Allocated, Uncommitted, Revisions
<1>4. ASSUME NEW d \in Conversation PROVE ListedInv(d)'
  BY DEF WriteMeta, IInv, TypeOK, FilesInv, ListedInv, Revisions
<1>5. ASSUME NEW d \in Conversation PROVE MarkerInv(d)'
  BY <1>0, MarkersStay DEF WriteMeta, IInv, Allocated, Uncommitted
<1>6. ASSUME NEW d \in Conversation PROVE LagInv(d)'
  BY DEF WriteMeta, IInv, LagInv, Marked, Current
<1>7. \A d, e \in Conversation : Apart(d, e)'
  <2>1. ASSUME NEW d \in Conversation PROVE Held(d)' \subseteq Held(d)
    BY <1>0 DEF WriteMeta, Held, Uncommitted
  <2> QED
    BY <2>1, StayApart DEF IInv
<1> QED
  BY <1>1, <1>2, <1>3, <1>4, <1>5, <1>6, <1>7 DEF IInv

(* The published entry is the body's, so that its marker is needed no more.*)
(* The entry of a newer revision is never met: the operations of a         *)
(* conversation are queued.                                                *)
LEMMA PublishKeeps ==
  ASSUME IInv, NEW c \in Conversation, Publish(c)
  PROVE  IInv'
<1> USE CatalogAssumption DEF disk, history, Asker, At, CanUseQueue
<1>0. /\ op' \in [Conversation -> Operation] /\ local' \in [Conversation -> SUBSET Revisions]
      /\ op'[c].at = "none" /\ local'[c] = {}
      /\ \A d \in Conversation \ {c} : op'[d] = op[d] /\ local'[d] = local[d]
  BY SettleEnds DEF IInv, Publish
<1>01. HighestOf({catalog.rev, op[c].rev}) = catalog.rev
  <2>1. catalog.rev \in Nat /\ op[c].rev \in Nat /\ op[c].rev <= catalog.rev
    BY DEF IInv, TypeOK, FilesInv, Allocated, Revisions, Publish
  <2> QED
    BY <2>1, HighestIs
<1>02. /\ catalog' \in [rev : Revisions, listed : SUBSET Conversation,
                       entry : [Conversation -> Revisions], pending : SUBSET Markers]
       /\ catalog'.rev = catalog.rev /\ catalog'.listed = catalog.listed \cup {c}
       /\ catalog'.entry[c] = body[c].rev
       /\ \A d \in Conversation \ {c} : catalog'.entry[d] = catalog.entry[d]
       /\ catalog'.pending = {m \in catalog.pending : ~(m.conv = c /\ m.rev <= op[c].rev)}
  <2>1. catalog \in [rev : Revisions, listed : SUBSET Conversation,
                    entry : [Conversation -> Revisions], pending : SUBSET Markers]
    BY DEF IInv, TypeOK
  <2>2. op[c].rev \in Nat /\ body[c].rev \in Nat /\ meta[c] \in Nat /\ catalog.entry[c] \in Nat
    BY DEF IInv, TypeOK, Revisions
  <2>3. op[c].rev = body[c].rev /\ meta[c] <= body[c].rev /\ (c \in catalog.listed => catalog.entry[c] <= meta[c])
    BY DEF IInv, FilesInv, ListedInv, Publish
  <2>4. ~(c \in catalog.listed /\ catalog.entry[c] > op[c].rev)
    BY <2>2, <2>3
  <2>5. catalog' = [rev |-> catalog.rev, listed |-> catalog.listed \cup {c},
                    entry |-> [catalog.entry EXCEPT ![c] = op[c].rev],
                    pending |-> {m \in catalog.pending : ~(m.conv = c /\ m.rev <= op[c].rev)}]
    BY <1>01, <2>4 DEF Publish
  <2> QED
    BY <2>1, <2>2, <2>3, <2>5 DEF Revisions
<1>03. /\ op[c].at = "publish" /\ queue \in {Nobody, c} /\ queue' = Nobody
       /\ robbed' = robbed \ {c} /\ skipped' = skipped \ {c} /\ UNCHANGED <<body, meta, asks, scan>>
  BY DEF Publish
<1>1. TypeOK'
  BY <1>0, <1>02, <1>03 DEF IInv, TypeOK, Operation
<1>2. ScanInv'
  BY <1>03 DEF ScanInv
<1>3. ASSUME NEW d \in Conversation PROVE FilesInv(d)'
  BY <1>0, <1>02, <1>03 DEF IInv, FilesInv, Allocated, Uncommitted
<1>4. ASSUME NEW d \in Conversation PROVE ListedInv(d)'
  BY <1>02, <1>03 DEF IInv, FilesInv, ListedInv
<1>5. ASSUME NEW d \in Conversation PROVE MarkerInv(d)'
  BY <1>0, <1>02, <1>03 DEF IInv, FilesInv, MarkerInv, Marked, Creation, HasBody, Allocated, Uncommitted, Markers
<1>6. ASSUME NEW d \in Conversation PROVE LagInv(d)'
  BY <1>02, <1>03 DEF IInv, FilesInv, LagInv, Marked, Current
<1>7. \A d, e \in Conversation : Apart(d, e)'
  <2>1. ASSUME NEW d \in Conversation PROVE Held(d)' \subseteq Held(d)
    BY <1>0, <1>03 DEF Held, Uncommitted, NoOp
  <2> QED
    BY <2>1, StayApart DEF IInv
<1> QED
  BY <1>1, <1>2, <1>3, <1>4, <1>5, <1>6, <1>7 DEF IInv

(* An operation that fails leaves its marker and its files, as they are.   *)
LEMMA ThrowKeeps ==
  ASSUME IInv, NEW c \in Conversation, Throw(c)
  PROVE  IInv'
<1> USE CatalogAssumption DEF disk, history, Asker, At, CanUseQueue
<1>0. /\ op' \in [Conversation -> Operation] /\ local' \in [Conversation -> SUBSET Revisions]
      /\ op'[c].at = "none" /\ local'[c] = {}
      /\ \A d \in Conversation \ {c} : op'[d] = op[d] /\ local'[d] = local[d]
  BY SettleEnds DEF IInv, Throw
<1>1. TypeOK'
  BY <1>0 DEF Throw, IInv, TypeOK, Operation
<1>2. ScanInv'
  BY <1>0 DEF Throw, IInv, ScanInv, Revisions, HasBody, Uncommitted
<1>3. ASSUME NEW d \in Conversation PROVE FilesInv(d)'
  BY <1>0 DEF Throw, IInv, FilesInv, Allocated, Uncommitted
<1>4. ASSUME NEW d \in Conversation PROVE ListedInv(d)'
  BY DEF Throw, IInv, ListedInv
<1>5. ASSUME NEW d \in Conversation PROVE MarkerInv(d)'
  BY <1>0, MarkersStay DEF Throw, IInv, Allocated, Uncommitted
<1>6. ASSUME NEW d \in Conversation PROVE LagInv(d)'
  BY DEF Throw, IInv, LagInv, Marked, Current
<1>7. \A d, e \in Conversation : Apart(d, e)'
  <2>1. ASSUME NEW d \in Conversation PROVE Held(d)' \subseteq Held(d)
    BY <1>0 DEF Throw, Held, Uncommitted
  <2> QED
    BY <2>1, StayApart DEF IInv
<1> QED
  BY <1>1, <1>2, <1>3, <1>4, <1>5, <1>6, <1>7 DEF IInv

(* A rebuild somebody asked for starts with nothing read.                  *)
LEMMA RebuildAskedKeeps ==
  ASSUME IInv, NEW a \in Asker, RebuildAsked(a)
  PROVE  IInv'
<1> USE CatalogAssumption DEF disk, history, Asker, At, CanUseQueue
<1>1. TypeOK'
  BY DEF RebuildAsked, StartScan, IInv, TypeOK, Revisions
<1>2. ScanInv'
  BY DEF RebuildAsked, StartScan, ScanInv, Revisions
<1>3. ASSUME NEW d \in Conversation PROVE FilesInv(d)'
  BY DEF RebuildAsked, IInv, FilesInv
<1>4. ASSUME NEW d \in Conversation PROVE ListedInv(d)'
  BY DEF RebuildAsked, IInv, ListedInv
<1>5. ASSUME NEW d \in Conversation PROVE MarkerInv(d)'
  BY DEF RebuildAsked, IInv, MarkerInv, Marked, HasBody
<1>6. ASSUME NEW d \in Conversation PROVE LagInv(d)'
  BY DEF RebuildAsked, IInv, LagInv, Marked, Current
<1>7. \A d, e \in Conversation : Apart(d, e)'
  <2>1. ASSUME NEW d \in Conversation PROVE Held(d)' \subseteq Held(d)
    BY DEF RebuildAsked, Held
  <2> QED
    BY <2>1, StayApart DEF IInv
<1> QED
  BY <1>1, <1>2, <1>3, <1>4, <1>5, <1>6, <1>7 DEF IInv

(* What a rebuild reads is what it will list, unless an operation is about *)
(* to commit: nobody can allocate, or publish, while the rebuild holds the *)
(* catalog queue.                                                          *)
LEMMA ReadBodyKeeps ==
  ASSUME IInv, NEW c \in Conversation, ReadBody(c)
  PROVE  IInv'
<1> USE CatalogAssumption DEF disk, history, Asker, At, CanUseQueue
<1>0. /\ queue = Reader /\ c \in scan.todo /\ UNCHANGED <<catalog, local, op, queue, asks>>
      /\ robbed' = robbed \cup {d \in {c} : op[c].at \in Uncommitted}
      /\ scan \in [for : Asker \cup {Nobody}, todo : SUBSET Conversation, pending : SUBSET Markers,
                  listed : SUBSET Conversation, entry : [Conversation -> Revisions] \cup {NoScan.entry}]
      /\ scan.entry \in [Conversation -> Revisions] /\ scan.for \in Asker
      /\ body \in [Conversation -> [files : {"none", "snapshot", "runState", "whole"}, rev : Revisions]]
      /\ meta \in [Conversation -> Revisions] /\ skipped \subseteq Conversation /\ robbed \subseteq Conversation
      /\ body[c].rev \in Revisions
  BY DEF IInv, TypeOK, ScanInv, ReadBody, Uncommitted
<1>01. \/ /\ ~HasBody(c) \/ OnlySeeded(c)
          /\ scan' = [scan EXCEPT !.todo = @ \ {c}] /\ meta' = meta /\ body' = body
          /\ skipped' = skipped \cup (IF HasBody(c) THEN {c} ELSE {})
       \/ /\ HasBody(c) /\ ~OnlySeeded(c)
          /\ scan' = [scan EXCEPT !.todo = @ \ {c}, !.listed = @ \cup {c}, !.entry[c] = body[c].rev]
          /\ meta' = [meta EXCEPT ![c] = body[c].rev]
          /\ body' = [body EXCEPT ![c].files = "whole"] /\ skipped' = skipped
  BY DEF ReadBody
<1>02. /\ scan' \in [for : Asker \cup {Nobody}, todo : SUBSET Conversation, pending : SUBSET Markers,
                   listed : SUBSET Conversation, entry : [Conversation -> Revisions] \cup {NoScan.entry}]
       /\ scan'.entry \in [Conversation -> Revisions] /\ scan'.for = scan.for
       /\ scan'.pending = scan.pending /\ scan'.todo = scan.todo \ {c}
       /\ \A d \in Conversation \ {c} : scan'.entry[d] = scan.entry[d] /\ (d \in scan'.listed <=> d \in scan.listed)
       /\ meta' \in [Conversation -> Revisions]
       /\ body' \in [Conversation -> [files : {"none", "snapshot", "runState", "whole"}, rev : Revisions]]
       /\ \A d \in Conversation : body'[d].rev = body[d].rev
       /\ \A d \in Conversation \ {c} : body'[d] = body[d] /\ meta'[d] = meta[d]
  <2>1. CASE /\ scan' = [scan EXCEPT !.todo = @ \ {c}] /\ meta' = meta /\ body' = body
    BY <1>0, <2>1
  <2>2. CASE /\ scan' = [scan EXCEPT !.todo = @ \ {c}, !.listed = @ \cup {c}, !.entry[c] = body[c].rev]
             /\ meta' = [meta EXCEPT ![c] = body[c].rev]
             /\ body' = [body EXCEPT ![c].files = "whole"]
    <3>1. [scan.entry EXCEPT ![c] = body[c].rev] \in [Conversation -> Revisions]
      BY <1>0
    <3>2. scan' = [for |-> scan.for, todo |-> scan.todo \ {c}, pending |-> scan.pending,
                   listed |-> scan.listed \cup {c}, entry |-> [scan.entry EXCEPT ![c] = body[c].rev]]
      BY <1>0, <2>2
    <3>3. scan' \in [for : Asker \cup {Nobody}, todo : SUBSET Conversation, pending : SUBSET Markers,
                  listed : SUBSET Conversation, entry : [Conversation -> Revisions] \cup {NoScan.entry}]
      BY <1>0, <3>1, <3>2
    <3>4. body' \in [Conversation -> [files : {"none", "snapshot", "runState", "whole"}, rev : Revisions]] /\ meta' \in [Conversation -> Revisions]
      BY <1>0, <2>2
    <3> QED
      BY <1>0, <2>2, <3>2, <3>3, <3>4
  <2> QED
    BY <1>01, <2>1, <2>2
<1>03. \/ /\ ~HasBody(c) \/ OnlySeeded(c)
          /\ scan'.listed = scan.listed /\ meta' = meta /\ body' = body /\ scan'.entry = scan.entry
          /\ skipped' = skipped \cup (IF HasBody(c) THEN {c} ELSE {})
       \/ /\ HasBody(c) /\ ~OnlySeeded(c)
          /\ c \in scan'.listed /\ scan'.entry[c] = body[c].rev /\ meta'[c] = body[c].rev
          /\ body'[c].files = "whole" /\ skipped' = skipped
  <2>1. CASE /\ ~HasBody(c) \/ OnlySeeded(c)
             /\ scan' = [scan EXCEPT !.todo = @ \ {c}] /\ meta' = meta /\ body' = body
             /\ skipped' = skipped \cup (IF HasBody(c) THEN {c} ELSE {})
    BY <1>0, <2>1
  <2>2. CASE /\ HasBody(c) /\ ~OnlySeeded(c)
             /\ scan' = [scan EXCEPT !.todo = @ \ {c}, !.listed = @ \cup {c}, !.entry[c] = body[c].rev]
             /\ meta' = [meta EXCEPT ![c] = body[c].rev]
             /\ body' = [body EXCEPT ![c].files = "whole"] /\ skipped' = skipped
    BY <1>0, <2>2
  <2> QED
    BY <1>01, <2>1, <2>2
<1>04. c \notin scan.listed
  BY <1>0 DEF IInv, ScanInv
<1>05. c \notin robbed' =>
         /\ op'[c].at \notin Uncommitted
         /\ ~HasBody(c) \/ OnlySeeded(c) => body[c].rev = 0
         /\ HasBody(c) /\ body[c].rev = 0 => OnlySeeded(c) \/ c \in skipped
  <2> SUFFICES ASSUME c \notin robbed'
               PROVE  /\ op'[c].at \notin Uncommitted
                      /\ ~HasBody(c) \/ OnlySeeded(c) => body[c].rev = 0
                      /\ HasBody(c) /\ body[c].rev = 0 => OnlySeeded(c) \/ c \in skipped
    OBVIOUS
  <2>1. op'[c].at \notin Uncommitted /\ c \notin robbed /\ scan.pending = catalog.pending
    BY <1>0 DEF IInv, ScanInv
  <2>2. CASE ~HasBody(c)
    BY <1>0, <2>2 DEF IInv, FilesInv, HasBody, Revisions
  <2>3. CASE HasBody(c) /\ OnlySeeded(c)
    BY <2>1, <2>3 DEF OnlySeeded, IInv, MarkerInv
  <2>4. CASE HasBody(c) /\ ~OnlySeeded(c) /\ body[c].rev = 0 /\ c \notin skipped
    <3>1. PICK m \in catalog.pending : Creation(m, c)
      BY <2>1, <2>4 DEF IInv, MarkerInv
    <3>2. \A n \in catalog.pending : n.conv = c => n.rev > 0
      BY DEF IInv, MarkerInv
    <3> QED
      BY <2>1, <2>4, <3>1, <3>2 DEF OnlySeeded, Creation
  <2> QED
    BY <2>1, <2>2, <2>3, <2>4
<1>1. TypeOK'
  BY <1>0, <1>02, <1>03 DEF IInv, TypeOK
<1>2. ScanInv'
  <2>1. scan'.for \in Asker /\ scan'.pending = catalog'.pending /\ scan'.listed \cap scan'.todo = {}
    BY <1>0, <1>02, <1>03, <1>04 DEF IInv, ScanInv
  <2>2. ASSUME NEW d \in scan'.listed PROVE body'[d].files = "whole" /\ scan'.entry[d] <= meta'[d]
    <3>1. CASE d = c
      BY <1>0, <1>03, <1>04, <2>2, <3>1 DEF Revisions
    <3>2. CASE d # c
      BY <1>0, <1>02, <3>2 DEF IInv, ScanInv
    <3> QED
      BY <3>1, <3>2
  <2>3. ASSUME NEW d \in Conversation \ scan'.todo, d \notin robbed'
        PROVE  /\ op'[d].at \notin Uncommitted
               /\ d \in scan'.listed => scan'.entry[d] = body'[d].rev
               /\ d \notin scan'.listed => body'[d].rev = 0
               /\ HasBody(d)' /\ body'[d].rev = 0 => d \in skipped'
    <3>1. CASE d # c
      BY <1>0, <1>02, <1>03, <2>3, <3>1 DEF IInv, ScanInv, HasBody
    <3>2. CASE d = c
      BY <1>02, <1>03, <1>04, <1>05, <2>3, <3>2 DEF HasBody
    <3> QED
      BY <3>1, <3>2
  <2> QED
    BY <1>0, <1>02, <2>1, <2>2, <2>3 DEF ScanInv
<1>3. ASSUME NEW d \in Conversation PROVE FilesInv(d)'
  BY <1>0, <1>02, <1>03 DEF IInv, FilesInv, Revisions
<1>4. ASSUME NEW d \in Conversation PROVE ListedInv(d)'
  BY <1>0, <1>01, <1>03, <1>05 DEF IInv, TypeOK, FilesInv, ListedInv, Revisions
<1>5. ASSUME NEW d \in Conversation PROVE MarkerInv(d)'
  BY <1>0, <1>02, <1>03 DEF IInv, MarkerInv, Marked, HasBody
<1>6. ASSUME NEW d \in Conversation PROVE LagInv(d)'
  BY <1>0, <1>02, <1>03 DEF IInv, LagInv, Marked, Current
<1>7. \A d, e \in Conversation : Apart(d, e)'
  <2>1. ASSUME NEW d \in Conversation PROVE Held(d)' \subseteq Held(d)
    BY <1>0, <1>02 DEF Held
  <2> QED
    BY <2>1, StayApart DEF IInv
<1> QED
  BY <1>1, <1>2, <1>3, <1>4, <1>5, <1>6, <1>7 DEF IInv

(* The rebuilt catalog lists what was read; its counter stays, as it was   *)
(* never behind a body; what it takes markers from is current or overtaken.*)
LEMMA FinishRebuildKeeps ==
  ASSUME IInv, FinishRebuild
  PROVE  IInv'
<1> USE CatalogAssumption DEF disk, history, Asker, At, CanUseQueue
<1>0. catalog' = [rev |-> catalog.rev, listed |-> scan.listed, entry |-> scan.entry, pending |-> {}]
  <2> DEFINE S == {catalog.rev} \cup {scan.entry[c] : c \in scan.listed}
  <2>1. scan.listed \subseteq Conversation /\ scan.entry \in [Conversation -> Nat] /\ catalog.rev \in Nat
    BY DEF IInv, TypeOK, ScanInv, FinishRebuild, Revisions
  <2>2. ASSUME NEW c \in scan.listed PROVE scan.entry[c] <= catalog.rev
    <3>1. meta[c] \in Nat /\ body[c].rev \in Nat /\ scan.entry[c] \in Nat
      BY <2>1 DEF IInv, TypeOK, Revisions
    <3>2. scan.entry[c] <= meta[c] /\ meta[c] <= body[c].rev /\ body[c].rev <= catalog.rev
      BY <2>1 DEF IInv, ScanInv, FilesInv, FinishRebuild
    <3> QED
      BY <2>1, <3>1, <3>2
  <2>3. S \in SUBSET Nat /\ catalog.rev \in S /\ \A x \in S : x <= catalog.rev
    BY <2>1, <2>2
  <2> HIDE DEF S
  <2>4. HighestOf(S) = catalog.rev
    BY <2>3, HighestIs
  <2> QED
    BY <2>4 DEF FinishRebuild, S
<1>01. /\ scan.listed \subseteq Conversation /\ scan.entry \in [Conversation -> Revisions]
       /\ catalog.rev \in Revisions
       /\ catalog' \in [rev : Revisions, listed : SUBSET Conversation,
                       entry : [Conversation -> Revisions], pending : SUBSET Markers]
       /\ catalog'.rev = catalog.rev /\ catalog'.listed = scan.listed
       /\ catalog'.entry = scan.entry /\ catalog'.pending = {}
  BY <1>0 DEF IInv, TypeOK, ScanInv, FinishRebuild
<1>02. /\ op' \in [Conversation -> Operation]
       /\ \A d \in Conversation : \/ op'[d] = op[d]
                                  \/ op[d].at = "repair" /\ op'[d].at = "enter"
  <2>1. CASE UNCHANGED op
    BY <2>1 DEF IInv, TypeOK, Operation
  <2>2. CASE scan.for \in Conversation /\ op[scan.for].at = "repair" /\ Goto(scan.for, "enter")
    BY <2>2, GotoMoves DEF IInv, Steps
  <2> QED
    BY <2>1, <2>2 DEF FinishRebuild
<1>03. /\ queue = Reader /\ scan.todo = {} /\ scan' = NoScan /\ asks' \subseteq asks
       /\ queue' \in Conversation \cup {Nobody} /\ queue' # Reader
       /\ UNCHANGED <<body, meta, local, history>>
  BY DEF FinishRebuild
<1>1. TypeOK'
  BY <1>01, <1>02, <1>03 DEF IInv, TypeOK, Operation, NoScan
<1>2. ScanInv'
  BY <1>03 DEF ScanInv
<1>3. ASSUME NEW d \in Conversation PROVE FilesInv(d)'
  BY <1>01, <1>02, <1>03 DEF IInv, FilesInv, Allocated, Uncommitted
<1>4. ASSUME NEW d \in Conversation PROVE ListedInv(d)'
  BY <1>01, <1>03 DEF IInv, ListedInv, ScanInv
<1>5. ASSUME NEW d \in Conversation PROVE MarkerInv(d)'
  <2>1. d \in robbed \/ (op[d].at \notin Uncommitted /\ (HasBody(d) /\ body[d].rev = 0 => d \in skipped))
    BY <1>03 DEF IInv, ScanInv
  <2>2. op'[d].at \in Uncommitted => op[d].at \in Uncommitted
    BY <1>02 DEF Uncommitted
  <2> QED
    BY <1>01, <1>03, <2>1, <2>2 DEF MarkerInv, HasBody, Uncommitted
<1>6. ASSUME NEW d \in Conversation PROVE LagInv(d)'
  BY <1>01, <1>03 DEF IInv, LagInv, ScanInv, Current, HasBody
<1>7. \A d, e \in Conversation : Apart(d, e)'
  <2>1. ASSUME NEW d \in Conversation PROVE Held(d)' \subseteq Held(d)
    BY <1>02, <1>03 DEF Held, Uncommitted
  <2> QED
    BY <2>1, StayApart DEF IInv
<1> QED
  BY <1>1, <1>2, <1>3, <1>4, <1>5, <1>6, <1>7 DEF IInv

(* A failed rebuild changes no catalog, and ends the operation it was for. *)
LEMMA RebuildFailsKeeps ==
  ASSUME IInv, RebuildFails
  PROVE  IInv'
<1> USE CatalogAssumption DEF disk, history, Asker, At, CanUseQueue
<1>0. /\ op' \in [Conversation -> Operation] /\ local' \in [Conversation -> SUBSET Revisions]
      /\ \A d \in Conversation : \/ op'[d] = op[d] /\ local'[d] = local[d]
                                 \/ op'[d] = NoOp /\ op'[d].at = "none" /\ local'[d] = {}
  <2>1. CASE UNCHANGED <<op, local>>
    BY <2>1 DEF IInv, TypeOK, Operation
  <2>2. CASE scan.for \in Conversation /\ Settle(scan.for)
    BY <2>2, SettleEnds DEF IInv
  <2> QED
    BY <2>1, <2>2 DEF RebuildFails
<1>01. /\ queue' = Nobody /\ queue' # Reader /\ scan' = NoScan /\ asks' \subseteq asks /\ UNCHANGED <<disk, history>>
  BY DEF RebuildFails
<1>1. TypeOK'
  BY <1>0, <1>01 DEF IInv, TypeOK, Operation, NoScan
<1>2. ScanInv'
  BY <1>01 DEF ScanInv
<1>3. ASSUME NEW d \in Conversation PROVE FilesInv(d)'
  BY <1>0, <1>01 DEF IInv, FilesInv, Allocated, Uncommitted
<1>4. ASSUME NEW d \in Conversation PROVE ListedInv(d)'
  BY <1>01 DEF IInv, ListedInv
<1>5. ASSUME NEW d \in Conversation PROVE MarkerInv(d)'
  BY <1>0, <1>01, MarkersStay DEF IInv, Allocated, Uncommitted
<1>6. ASSUME NEW d \in Conversation PROVE LagInv(d)'
  BY <1>01 DEF IInv, LagInv, Marked, Current
<1>7. \A d, e \in Conversation : Apart(d, e)'
  <2>1. ASSUME NEW d \in Conversation PROVE Held(d)' \subseteq Held(d)
    BY <1>0, <1>01 DEF Held, Uncommitted
  <2> QED
    BY <2>1, StayApart DEF IInv
<1> QED
  BY <1>1, <1>2, <1>3, <1>4, <1>5, <1>6, <1>7 DEF IInv

(* Asking for a rebuild changes nothing else.                              *)
LEMMA ReaderAsksKeeps ==
  ASSUME IInv, ReaderAsks
  PROVE  IInv'
<1> USE CatalogAssumption DEF disk, history, Asker, At, CanUseQueue
<1>1. TypeOK'
  BY DEF ReaderAsks, IInv, TypeOK
<1>2. ScanInv'
  BY DEF ReaderAsks, IInv, ScanInv, HasBody
<1>3. ASSUME NEW d \in Conversation PROVE FilesInv(d)'
  BY DEF ReaderAsks, IInv, FilesInv
<1>4. ASSUME NEW d \in Conversation PROVE ListedInv(d)'
  BY DEF ReaderAsks, IInv, ListedInv
<1>5. ASSUME NEW d \in Conversation PROVE MarkerInv(d)'
  BY DEF ReaderAsks, IInv, MarkerInv, Marked, HasBody
<1>6. ASSUME NEW d \in Conversation PROVE LagInv(d)'
  BY DEF ReaderAsks, IInv, LagInv, Marked, Current
<1>7. \A d, e \in Conversation : Apart(d, e)'
  <2>1. ASSUME NEW d \in Conversation PROVE Held(d)' \subseteq Held(d)
    BY DEF ReaderAsks, IInv, TypeOK, Held, Uncommitted, NoOp
  <2> QED
    BY <2>1, StayApart DEF IInv
<1> QED
  BY <1>1, <1>2, <1>3, <1>4, <1>5, <1>6, <1>7 DEF IInv

(* A crash leaves the disk as it is, and nothing local.                    *)
LEMMA CrashKeeps ==
  ASSUME IInv, Crash
  PROVE  IInv'
<1> USE CatalogAssumption DEF disk, history, Asker, At, CanUseQueue
<1>0. /\ op' \in [Conversation -> Operation] /\ local' \in [Conversation -> SUBSET Revisions]
      /\ \A d \in Conversation : op'[d] = NoOp /\ op'[d].at = "none" /\ local'[d] = {}
  BY DEF Crash, NoOp, Operation, Steps, Revisions
<1>01. queue' = Nobody /\ queue' # Reader /\ scan' = NoScan /\ asks' = {} /\ UNCHANGED <<disk, history>>
  BY DEF Crash
<1>1. TypeOK'
  BY <1>0, <1>01 DEF IInv, TypeOK, Operation, NoScan
<1>2. ScanInv'
  BY <1>01 DEF ScanInv
<1>3. ASSUME NEW d \in Conversation PROVE FilesInv(d)'
  BY <1>0, <1>01 DEF IInv, FilesInv, Allocated, Uncommitted
<1>4. ASSUME NEW d \in Conversation PROVE ListedInv(d)'
  BY <1>01 DEF IInv, ListedInv
<1>5. ASSUME NEW d \in Conversation PROVE MarkerInv(d)'
  BY <1>0, <1>01 DEF IInv, MarkerInv, HasBody, Allocated, Uncommitted
<1>6. ASSUME NEW d \in Conversation PROVE LagInv(d)'
  BY <1>01 DEF IInv, LagInv, Marked, Current
<1>7. \A d, e \in Conversation : Apart(d, e)'
  <2>1. ASSUME NEW d \in Conversation PROVE Held(d)' \subseteq Held(d)
    BY <1>0, <1>01 DEF Held, Uncommitted
  <2> QED
    BY <2>1, StayApart DEF IInv
<1> QED
  BY <1>1, <1>2, <1>3, <1>4, <1>5, <1>6, <1>7 DEF IInv

-----------------------------------------------------------------------------
(* The theorems.                                                           *)

(* Whatever operations, rebuilds, failures and crashes do in whatever order, *)
(* the parts of the invariant hold.                                        *)
THEOREM CatalogInvariant == Spec => []IInv
<1>1. Init => IInv
  <2> SUFFICES ASSUME Init PROVE IInv
    OBVIOUS
  <2> USE CatalogAssumption DEF Init, NoOp
  <2>1. TypeOK
    BY DEF TypeOK, Steps, Revisions, Markers, NoScan, Asker
  <2>2. ScanInv
    BY DEF ScanInv
  <2>3. ASSUME NEW c \in Conversation PROVE FilesInv(c) /\ ListedInv(c) /\ MarkerInv(c) /\ LagInv(c)
    BY DEF FilesInv, ListedInv, MarkerInv, LagInv, HasBody, Uncommitted
  <2>4. ASSUME NEW c \in Conversation, NEW d \in Conversation PROVE Apart(c, d)
    BY DEF Apart, Held, Uncommitted
  <2> QED
    BY <2>1, <2>2, <2>3, <2>4 DEF IInv
<1>2. IInv /\ [Next]_vars => IInv'
  <2> SUFFICES ASSUME IInv, [Next]_vars PROVE IInv'
    OBVIOUS
  <2>1. ASSUME NEW c \in Conversation, NEW kind \in {"mutate", "claim"}, Enqueue(c, kind) PROVE IInv'
    BY <2>1, EnqueueKeeps
  <2>2. ASSUME NEW c \in Conversation, Work(c) PROVE IInv'
    BY <2>2, CheckCleanKeeps, CheckDeadKeeps, EnterKeeps, RefusedKeeps, AllocateKeeps,
       DeferredKeeps, RebuildToAllocateKeeps, SeedKeeps, CommitKeeps, WriteMetaKeeps, PublishKeeps
    DEF Work
  <2>3. ASSUME NEW c \in Conversation, Throw(c) PROVE IInv'
    BY <2>3, ThrowKeeps
  <2>4. ASSUME NEW a \in Asker, RebuildAsked(a) PROVE IInv'
    BY <2>4, RebuildAskedKeeps
  <2>5. CASE Rebuild
    BY <2>5, ReadBodyKeeps, FinishRebuildKeeps DEF Rebuild
  <2>6. CASE RebuildFails
    BY <2>6, RebuildFailsKeeps
  <2>7. CASE ReaderAsks
    BY <2>7, ReaderAsksKeeps
  <2>8. CASE Crash
    BY <2>8, CrashKeeps
  <2>9. CASE UNCHANGED vars
    <3> USE <2>9 DEF vars, disk, history
    <3>1. TypeOK'
      BY DEF IInv, TypeOK
    <3>2. ScanInv'
      BY DEF IInv, ScanInv, HasBody
    <3>3. ASSUME NEW c \in Conversation PROVE FilesInv(c)' /\ ListedInv(c)' /\ MarkerInv(c)' /\ LagInv(c)'
      BY DEF IInv, FilesInv, ListedInv, MarkerInv, LagInv, HasBody, Marked, Current
    <3>4. ASSUME NEW c \in Conversation, NEW d \in Conversation PROVE Apart(c, d)'
      BY DEF IInv, Apart, Held
    <3> QED
      BY <3>1, <3>2, <3>3, <3>4 DEF IInv
  <2> QED
    BY <2>1, <2>2, <2>3, <2>4, <2>5, <2>6, <2>7, <2>8, <2>9 DEF Next
<1> QED
  BY <1>1, <1>2, PTL DEF Spec

(* The catalog, the files and the operations keep their types.              *)
THEOREM TypeCorrect == Spec => []TypeOK
BY CatalogInvariant, PTL DEF IInv

(* No two conversations ever commit the same revision, whatever is rebuilt   *)
(* in between (allocateGlobalUnlocked, rebuildCatalogUnlocked).             *)
THEOREM RevisionsNeverShared == Spec => []RevisionsAreFresh
<1>1. IInv => RevisionsAreFresh
  <2> SUFFICES ASSUME IInv PROVE RevisionsAreFresh
    OBVIOUS
  <2>1. \A c \in Conversation : InHand(c) \subseteq Held(c)
    BY DEF InHand, Held, Uncommitted
  <2>2. \A c, d \in Conversation : c # d => InHand(c) \cap InHand(d) \subseteq {0}
    BY <2>1 DEF IInv, Apart
  <2>3. ASSUME NEW c \in Conversation
        PROVE  /\ \A r \in InHand(c) \cup {meta[c]} : r <= catalog.rev
               /\ op[c].at = "commit" => body[c].rev < op[c].rev
    <3>1. catalog.rev \in Nat /\ meta[c] \in Nat /\ body[c].rev \in Nat
      BY DEF IInv, TypeOK, Revisions
    <3>2. FilesInv(c)
      BY DEF IInv
    <3> QED
      BY <3>1, <3>2 DEF FilesInv, InHand, Allocated, Uncommitted
  <2> QED
    BY <2>2, <2>3 DEF RevisionsAreFresh
<1> QED
  BY <1>1, CatalogInvariant, PTL

(* Whoever reads the catalog finds nothing that is not in the files, even   *)
(* while a rebuild reads them under the operations' feet.                  *)
THEOREM CatalogNeverAhead == Spec => []CatalogIsBehind
<1>1. IInv => CatalogIsBehind
  BY DEF IInv, TypeOK, CatalogIsBehind, ListedInv, FilesInv
<1> QED
  BY <1>1, CatalogInvariant, PTL

(* What the catalog lags behind on has a marker, unless a rebuild took it.   *)
THEOREM LagIsMarked == Spec => []LagsOnlyWhenRobbed
<1>1. IInv => LagsOnlyWhenRobbed
  BY DEF IInv, LagsOnlyWhenRobbed, LagInv
<1> QED
  BY <1>1, CatalogInvariant, PTL

=============================================================================
