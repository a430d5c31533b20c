----------------------------- MODULE ChatViewProofs -----------------------------
(***************************************************************************)
(* Proofs about what the chat view prepares and keeps.                      *)
(*                                                                         *)
(* ChatContext, for any views and any bounds: the summary of the stored     *)
(* checkpoint is of the transcript and tells of its latest turns, and no    *)
(* prompt reaches an agent that was not told of what came before it.        *)
(*                                                                         *)
(* ChatDrafts, for any conversations and any bounds, with whatever overlaps: *)
(* what the user left and the store does not have is in memory, the editor  *)
(* shows it, and a shutdown that reports success has saved it, unless the   *)
(* stored text was never read, or was read too late.                        *)
(***************************************************************************)
EXTENDS ChatContext, ChatDrafts, SequenceTheorems, FiniteSetTheorems, WellFoundedInduction,
        TLAPS

-----------------------------------------------------------------------------
(* ChatContext: the inductive invariant, in parts.                                      *)

(* With nothing read there is nothing to tell.                              *)
RevInv == turns # <<>> => rev > 0

CkptInv == SummaryIsOfTranscript /\ ckpt.through <= Len(turns)

(* The session an agent's turn claimed holds the transcript up to that turn, *)
(* once the turn is completed.                                             *)
Holds(s, told) == s \in holed \/ told \subseteq knows[s]
UpTo(n) == {i \in Completed : i <= n}
OwnedInv(a) ==
  /\ owned[a].turn <= Len(turns)
  /\ owned[a].turn \in Completed => Holds(owned[a].session, UpTo(owned[a].turn))

(* With a prompt the session will hold every completed turn.                *)
Tells(p) ==
  \/ p.torn
  \/ IF p.session = 0 THEN Completed \subseteq p.carries
     ELSE /\ Holds(p.session, Completed \ p.carries)
          /\ p.rescue => Completed \subseteq p.fresh

(* What was prepared is right at the revision it was read at.               *)
FullInv(p) ==
  /\ p.rev <= rev
  /\ p.resume => p.session # 0
  /\ p.resume /\ p.rev = rev => Holds(p.session, Completed)
DraftFits(d) ==
  /\ d.covers = UpTo(ckpt.through) \cup UpTo(d.through)
  /\ Recalls(d.tells, d.covers)
ReadyInv(p) ==
  /\ p.rev <= rev /\ (p.prompt.rescue => p.agent = "codex")
  /\ p.rev = rev => Tells(p.prompt)
  /\ p.draft # NoDraft => /\ p.draft.rev <= rev
                          /\ p.draft.rev = rev => DraftFits(p.draft)
PrepInv(v) ==
  prep[v] # Idle => /\ prep[v].at = "full" => FullInv(prep[v])
                    /\ prep[v].at = "ready" => ReadyInv(prep[v])

(* A run is of the last turn, which is not completed.  Its session is claimed *)
(* for it alone, except that Codex may leave a claim it then replaces.      *)
RunOk(r) ==
  /\ r.turn = Len(turns) /\ r.turn > ckpt.through /\ r.turn \notin Completed
  /\ r.prompt.rescue => r.agent = "codex" /\ r.at = "begun"
  /\ r.at \in {"begun", "open"} => Tells(r.prompt)
  /\ r.at \in {"open", "told"} => r.prompt.session # 0
  /\ r.at = "told" => Holds(r.prompt.session, Completed \cup {r.turn})
  /\ r.at = "told" /\ r.agent = "codex" => r.claimed
  /\ r.claimed => /\ owned[r.agent] = [session |-> r.prompt.session, turn |-> r.turn]
                  /\ r.prompt.session # 0
  /\ \A a \in Agent : owned[a].turn = r.turn =>
       a = r.agent /\ (r.claimed \/ (r.at = "open" /\ r.agent = "codex"))
RunInv == run # NoRun => RunOk(run)

IInv ==
  /\ TypeOK /\ RevInv /\ CkptInv /\ RunInv
  /\ \A a \in Agent : OwnedInv(a)
  /\ \A v \in View : PrepInv(v)

-----------------------------------------------------------------------------
(* Lemmas about the operators of the module.                                *)

(* A set of numbers below a bound has a largest one: N - x is smallest.     *)
LEMMA MaxOfBounded ==
  ASSUME NEW N \in Nat, NEW S \in SUBSET (1..N), S # {}
  PROVE  Max(S) \in S /\ \A y \in S : y <= Max(S)
<1> DEFINE T == {n \in Nat : \E x \in S : n = N - x}
<1>1. \A x \in S : N - x \in T
  OBVIOUS
<1>2. T \in SUBSET Nat /\ T # {}
  BY <1>1
<1> HIDE DEF T
<1>3. PICK n \in T : \A m \in T : <<m, n>> \notin OpToRel(<, Nat)
  BY <1>2, WFMin, NatLessThanWellFounded
<1>4. PICK x \in S : n = N - x
  BY <1>3 DEF T
<1>5. ASSUME NEW y \in S PROVE y <= x
  <2>1. N - y \in T /\ N - y \in Nat /\ n \in Nat
    BY <1>1, <1>2
  <2>2. ~(N - y < n)
    BY <1>3, <2>1 DEF OpToRel
  <2> QED
    BY <1>4, <2>1, <2>2
<1>6. x \in S /\ \A y \in S : x >= y
  BY <1>5
<1> QED
  BY <1>6 DEF Max

LEMMA LargestOfBounded ==
  ASSUME NEW N \in Nat, NEW S \in SUBSET (1..N)
  PROVE  /\ S = {} => Largest(S) = 0
         /\ S # {} => Largest(S) \in S
         /\ \A y \in S : y <= Largest(S)
BY MaxOfBounded DEF Largest

(* A list of n entries has no more than n: without its oldest one, it is of  *)
(* turns after that one, and those are fewer than n.                       *)
LEMMA LatestFits ==
  ASSUME NEW n \in Nat, NEW N \in Nat, NEW S \in SUBSET (1..N)
  PROVE  /\ Latest(n, S) \in SUBSET S /\ IsFiniteSet(Latest(n, S))
         /\ Cardinality(Latest(n, S)) <= n
<1> DEFINE L == Latest(n, S)
<1>0. S \in SUBSET Nat
  OBVIOUS
<1>1. L \in SUBSET S /\ IsFiniteSet(S)
  <2>1. IsFiniteSet(1..N)
    BY FS_Interval
  <2> QED
    BY <2>1, FS_Subset DEF Latest
<1>2. IsFiniteSet(L) /\ Cardinality(L) \in Nat
  BY <1>1, FS_Subset, FS_CardinalityType
<1>3. CASE L = {}
  BY <1>1, <1>2, <1>3, FS_EmptySet
<1>4. CASE L # {}
  <2> HIDE DEF L
  <2>0. L \in SUBSET Nat
    BY <1>0, <1>1
  <2>1. PICK m \in L : \A k \in L : <<k, m>> \notin OpToRel(<, Nat)
    BY <1>4, <2>0, WFMin, NatLessThanWellFounded
  <2>2. \A k \in L : ~(k < m)
    BY <2>0, <2>1 DEF OpToRel
  <2> DEFINE later == {j \in S : j > m}
  <2>3. L \ {m} \subseteq later
    <3>1. m \in Nat /\ \A k \in L : k \in Nat /\ k \in S /\ ~(k < m)
      BY <1>1, <2>0, <2>2
    <3>2. \A k \in L : k # m => k > m
      BY <3>1
    <3> QED
      BY <3>1, <3>2
  <2>4. IsFiniteSet(later) /\ Cardinality(later) \in Nat /\ Cardinality(later) < n
    <3>1. later \subseteq S
      OBVIOUS
    <3>2. IsFiniteSet(later) /\ Cardinality(later) \in Nat
      BY <1>1, <3>1, FS_Subset, FS_CardinalityType
    <3>3. Cardinality(later) < n
      BY <2>1 DEF L, Latest
    <3> QED
      BY <3>2, <3>3
  <2> HIDE DEF later
  <2>5. Cardinality(L \ {m}) <= Cardinality(later)
    BY <2>3, <2>4, FS_Subset
  <2>6. Cardinality(L \ {m}) = Cardinality(L) - 1
    BY <1>2, <2>1, FS_RemoveElement
  <2>7. Cardinality(L) <= n
    BY <1>2, <2>4, <2>5, <2>6
  <2> QED
    BY <1>1, <1>2, <2>7 DEF L
<1> QED
  BY <1>3, <1>4

(* What is among the latest of more turns is among the latest of fewer, and  *)
(* of a longer list.                                                       *)
LEMMA LatestOfFewer ==
  ASSUME NEW n \in Nat, NEW m \in Nat, n <= m, NEW N \in Nat, NEW S \in SUBSET (1..N),
         NEW T \in SUBSET S, NEW i \in T, i \in Latest(n, S)
  PROVE  i \in Latest(m, T)
<1> DEFINE more == {j \in S : j > i}
           fewer == {j \in T : j > i}
<1>1. IsFiniteSet(1..N)
  BY FS_Interval
<1>2. IsFiniteSet(more) /\ fewer \subseteq more
  BY <1>1, FS_Subset
<1>3. Cardinality(fewer) <= Cardinality(more) /\ Cardinality(more) \in Nat /\ Cardinality(fewer) \in Nat
  BY <1>2, FS_Subset, FS_CardinalityType
<1>4. Cardinality(more) < n
  BY DEF Latest
<1>5. Cardinality(fewer) < m
  <2> HIDE DEF more, fewer
  <2> QED
    BY <1>3, <1>4
<1> QED
  BY <1>5 DEF Latest

(* A summary merged with that of later turns is one of them all.            *)
LEMMA MergeRecalls ==
  ASSUME NEW N \in Nat, NEW P \in SUBSET (1..N), NEW S \in SUBSET (1..N), NEW tells,
         Recalls(tells, P)
  PROVE  Recalls(mergeContextSummaries(tells, NewSummary(S)), P \cup S)
<1> DEFINE new == Latest(NewItems, S)
           both == tells \cup new
           merged == Latest(SummaryItems, both)
<1>1. /\ NewItems \in Nat /\ SummaryItems \in Nat /\ NewItems <= SummaryItems
      /\ P \cup S \in SUBSET (1..N)
  BY ContextAssumption
<1>2. new \in SUBSET S
  BY <1>1, LatestFits
<1>3. both \in SUBSET (P \cup S) /\ both \in SUBSET (1..N)
  BY <1>1, <1>2 DEF Recalls
<1> HIDE DEF both
<1>4. merged \in SUBSET both /\ Cardinality(merged) <= SummaryItems
  BY <1>1, <1>3, LatestFits
<1>5. ASSUME NEW i \in Latest(NewItems, P \cup S) PROVE i \in merged
  <2>1. i \in P \cup S
    BY <1>5 DEF Latest
  <2>2. i \in both
    <3>1. CASE i \in P
      <4>1. i \in Latest(NewItems, P)
        BY <1>1, <1>5, <3>1, LatestOfFewer
      <4> QED
        BY <4>1 DEF Recalls, both
    <3>2. CASE i \in S
      <4>1. i \in new
        BY <1>1, <1>5, <3>2, LatestOfFewer
      <4> QED
        BY <4>1 DEF both
    <3> QED
      BY <2>1, <3>1, <3>2
  <2> QED
    BY <1>1, <1>3, <1>5, <2>2, LatestOfFewer
<1>6. merged \subseteq P \cup S
  BY <1>3, <1>4
<1> QED
  BY <1>4, <1>5, <1>6 DEF Recalls, mergeContextSummaries, NewSummary, both

(* Turns are places in the transcript.                                     *)
LEMMA TurnsAreBounded ==
  ASSUME TypeOK
  PROVE  /\ Len(turns) \in Nat /\ DOMAIN turns = 1..Len(turns) /\ Len(turns) <= MaxTurns
         /\ Completed \in SUBSET (1..Len(turns)) /\ Completed \in SUBSET Turn
         /\ PastCheckpoint \in SUBSET Completed
         /\ \A i \in DOMAIN turns : turns[i] \in TurnRecord
BY ContextAssumption DEF TypeOK, Completed, PastCheckpoint, Turn

(* The session chosen to go on with holds the transcript: the latest         *)
(* completed turn is the one that claimed it.                              *)
LEMMA FreshSessionHolds ==
  ASSUME IInv, NEW a \in Agent, Completed # {}, evaluateTargetSessionFreshness(a)
  PROVE  owned[a].session # 0 /\ Holds(owned[a].session, Completed)
<1>1. owned[a].turn \in Completed /\ \A i \in Completed : i <= owned[a].turn
  BY TurnsAreBounded, LargestOfBounded DEF IInv, evaluateTargetSessionFreshness
<1>2. UpTo(owned[a].turn) = Completed
  BY <1>1 DEF UpTo
<1> QED
  BY <1>1, <1>2 DEF IInv, OwnedInv, evaluateTargetSessionFreshness

(* A preparation disturbs nothing but itself.                              *)
Prep == {Idle} \cup Loading \cup Rereading \cup Ready
LEMMA PreparationKeeps ==
  ASSUME IInv, NEW v \in View, NEW new \in Prep, Prepares(v, new),
         UNCHANGED <<store, run, runtime, restarts>>,
         new # Idle => /\ new.at = "full" => FullInv(new)
                       /\ new.at = "ready" => ReadyInv(new)
  PROVE  IInv'
<1>1. UNCHANGED <<rev, turns, owned, ckpt, run, knows, gone, holed, restarts>>
  BY DEF store, runtime
<1>2. prep' \in [View -> Prep] /\ \A w \in View : prep'[w] = IF w = v THEN new ELSE prep[w]
  BY DEF IInv, TypeOK, Prepares, Prep
<1>3. TypeOK'
  BY <1>1, <1>2 DEF IInv, TypeOK, Prep
<1>4. Completed' = Completed
  BY <1>1 DEF Completed
<1>5. RevInv' /\ CkptInv' /\ RunInv' /\ \A a \in Agent : OwnedInv(a)'
  <2>1. RevInv' /\ CkptInv'
    BY <1>1, <1>4 DEF IInv, RevInv, CkptInv, SummaryIsOfTranscript
  <2>2. RunInv'
    BY <1>1, <1>4 DEF IInv, RunInv, RunOk, Tells, Holds
  <2>3. \A a \in Agent : OwnedInv(a)'
    BY <1>1, <1>4 DEF IInv, OwnedInv, Holds, UpTo
  <2> QED
    BY <2>1, <2>2, <2>3
<1>6. ASSUME NEW w \in View PROVE PrepInv(w)'
  <2>1. CASE w = v
    BY <1>1, <1>2, <1>4, <2>1 DEF PrepInv, FullInv, ReadyInv, DraftFits, Tells, Holds, UpTo
  <2>2. CASE w # v
    BY <1>1, <1>2, <1>4, <2>2 DEF IInv, PrepInv, FullInv, ReadyInv, DraftFits, Tells, Holds, UpTo
  <2> QED
    BY <2>1, <2>2
<1> QED
  BY <1>3, <1>5, <1>6 DEF IInv

(* A prompt by itself is right as long as nothing was completed.            *)
LEMMA PlainIsReady ==
  ASSUME NEW a \in Agent, NEW r \in 0..MaxRev
  PROVE  /\ PlainReady(a, r) \in Ready /\ PlainReady(a, r).at = "ready"
         /\ PlainReady(a, r).agent = a /\ PlainReady(a, r).rev = r
         /\ PlainReady(a, r).draft = NoDraft /\ PlainReady(a, r).prompt = BarePrompt
         /\ BarePrompt \in Prompt /\ BarePrompt.session = 0 /\ ~BarePrompt.rescue
BY ContextAssumption DEF PlainReady, BarePrompt, Ready, Prompt, Session, Turn

(* What is prepared from a source that is all there is, or for a session     *)
(* that holds it, tells everything; its draft summarises all up to its end. *)
LEMMA PreparedTells ==
  ASSUME IInv, NEW a \in Agent, NEW safe \in BOOLEAN, NEW resume \in BOOLEAN, NEW due \in BOOLEAN,
         NEW session \in Session, NEW torn \in BOOLEAN,
         safe \/ (resume /\ ~due /\ a # "codex"),
         resume => session # 0 /\ (torn \/ Holds(session, Completed)),
         NEW ready \in Prepared(a, safe, resume, due, session, torn)
  PROVE  ready \in Ready /\ ready.at = "ready" /\ ReadyInv(ready)
<1> DEFINE source == Source(safe)
           handoff == ckpt.covers \cup source
           drops == ~resume /\ Cardinality(source) > RawTail
           told == [PlainReady(a, rev) EXCEPT !.prompt.carries = handoff]
           without == [PlainReady(a, rev) EXCEPT !.prompt =
                        [session |-> session, carries |-> {}, rescue |-> a = "codex",
                         fresh |-> IF a = "codex" THEN handoff ELSE {}, torn |-> torn]]
           prefix(b) == {i \in source : i <= b}
           draft(b) == [rev |-> rev, through |-> b, extends |-> ckpt.through,
                        covers |-> ckpt.covers \cup prefix(b),
                        tells |-> mergeContextSummaries(ckpt.tells, NewSummary(prefix(b)))]
<1>1. \/ ~resume /\ ready = told
      \/ resume /\ ready = without
      \/ /\ due \/ drops \/ safe
         /\ \E n \in 0..Min({RawTail, Cardinality(source)}) :
              Boundary(source, n) # 0 /\ ready = [told EXCEPT !.draft = draft(Boundary(source, n))]
  <2> DEFINE ends == {Boundary(source, n) : n \in 0..Min({RawTail, Cardinality(source)})} \ {0}
             Checkpoints == {[told EXCEPT !.draft = draft(b)] : b \in ends}
             Without == IF ~resume THEN told ELSE without
  <2>1. ready \in (IF (due \/ drops) /\ source # {} THEN {} ELSE {Without})
                 \cup (IF due \/ drops \/ safe THEN Checkpoints ELSE {})
    BY DEF Prepared
  <2> HIDE DEF Without, Checkpoints
  <2>2. ready = Without \/ ((due \/ drops \/ safe) /\ ready \in Checkpoints)
    BY <2>1
  <2> HIDE DEF told, without, draft, drops, source
  <2> QED
    BY <2>2 DEF Without, Checkpoints
<1>2. /\ source \in SUBSET Completed /\ handoff \in SUBSET Turn
      /\ ckpt.covers = UpTo(ckpt.through) /\ ckpt.covers \in SUBSET Turn
      /\ Recalls(ckpt.tells, UpTo(ckpt.through)) /\ ckpt.through \in 0..MaxTurns
      /\ safe => source = PastCheckpoint /\ handoff = Completed
      /\ rev \in 0..MaxRev
  BY TurnsAreBounded
  DEF IInv, TypeOK, CkptInv, SummaryIsOfTranscript, UpTo, Source, PastCheckpoint
<1>3. PICK all \in SUBSET Turn, plain \in Ready, bare \in Prompt :
        /\ all = handoff /\ plain = PlainReady(a, rev) /\ bare = BarePrompt
        /\ plain.at = "ready" /\ plain.agent = a /\ plain.rev = rev /\ plain.draft = NoDraft
        /\ plain.prompt = bare /\ bare.session = 0 /\ ~bare.rescue
  BY <1>2, PlainIsReady
<1>4. /\ told \in Ready /\ told.at = "ready" /\ told.agent = a /\ told.rev = rev
      /\ told.draft = NoDraft /\ told.prompt.carries = handoff /\ told.prompt.session = 0
      /\ ~told.prompt.rescue
  <2>1. told = [plain EXCEPT !.prompt = [bare EXCEPT !.carries = all]]
    BY <1>3 DEF Ready
  <2> DEFINE q == [bare EXCEPT !.carries = all]
  <2>2. q \in Prompt /\ q.carries = all /\ q.session = 0 /\ q.rescue = bare.rescue
    BY <1>3 DEF Prompt
  <2> HIDE DEF q
  <2>3. PICK p \in Prompt : p = q
    BY <2>2
  <2>4. /\ [plain EXCEPT !.prompt = p] \in Ready /\ [plain EXCEPT !.prompt = p].at = "ready"
        /\ [plain EXCEPT !.prompt = p].agent = a /\ [plain EXCEPT !.prompt = p].rev = rev
        /\ [plain EXCEPT !.prompt = p].draft = NoDraft /\ [plain EXCEPT !.prompt = p].prompt = p
    BY <1>3 DEF Ready
  <2> QED
    BY <1>3, <2>1, <2>2, <2>3, <2>4 DEF q
<1> HIDE DEF told
<1>5. CASE ~resume /\ ready = told
  <2>1. handoff = Completed
    BY <1>2, <1>5
  <2> QED
    BY <1>2, <1>4, <1>5, <2>1, ContextAssumption DEF ReadyInv, Tells
<1>6. CASE resume /\ ready = without
  <2>1. PICK codex \in BOOLEAN, fresh \in SUBSET Turn :
          /\ codex = (a = "codex") /\ (codex <=> a = "codex")
          /\ fresh = IF codex THEN handoff ELSE {}
    BY <1>2
  <2> DEFINE q == [session |-> session, carries |-> {}, rescue |-> codex, fresh |-> fresh, torn |-> torn]
  <2>2. /\ q \in Prompt /\ q.session = session /\ q.carries = {} /\ q.rescue = codex
        /\ q.fresh = fresh /\ q.torn = torn
    BY DEF Prompt
  <2>3. ready = [plain EXCEPT !.prompt = q]
    BY <1>3, <1>6, <2>1
  <2> HIDE DEF q
  <2>4. /\ ready \in Ready /\ ready.at = "ready" /\ ready.agent = a /\ ready.rev = rev
        /\ ready.draft = NoDraft /\ ready.prompt = q
    BY <1>3, <2>2, <2>3 DEF Ready
  <2>5. Tells(q)
    <3>1. CASE torn
      BY <2>2, <3>1 DEF Tells
    <3>2. CASE ~torn
      <4>1. session # 0 /\ Holds(session, Completed) /\ (codex => Completed \subseteq fresh)
        BY <1>2, <1>6, <2>1, <3>2
      <4>2. Completed \ q.carries = Completed
        BY <2>2
      <4> QED
        BY <2>2, <4>1, <4>2 DEF Tells
    <3> QED
      BY <3>1, <3>2
  <2> QED
    BY <1>2, <2>1, <2>2, <2>4, <2>5, ContextAssumption DEF ReadyInv
<1>7. ASSUME due \/ drops \/ safe,
             NEW n \in 0..Min({RawTail, Cardinality(source)}), Boundary(source, n) # 0,
             ready = [told EXCEPT !.draft = draft(Boundary(source, n))]
      PROVE  ready \in Ready /\ ready.at = "ready" /\ ReadyInv(ready)
  <2>1. safe /\ handoff = Completed /\ source = PastCheckpoint
    BY <1>2, <1>7
  <2>2. PICK b \in Turn : b = Boundary(source, n)
    <3> DEFINE S == {i \in source : Speaks(i) /\ Cardinality({j \in source : j > i}) >= n}
    <3>1. S \in SUBSET (1..Len(turns)) /\ Len(turns) \in Nat
      BY <1>2, TurnsAreBounded DEF IInv
    <3> HIDE DEF S
    <3>2. Largest(S) # 0 => Largest(S) \in S
      BY <3>1, LargestOfBounded
    <3>3. Boundary(source, n) = Largest(S)
      BY DEF Boundary, S
    <3> QED
      BY <1>7, <3>1, <3>2, <3>3, TurnsAreBounded, ContextAssumption DEF IInv, Turn
  <2>3. PICK covers \in SUBSET Turn, tells \in SUBSET Turn :
          /\ covers = ckpt.covers \cup prefix(b)
          /\ covers = UpTo(ckpt.through) \cup UpTo(b)
          /\ tells = mergeContextSummaries(ckpt.tells, NewSummary(prefix(b)))
          /\ Recalls(tells, covers)
    <3> DEFINE S == prefix(b)
               whole == UpTo(ckpt.through) \cup S
    <3>1. /\ Len(turns) \in Nat /\ S \in SUBSET (1..Len(turns))
          /\ UpTo(ckpt.through) \in SUBSET (1..Len(turns)) /\ whole \in SUBSET Turn
      BY <1>2, TurnsAreBounded DEF IInv, UpTo
    <3>2. whole = UpTo(ckpt.through) \cup UpTo(b)
      BY <1>2, <2>1, TurnsAreBounded DEF IInv, PastCheckpoint, UpTo, Turn
    <3> HIDE DEF S
    <3>3. Recalls(mergeContextSummaries(ckpt.tells, NewSummary(S)), whole)
      BY <1>2, <3>1, MergeRecalls
    <3>4. mergeContextSummaries(ckpt.tells, NewSummary(S)) \in SUBSET whole
      BY <3>3 DEF Recalls
    <3> QED
      BY <1>2, <3>1, <3>2, <3>3, <3>4 DEF S
  <2> HIDE DEF prefix
  <2>4. PICK d \in Draft : d = draft(b) /\ d.rev = rev /\ d.through = b /\ DraftFits(d)
    <3> DEFINE new == [rev |-> rev, through |-> b, extends |-> ckpt.through,
                       covers |-> covers, tells |-> tells]
    <3>1. new \in Draft
      BY <1>2 DEF Draft
    <3>2. DraftFits(new)
      BY <2>3 DEF DraftFits
    <3> QED
      BY <2>3, <3>1, <3>2
  <2>5. /\ ready \in Ready /\ ready.at = "ready" /\ ready.agent = a /\ ready.rev = rev
        /\ ready.draft = d /\ ready.prompt = told.prompt
    <3>1. ready = [told EXCEPT !.draft = d]
      BY <1>7, <2>2, <2>4
    <3> QED
      BY <1>4, <3>1 DEF Ready
  <2>6. Tells(ready.prompt) /\ ~ready.prompt.rescue
    BY <1>4, <2>1, <2>5 DEF Tells
  <2> QED
    BY <1>2, <2>4, <2>5, <2>6 DEF ReadyInv, Draft
<1> QED
  BY <1>1, <1>5, <1>6, <1>7

-----------------------------------------------------------------------------
(* The preparation of a prompt.                                            *)

LEMMA SendBeginsKeeps ==
  ASSUME IInv, NEW v \in View, NEW a \in Agent, SendBegins(v, a)
  PROVE  IInv'
<1>1. UNCHANGED <<store, run, runtime, restarts>>
  BY DEF SendBegins
<1>2. CASE turns = <<>>
  <2>1. Prepares(v, PlainReady(a, NoRevision))
    BY <1>2 DEF SendBegins, Prepares
  <2>2. NoRevision \in 0..MaxRev /\ rev \in Nat
    BY ContextAssumption DEF NoRevision, IInv, TypeOK
  <2>3. Completed = {}
    BY <1>2 DEF Completed
  <2>4. Tells(BarePrompt)
    BY <2>2, <2>3, PlainIsReady DEF Tells
  <2>5. ReadyInv(PlainReady(a, NoRevision))
    BY <2>2, <2>4, PlainIsReady DEF ReadyInv, NoRevision
  <2>6. PICK new \in Ready : new = PlainReady(a, NoRevision)
    BY <2>2, PlainIsReady
  <2> QED
    BY <1>1, <2>1, <2>2, <2>5, <2>6, PlainIsReady, PreparationKeeps DEF Prep
<1>3. CASE turns # <<>>
  <2>0. [at |-> "window", agent |-> a] \in Loading /\ [at |-> "window", agent |-> a].at = "window"
    BY DEF Loading
  <2>1. PICK new \in Loading : new = [at |-> "window", agent |-> a] /\ new.at = "window"
    BY <2>0
  <2>2. Prepares(v, new)
    BY <1>3, <2>1 DEF SendBegins, Prepares
  <2> QED
    BY <1>1, <2>1, <2>2, PreparationKeeps DEF Prep
<1> QED
  BY <1>2, <1>3

LEMMA WindowLoadedKeeps ==
  ASSUME IInv, NEW v \in View, NEW candidate \in BOOLEAN, WindowLoaded(v, candidate)
  PROVE  IInv'
<1>1. UNCHANGED <<store, run, runtime, restarts>> /\ prep[v] # Idle /\ prep[v].at = "window"
  BY DEF WindowLoaded
<1>2. PICK a \in Agent, session \in Session, resume \in BOOLEAN, due \in BOOLEAN, safe \in BOOLEAN :
        /\ a = prep[v].agent /\ session = owned[a].session
        /\ resume <=> (candidate /\ evaluateTargetSessionFreshness(a))
        /\ due <=> Cardinality(PastCheckpoint) >= TurnLimit
        /\ safe <=> WindowIsSafe
        /\ \/ Completed = {} /\ Prepares(v, PlainReady(a, rev))
           \/ /\ Completed # {}
              /\ prep' = [prep EXCEPT ![v] =
                   [at |-> "full", agent |-> a, resume |-> resume, due |-> due,
                    session |-> session, rev |-> rev]]
           \/ /\ Completed # {} /\ (safe \/ (resume /\ ~due /\ a # "codex"))
              /\ \E ready \in Prepared(a, safe, resume, due, session, FALSE) : Prepares(v, ready)
  <2> DEFINE a == prep[v].agent
             resume == candidate /\ evaluateTargetSessionFreshness(a)
             due == Cardinality(PastCheckpoint) >= TurnLimit
             safe == WindowIsSafe
  <2>1. a \in Agent /\ owned[a].session \in Session
    BY <1>1 DEF IInv, TypeOK, Loading, Rereading, Ready
  <2>2. resume \in BOOLEAN /\ due \in BOOLEAN /\ safe \in BOOLEAN
    BY DEF evaluateTargetSessionFreshness, WindowIsSafe
  <2> USE <2>1, <2>2
  <2> WITNESS a \in Agent, owned[a].session \in Session, resume \in BOOLEAN, due \in BOOLEAN,
              safe \in BOOLEAN
  <2> QED
    BY DEF WindowLoaded
<1>3. rev \in 0..MaxRev
  BY DEF IInv, TypeOK
<1>4. resume /\ Completed # {} => session # 0 /\ Holds(session, Completed)
  BY <1>2, FreshSessionHolds
<1>5. CASE Completed = {} /\ Prepares(v, PlainReady(a, rev))
  <2>1. Tells(BarePrompt)
    BY <1>3, <1>5, PlainIsReady DEF Tells
  <2>2. ReadyInv(PlainReady(a, rev))
    BY <1>3, <2>1, PlainIsReady DEF ReadyInv
  <2>3. PICK new \in Ready : new = PlainReady(a, rev)
    BY <1>3, PlainIsReady
  <2> QED
    BY <1>1, <1>3, <1>5, <2>2, <2>3, PlainIsReady, PreparationKeeps DEF Prep
<1>6. CASE /\ Completed # {}
           /\ prep' = [prep EXCEPT ![v] =
                [at |-> "full", agent |-> a, resume |-> resume, due |-> due,
                 session |-> session, rev |-> rev]]
  <2> DEFINE p == [at |-> "full", agent |-> a, resume |-> resume, due |-> due,
                   session |-> session, rev |-> rev]
  <2>0. p \in Rereading /\ p.at = "full" /\ p.resume = resume /\ p.session = session /\ p.rev = rev
    BY <1>3 DEF Rereading
  <2>1. PICK new \in Rereading :
          /\ new = [at |-> "full", agent |-> a, resume |-> resume, due |-> due,
                    session |-> session, rev |-> rev]
          /\ new.at = "full" /\ new.resume = resume /\ new.session = session /\ new.rev = rev
    BY <2>0
  <2>2. FullInv(new)
    BY <1>3, <1>4, <1>6, <2>1 DEF FullInv
  <2>3. Prepares(v, new)
    BY <1>6, <2>1 DEF Prepares
  <2> QED
    BY <1>1, <2>1, <2>2, <2>3, PreparationKeeps DEF Prep
<1>7. ASSUME Completed # {}, safe \/ (resume /\ ~due /\ a # "codex"),
             NEW ready \in Prepared(a, safe, resume, due, session, FALSE), Prepares(v, ready)
      PROVE  IInv'
  <2>1. ready \in Ready /\ ready.at = "ready" /\ ReadyInv(ready)
    BY <1>4, <1>7, PreparedTells
  <2> QED
    BY <1>1, <1>7, <2>1, PreparationKeeps DEF Prep
<1> QED
  BY <1>2, <1>5, <1>6, <1>7

(* A later reading tells the session that was chosen earlier; that the       *)
(* conversation went on in between is remembered.                          *)
LEMMA FullLoadedKeeps ==
  ASSUME IInv, NEW v \in View, FullLoaded(v)
  PROVE  IInv'
<1>1. UNCHANGED <<store, run, runtime, restarts>> /\ prep[v] # Idle /\ prep[v].at = "full"
  BY DEF FullLoaded
<1>2. PICK p \in Rereading, torn \in BOOLEAN : p = prep[v] /\ (torn <=> rev # p.rev) /\ torn = (rev # p.rev)
  BY <1>1 DEF IInv, TypeOK, Loading, Rereading, Ready
<1>3. PICK ready \in Prepared(p.agent, TRUE, p.resume, p.due, p.session, torn) : Prepares(v, ready)
  BY <1>2 DEF FullLoaded
<1>4. /\ p.agent \in Agent /\ p.resume \in BOOLEAN /\ p.due \in BOOLEAN /\ p.session \in Session
      /\ p.resume => p.session # 0 /\ (torn \/ Holds(p.session, Completed))
  BY <1>1, <1>2 DEF Rereading, IInv, PrepInv, FullInv
<1>5. ready \in Ready /\ ready.at = "ready" /\ ReadyInv(ready)
  BY <1>3, <1>4, PreparedTells
<1> QED
  BY <1>1, <1>3, <1>5, PreparationKeeps DEF Prep

(* A preparation is dropped, or its prompt is refused.                      *)
LEMMA DropKeeps ==
  ASSUME IInv, NEW v \in View, PreparationFails(v) \/ SendRefused(v)
  PROVE  IInv'
<1>1. PICK new \in {Idle} : Prepares(v, new)
  BY DEF PreparationFails, SendRefused, Prepares
<1>2. UNCHANGED <<store, run, runtime, restarts>>
  BY DEF PreparationFails, SendRefused
<1> QED
  BY <1>1, <1>2, PreparationKeeps DEF Prep

-----------------------------------------------------------------------------
(* What a step does to the preparations under way.                          *)

(* A commit of the conversation outdates what was prepared before.           *)
LEMMA CommitOutdates ==
  ASSUME IInv, NEW v \in View, prep'[v] = prep[v], rev' = rev + 1
  PROVE  PrepInv(v)'
<1>1. rev \in Nat /\ PrepInv(v) /\ prep[v] \in Prep
  BY DEF IInv, TypeOK, Prep
<1>2. ASSUME prep[v] # Idle, prep[v].at = "full" PROVE FullInv(prep[v])'
  <2>1. FullInv(prep[v]) /\ prep[v].rev \in Nat
    BY <1>1, <1>2 DEF PrepInv, Prep, Loading, Rereading, Ready
  <2> QED
    BY <1>1, <2>1 DEF FullInv
<1>3. ASSUME prep[v] # Idle, prep[v].at = "ready" PROVE ReadyInv(prep[v])'
  <2>1. /\ ReadyInv(prep[v]) /\ prep[v].rev \in Nat
        /\ prep[v].draft # NoDraft => prep[v].draft.rev \in Nat
    BY <1>1, <1>3 DEF PrepInv, Prep, Loading, Rereading, Ready, Draft
  <2> QED
    BY <1>1, <2>1 DEF ReadyInv
<1> QED
  BY <1>2, <1>3 DEF PrepInv

(* Sessions only learn.                                                    *)
Learns == /\ \A s \in Session : knows[s] \subseteq knows'[s]
          /\ holed \subseteq holed'
LEMMA PreparationsStay ==
  ASSUME IInv, NEW v \in View, prep'[v] = prep[v], UNCHANGED <<rev, turns, ckpt>>, Learns
  PROVE  PrepInv(v)'
<1>1. Completed' = Completed /\ \A n : UpTo(n)' = UpTo(n)
  BY DEF Completed, UpTo
<1>2. PrepInv(v) /\ prep[v] \in Prep
  BY DEF IInv, TypeOK, Prep
<1>3. ASSUME prep[v] # Idle, prep[v].at = "full" PROVE FullInv(prep[v])'
  <2>1. FullInv(prep[v]) /\ prep[v].session \in Session
    BY <1>2, <1>3 DEF PrepInv, Prep, Loading, Rereading, Ready
  <2> QED
    BY <1>1, <2>1 DEF FullInv, Learns, Holds
<1>4. ASSUME prep[v] # Idle, prep[v].at = "ready" PROVE ReadyInv(prep[v])'
  <2>1. ReadyInv(prep[v]) /\ prep[v].prompt.session \in Session
    BY <1>2, <1>4 DEF PrepInv, Prep, Loading, Rereading, Ready, Prompt
  <2>2. Tells(prep[v].prompt) => Tells(prep[v].prompt)'
    BY <1>1, <2>1 DEF Tells, Learns, Holds
  <2> QED
    BY <1>1, <2>1, <2>2 DEF ReadyInv, DraftFits
<1> QED
  BY <1>3, <1>4 DEF PrepInv

-----------------------------------------------------------------------------
(* The turn and its run.                                                   *)

(* A turn begins where the prompt's revision is still that of the           *)
(* conversation: its draft is then of the transcript up to its end, and what *)
(* its prompt tells is everything.  A view that expects no revision may find *)
(* turns it does not know of, which is remembered.                          *)
LEMMA BeginTurnKeeps ==
  ASSUME IInv, NEW v \in View, NEW state \in {"active", "queued"}, beginTurn(v, state)
  PROVE  IInv'
<1>1. PICK p \in Ready : p = prep[v]
  BY DEF beginTurn, Reaches, IInv, TypeOK, Loading, Rereading
<1>2. /\ prep[v] # Idle /\ p.at = "ready" /\ run = NoRun /\ p.rev \in {NoRevision, rev}
      /\ rev' = rev + 1 /\ rev' \in 0..MaxRev /\ rev \in Nat /\ Len(turns) < MaxTurns
      /\ prep' = [prep EXCEPT ![v] = Idle]
      /\ UNCHANGED <<owned, knows, gone, holed, restarts>>
  BY <1>1, ContextAssumption
  DEF beginTurn, Reaches, Commit, RevisionMatches, runtime, IInv, TypeOK
<1>3. PICK r \in TurnRecord : r.state = state /\ turns' = Append(turns, r)
  <2>1. /\ [agent |-> p.agent, state |-> state, speaks |-> FALSE] \in TurnRecord
        /\ [agent |-> p.agent, state |-> state, speaks |-> FALSE].state = state
    BY DEF TurnRecord, State, Ready
  <2> QED
    BY <1>1, <2>1 DEF beginTurn
<1>4. /\ turns' \in Seq(TurnRecord) /\ Len(turns') = Len(turns) + 1 /\ turns' # <<>>
      /\ Len(turns) \in Nat /\ turns'[Len(turns) + 1] = r
      /\ \A i \in 1..Len(turns) : turns'[i] = turns[i]
  <2>1. turns \in Seq(TurnRecord)
    BY DEF IInv, TypeOK
  <2> QED
    BY <1>3, <2>1
<1>5. Completed' = Completed /\ \A n : UpTo(n)' = UpTo(n)
  <2>1. DOMAIN turns' = 1..(Len(turns) + 1) /\ DOMAIN turns = 1..Len(turns)
    BY <1>4 DEF IInv, TypeOK
  <2>2. Completed' = Completed
    BY <1>3, <1>4, <2>1 DEF Completed
  <2> QED
    BY <2>2 DEF UpTo
<1>6. /\ ckpt' \in [through : 0..MaxTurns, covers : SUBSET Turn, tells : SUBSET Turn]
      /\ ckpt'.through <= Len(turns) /\ ckpt'.covers = UpTo(ckpt'.through)
      /\ Recalls(ckpt'.tells, ckpt'.covers)
  <2>1. CASE p.draft = NoDraft
    BY <1>1, <2>1 DEF beginTurn, IInv, TypeOK, CkptInv, SummaryIsOfTranscript, UpTo
  <2>2. CASE p.draft # NoDraft
    <3>1. /\ p.draft \in Draft /\ p.draft.rev = rev /\ p.draft.through \in Completed
          /\ p.draft.through > ckpt.through
          /\ ckpt' = [through |-> p.draft.through, covers |-> p.draft.covers,
                      tells |-> p.draft.tells]
      BY <1>1, <2>2 DEF beginTurn, MayCheckpoint, Ready
    <3>2. /\ p.draft.covers = UpTo(ckpt.through) \cup UpTo(p.draft.through)
          /\ Recalls(p.draft.tells, p.draft.covers)
      BY <1>1, <1>2, <2>2, <3>1 DEF IInv, PrepInv, ReadyInv, DraftFits
    <3>3. /\ UpTo(ckpt.through) \subseteq UpTo(p.draft.through)
          /\ p.draft.through \in 1..Len(turns)
      BY <3>1, TurnsAreBounded DEF IInv, TypeOK, UpTo
    <3> QED
      BY <3>1, <3>2, <3>3, ContextAssumption DEF Draft, Turn
  <2> QED
    BY <2>1, <2>2
<1>7. PICK q \in Prompt :
        /\ run' = [at |-> "begun", agent |-> p.agent, turn |-> Len(turns) + 1, claimed |-> FALSE,
                   prompt |-> q]
        /\ Tells(q)' /\ (q.rescue => p.agent = "codex")
  <2>1. PICK o \in Prompt, torn \in BOOLEAN :
          /\ o = p.prompt /\ torn = (o.torn \/ (p.rev = NoRevision /\ turns # <<>>))
          /\ torn <=> (o.torn \/ (p.rev = NoRevision /\ turns # <<>>))
    BY DEF Ready, Prompt
  <2> DEFINE q == [o EXCEPT !.torn = torn]
  <2>2. /\ q \in Prompt /\ q.torn = torn /\ q.session = o.session /\ q.carries = o.carries
        /\ q.rescue = o.rescue /\ q.fresh = o.fresh
    BY DEF Prompt
  <2>3. run' = [at |-> "begun", agent |-> p.agent, turn |-> Len(turns) + 1, claimed |-> FALSE,
                prompt |-> q]
    <3>1. [o EXCEPT !.torn = @ \/ (p.rev = NoRevision /\ turns # <<>>)] = q
      BY <2>1
    <3> QED
      BY <1>1, <2>1, <3>1 DEF beginTurn
  <2> HIDE DEF q
  <2>4. ReadyInv(p)
    BY <1>1, <1>2 DEF IInv, PrepInv
  <2>5. Tells(q)'
    <3>1. CASE torn
      BY <2>2, <3>1 DEF Tells
    <3>2. CASE p.rev = rev /\ ~torn
      <4>1. Tells(o) /\ ~o.torn
        BY <2>1, <2>4, <3>2 DEF ReadyInv
      <4> QED
        BY <1>2, <1>5, <2>2, <4>1 DEF Tells, Holds
    <3>3. CASE p.rev = NoRevision /\ turns = <<>>
      <4>1. Completed = {}
        BY <3>3 DEF Completed
      <4> QED
        BY <1>5, <2>2, <4>1 DEF Tells, Holds
    <3> QED
      BY <1>2, <2>1, <3>1, <3>2, <3>3
  <2> QED
    BY <2>1, <2>2, <2>3, <2>4, <2>5 DEF ReadyInv
<1>8. PICK new \in Run :
        /\ run' = new /\ new.at = "begun" /\ new.agent = p.agent /\ new.turn = Len(turns) + 1
        /\ new.prompt = q /\ ~new.claimed
  <2>1. PICK a \in Agent, n \in Turn : a = p.agent /\ n = Len(turns) + 1
    BY <1>2, <1>4, ContextAssumption DEF Ready, Turn
  <2> DEFINE m == [at |-> "begun", agent |-> a, turn |-> n, claimed |-> FALSE, prompt |-> q]
  <2>2. m \in Run /\ m.at = "begun" /\ m.agent = a /\ m.turn = n /\ m.prompt = q /\ ~m.claimed
    BY DEF Run
  <2>3. run' = m
    BY <1>7, <2>1
  <2> HIDE DEF m
  <2> QED
    BY <2>1, <2>2, <2>3
<1>9. TypeOK'
  <2>1. prep' \in [View -> {Idle} \cup Loading \cup Rereading \cup Ready]
    BY <1>2 DEF IInv, TypeOK
  <2>2. turns' \in Seq(TurnRecord) /\ Len(turns') <= MaxTurns
    BY <1>2, <1>4, ContextAssumption
  <2>3. /\ owned' \in [Agent -> [session : Session, turn : 0..MaxTurns]]
        /\ knows' \in [Session -> SUBSET Turn]
        /\ gone' \subseteq Session /\ holed' \subseteq Session /\ restarts' \in 0..MaxRestarts
    BY <1>2 DEF IInv, TypeOK
  <2> QED
    BY <1>2, <1>6, <1>8, <2>1, <2>2, <2>3 DEF TypeOK
<1>10. RevInv' /\ CkptInv'
  BY <1>2, <1>4, <1>5, <1>6 DEF RevInv, CkptInv, SummaryIsOfTranscript, UpTo
<1>11. ASSUME NEW a \in Agent PROVE OwnedInv(a)'
  <2>1. OwnedInv(a) /\ owned[a].turn \in Nat
    BY DEF IInv, TypeOK
  <2> QED
    BY <1>2, <1>4, <1>5, <2>1 DEF OwnedInv, Holds
<1>12. RunInv'
  <2>1. new.turn \notin Completed'
    BY <1>4, <1>5, <1>8, TurnsAreBounded DEF IInv
  <2>2. \A a \in Agent : owned'[a].turn # new.turn
    BY <1>2, <1>4, <1>8 DEF IInv, TypeOK, OwnedInv
  <2>3. ckpt'.through < new.turn /\ new.turn = Len(turns')
    BY <1>4, <1>6, <1>8
  <2>4. Tells(new.prompt)' /\ (new.prompt.rescue => new.agent = "codex")
    BY <1>7, <1>8
  <2>5. RunOk(new)'
    BY <1>8, <2>1, <2>2, <2>3, <2>4 DEF RunOk
  <2> QED
    BY <1>8, <2>5 DEF RunInv
<1>13. ASSUME NEW w \in View PROVE PrepInv(w)'
  <2>1. CASE w = v
    BY <1>2, <2>1 DEF IInv, TypeOK, PrepInv
  <2>2. CASE w # v
    BY <1>2, <2>2, CommitOutdates DEF IInv, TypeOK
  <2> QED
    BY <2>1, <2>2
<1> QED
  BY <1>9, <1>10, <1>11, <1>12, <1>13 DEF IInv

(* A claim is of the run's own session and turn.                            *)
LEMMA ClaimKeeps ==
  ASSUME IInv, run # NoRun, run.prompt.session # 0, Claim(run.prompt.session)
  PROVE  IInv'
<1>1. PICK r \in Run : r = run
  BY DEF IInv, TypeOK
<1>2. /\ rev' = rev + 1 /\ rev' \in 0..MaxRev /\ rev \in Nat
      /\ owned' = [owned EXCEPT ![r.agent] = [session |-> r.prompt.session, turn |-> r.turn]]
      /\ run' = [r EXCEPT !.claimed = TRUE]
      /\ UNCHANGED <<turns, ckpt, prep, knows, gone, holed, restarts>>
  BY <1>1, ContextAssumption DEF Claim, Commit, runtime, IInv, TypeOK
<1>3. PICK new \in Run :
        /\ run' = new /\ new.at = r.at /\ new.agent = r.agent /\ new.turn = r.turn
        /\ new.prompt = r.prompt /\ new.claimed
  <2>1. [r EXCEPT !.claimed = TRUE] \in Run
    BY DEF Run
  <2> QED
    BY <1>2, <2>1 DEF Run
<1>4. /\ r.agent \in Agent /\ r.prompt.session \in Session /\ r.turn \in 0..MaxTurns
      /\ r.turn = Len(turns) /\ r.turn \notin Completed
  BY <1>1, ContextAssumption DEF IInv, TypeOK, Run, Prompt, RunInv, RunOk, Turn
<1>5. /\ owned' \in [Agent -> [session : Session, turn : 0..MaxTurns]]
      /\ owned'[r.agent] = [session |-> r.prompt.session, turn |-> r.turn]
      /\ \A a \in Agent \ {r.agent} : owned'[a] = owned[a]
  BY <1>2, <1>4 DEF IInv, TypeOK
<1>6. TypeOK'
  BY <1>2, <1>3, <1>5 DEF IInv, TypeOK
<1>7. Completed' = Completed /\ \A n : UpTo(n)' = UpTo(n)
  BY <1>2 DEF Completed, UpTo
<1>8. RevInv' /\ CkptInv'
  BY <1>2, <1>7 DEF IInv, RevInv, CkptInv, SummaryIsOfTranscript
<1>9. ASSUME NEW a \in Agent PROVE OwnedInv(a)'
  <2>1. CASE a = r.agent
    BY <1>2, <1>4, <1>5, <1>7, <2>1 DEF OwnedInv, IInv, TypeOK
  <2>2. CASE a # r.agent
    BY <1>2, <1>5, <1>7, <2>2 DEF OwnedInv, Holds, IInv
  <2> QED
    BY <2>1, <2>2
<1>10. RunInv'
  <2>1. \A s, T : Holds(s, T)' <=> Holds(s, T)
    BY <1>2 DEF Holds
  <2>2. Tells(new.prompt)' <=> Tells(r.prompt)
    BY <1>2, <1>3, <1>7 DEF Tells, Holds
  <2>3. RunOk(r)
    BY <1>1 DEF IInv, RunInv
  <2>4. \A a \in Agent : owned'[a].turn = new.turn => a = new.agent
    BY <1>3, <1>5, <2>3 DEF RunOk
  <2>5. RunOk(new)'
    BY <1>1, <1>2, <1>3, <1>5, <1>7, <2>1, <2>2, <2>3, <2>4 DEF RunOk
  <2> QED
    BY <1>3, <2>5 DEF RunInv
<1>11. ASSUME NEW w \in View PROVE PrepInv(w)'
  BY <1>2, CommitOutdates
<1> QED
  BY <1>6, <1>8, <1>9, <1>10, <1>11 DEF IInv

(* A session is opened, with what it is to be told.                         *)
LEMMA OpenedKeeps ==
  ASSUME IInv, run # NoRun, run.at = "begun", NEW s \in Session \ {0}, NEW carried \in SUBSET Turn,
         Opened(s, carried),
         run.prompt.torn \/ Holds(s, Completed \ carried),
         s = run.prompt.session => run.claimed,
         s # run.prompt.session => \/ ~run.claimed /\ run.prompt.session = 0
                                   \/ run.agent = "codex"
  PROVE  IInv'
<1>1. PICK r \in Run : r = run
  BY DEF IInv, TypeOK
<1>2. PICK claimed \in BOOLEAN, q \in Prompt :
        /\ claimed <=> s = r.prompt.session
        /\ q.session = s /\ q.carries = carried /\ q.torn = r.prompt.torn /\ ~q.rescue
        /\ run' = [r EXCEPT !.at = "open", !.claimed = claimed, !.prompt = q]
  <2>1. PICK b \in Prompt, torn \in BOOLEAN : b = BarePrompt /\ ~b.rescue /\ torn = r.prompt.torn
    <3>1. BarePrompt \in Prompt /\ ~BarePrompt.rescue
      BY ContextAssumption DEF BarePrompt, Prompt, Session
    <3> QED
      BY <3>1 DEF Run, Prompt
  <2> DEFINE q == [b EXCEPT !.session = s, !.carries = carried, !.torn = torn]
  <2>2. q \in Prompt /\ q.session = s /\ q.carries = carried /\ q.torn = torn /\ ~q.rescue
    BY <2>1 DEF Prompt
  <2>3. PICK claimed \in BOOLEAN :
          /\ claimed <=> s = r.prompt.session
          /\ run' = [r EXCEPT !.at = "open", !.claimed = claimed,
                              !.prompt = [BarePrompt EXCEPT !.session = s, !.carries = carried,
                                                            !.torn = r.prompt.torn]]
    BY <1>1 DEF Opened
  <2>4. q = [BarePrompt EXCEPT !.session = s, !.carries = carried, !.torn = r.prompt.torn]
    BY <2>1
  <2> HIDE DEF q
  <2> QED
    BY <2>1, <2>2, <2>3, <2>4
<1>3. PICK new \in Run :
        /\ run' = new /\ new.at = "open" /\ new.agent = r.agent /\ new.turn = r.turn
        /\ new.prompt = q /\ new.claimed = claimed
  <2> DEFINE m == [r EXCEPT !.at = "open", !.claimed = claimed, !.prompt = q]
  <2>1. /\ m \in Run /\ m.at = "open" /\ m.agent = r.agent /\ m.turn = r.turn
        /\ m.prompt = q /\ m.claimed = claimed
    BY DEF Run
  <2>2. run' = m
    BY <1>2
  <2> HIDE DEF m
  <2> QED
    BY <2>1, <2>2
<1>4. UNCHANGED <<rev, turns, owned, ckpt, prep, knows, gone, holed, restarts>>
  BY DEF Opened, store, runtime
<1>5. TypeOK'
  BY <1>3, <1>4 DEF IInv, TypeOK
<1>6. Completed' = Completed /\ \A n : UpTo(n)' = UpTo(n)
  BY <1>4 DEF Completed, UpTo
<1>7. RevInv' /\ CkptInv'
  BY <1>4, <1>6 DEF IInv, RevInv, CkptInv, SummaryIsOfTranscript
<1>8. ASSUME NEW a \in Agent PROVE OwnedInv(a)'
  BY <1>4, <1>6 DEF IInv, OwnedInv, Holds
<1>9. RunInv'
  <2>1. Tells(q)'
    BY <1>1, <1>2, <1>4, <1>6 DEF Tells, Holds
  <2>2. RunOk(r)
    BY <1>1 DEF IInv, RunInv
  <2>3. claimed => owned[r.agent] = [session |-> s, turn |-> r.turn]
    BY <1>1, <1>2, <2>2 DEF RunOk
  <2>4. \A a \in Agent : owned[a].turn = r.turn => a = r.agent /\ (claimed \/ r.agent = "codex")
    <3>1. \A a \in Agent : owned[a].turn = r.turn => a = r.agent /\ r.claimed
      BY <1>1, <2>2 DEF RunOk
    <3>2. r.claimed => r.prompt.session # 0
      BY <2>2 DEF RunOk
    <3> QED
      BY <1>1, <1>2, <3>1, <3>2
  <2>5. RunOk(new)'
    BY <1>2, <1>3, <1>4, <1>6, <2>1, <2>2, <2>3, <2>4 DEF RunOk
  <2> QED
    BY <1>3, <2>5 DEF RunInv
<1>10. ASSUME NEW w \in View PROVE PrepInv(w)'
  BY <1>4, PreparationsStay DEF Learns
<1> QED
  BY <1>5, <1>7, <1>8, <1>9, <1>10 DEF IInv

(* The sessions a run opens: the one it continues, a new one, or a new one   *)
(* because the one to continue cannot be.                                  *)
LEMMA OpeningKeeps ==
  ASSUME IInv, ResumeSession \/ StartSession \/ ResumeFallsBack
  PROVE  IInv'
<1>1. /\ run # NoRun /\ run.at = "begun" /\ (run.prompt.session # 0 => run.claimed)
      /\ Tells(run.prompt)
      /\ run.claimed => run.prompt.session # 0
      /\ run.prompt.rescue => run.agent = "codex"
  BY DEF ResumeSession, StartSession, ResumeFallsBack, Opening, IInv, RunInv, RunOk
<1>2. /\ run \in Run /\ run.prompt \in Prompt /\ run.prompt.session \in Session
      /\ run.prompt.carries \in SUBSET Turn /\ run.prompt.fresh \in SUBSET Turn
      /\ run.turn \in Session \ {0}
  BY <1>1, ContextAssumption DEF IInv, TypeOK, Run, Prompt, Session, Turn
<1>3. CASE ResumeSession
  <2>1. run.prompt.session # 0 /\ Opened(run.prompt.session, run.prompt.carries)
    BY <1>3 DEF ResumeSession
  <2>2. run.prompt.torn \/ Holds(run.prompt.session, Completed \ run.prompt.carries)
    BY <1>1, <2>1 DEF Tells
  <2> QED
    BY <1>1, <1>2, <2>1, <2>2, OpenedKeeps
<1>4. CASE StartSession
  <2>1. run.prompt.session = 0 /\ Opened(run.turn, run.prompt.carries)
    BY <1>4 DEF StartSession
  <2>2. run.prompt.torn \/ Completed \ run.prompt.carries = {}
    BY <1>1, <2>1 DEF Tells
  <2>3. run.prompt.torn \/ Holds(run.turn, Completed \ run.prompt.carries)
    BY <2>2 DEF Holds
  <2> QED
    BY <1>1, <1>2, <2>1, <2>3, OpenedKeeps
<1>5. CASE ResumeFallsBack
  <2>1. run.prompt.session # 0 /\ run.prompt.rescue /\ Opened(run.turn, run.prompt.fresh)
    BY <1>5 DEF ResumeFallsBack
  <2>2. run.prompt.torn \/ Completed \ run.prompt.fresh = {}
    BY <1>1, <2>1 DEF Tells
  <2>3. run.prompt.torn \/ Holds(run.turn, Completed \ run.prompt.fresh)
    BY <2>2 DEF Holds
  <2> QED
    BY <1>1, <1>2, <2>1, <2>3, OpenedKeeps
<1> QED
  BY <1>3, <1>4, <1>5


(* The session that takes a prompt holds every completed turn from then on,  *)
(* and the new one.                                                        *)
LEMMA TellKeeps ==
  ASSUME IInv, Tell
  PROVE  IInv'
<1>1. PICK r \in Run : r = run /\ r.at = "open" /\ (r.agent = "codex" => r.claimed) /\ RunOk(r)
  BY DEF Tell, IInv, TypeOK, RunInv
<1>2. PICK s \in Session, carries \in SUBSET Turn, torn \in BOOLEAN, n \in Turn :
        /\ s = r.prompt.session /\ carries = r.prompt.carries /\ torn = r.prompt.torn
        /\ n = r.turn /\ s # 0
  BY <1>1 DEF Run, Prompt, RunOk
<1>3. /\ knows' = [knows EXCEPT ![s] = @ \cup carries \cup {n}]
      /\ holed' = IF torn THEN holed \cup {s} ELSE holed
      /\ run' = [r EXCEPT !.at = "told", !.prompt = [BarePrompt EXCEPT !.session = s]]
      /\ UNCHANGED <<rev, turns, owned, ckpt, prep, gone, restarts>>
  BY <1>1, <1>2 DEF Tell, store
<1>4. /\ knows' \in [Session -> SUBSET Turn] /\ knows'[s] = knows[s] \cup carries \cup {n}
      /\ holed' \subseteq Session /\ Learns
  BY <1>2, <1>3 DEF IInv, TypeOK, Learns
<1>5. PICK q \in Prompt : q = [BarePrompt EXCEPT !.session = s] /\ q.session = s /\ ~q.rescue
  <2>1. PICK b \in Prompt : b = BarePrompt /\ ~b.rescue
    <3>1. BarePrompt \in Prompt /\ ~BarePrompt.rescue
      BY ContextAssumption DEF BarePrompt, Prompt, Session
    <3> QED
      BY <3>1
  <2>2. [b EXCEPT !.session = s] \in Prompt
    BY DEF Prompt
  <2> QED
    BY <2>1, <2>2 DEF Prompt
<1>6. PICK new \in Run :
        /\ run' = new /\ new.at = "told" /\ new.agent = r.agent /\ new.turn = n
        /\ new.claimed = r.claimed /\ new.prompt = q
  <2> DEFINE m == [r EXCEPT !.at = "told", !.prompt = q]
  <2>1. /\ m \in Run /\ m.at = "told" /\ m.agent = r.agent /\ m.turn = r.turn
        /\ m.claimed = r.claimed /\ m.prompt = q
    BY DEF Run
  <2>2. run' = m
    BY <1>3, <1>5
  <2> HIDE DEF m
  <2> QED
    BY <1>2, <2>1, <2>2
<1>7. Completed' = Completed /\ \A k : UpTo(k)' = UpTo(k)
  BY <1>3 DEF Completed, UpTo
<1>8. TypeOK'
  BY <1>3, <1>4, <1>6 DEF IInv, TypeOK
<1>9. RevInv' /\ CkptInv'
  BY <1>3, <1>7 DEF IInv, RevInv, CkptInv, SummaryIsOfTranscript
<1>10. ASSUME NEW a \in Agent PROVE OwnedInv(a)'
  <2>1. OwnedInv(a) /\ owned[a].session \in Session
    BY DEF IInv, TypeOK
  <2> QED
    BY <1>3, <1>4, <1>7, <2>1 DEF OwnedInv, Holds, Learns
<1>11. RunInv'
  <2>1. Holds(s, Completed \cup {n})'
    <3>1. torn \/ Holds(s, Completed \ carries)
      BY <1>1, <1>2 DEF RunOk, Tells
    <3>2. CASE torn
      BY <1>3, <3>2 DEF Holds
    <3>3. CASE Holds(s, Completed \ carries)
      BY <1>3, <1>4, <1>7, <3>3 DEF Holds
    <3> QED
      BY <3>1, <3>2, <3>3
  <2>2. \A a \in Agent : owned[a].turn = n => a = r.agent /\ r.claimed
    BY <1>1, <1>2 DEF RunOk
  <2>3. /\ n = Len(turns) /\ n > ckpt.through /\ n \notin Completed
        /\ r.claimed => owned[r.agent] = [session |-> s, turn |-> n]
    BY <1>1, <1>2 DEF RunOk
  <2>4. RunOk(new)'
    BY <1>1, <1>2, <1>3, <1>5, <1>6, <1>7, <2>1, <2>2, <2>3 DEF RunOk
  <2> QED
    BY <1>6, <2>4 DEF RunInv
<1>12. ASSUME NEW w \in View PROVE PrepInv(w)'
  BY <1>3, <1>4, PreparationsStay
<1> QED
  BY <1>8, <1>9, <1>10, <1>11, <1>12 DEF IInv

(* A turn completes only once its session was told; whoever claimed a session *)
(* for it is its own agent.                                                *)
LEMMA FinishKeeps ==
  ASSUME IInv, run # NoRun, NEW state \in {"completed", "ended"}, NEW speaks \in BOOLEAN,
         Finish(state, speaks), state = "completed" => run.at = "told"
  PROVE  IInv'
<1>1. PICK r \in Run, n \in Turn : r = run /\ RunOk(r) /\ n = r.turn
  BY DEF IInv, TypeOK, RunInv, Run
<1>2. /\ Len(turns) \in Nat /\ DOMAIN turns = 1..Len(turns) /\ Len(turns) <= MaxTurns
      /\ n = Len(turns) /\ n \in 1..Len(turns) /\ n > ckpt.through /\ n \notin Completed
      /\ Completed \in SUBSET (1..Len(turns)) /\ ckpt.through \in Nat /\ rev \in Nat
  BY <1>1, TurnsAreBounded, ContextAssumption DEF IInv, TypeOK, RunOk, Turn
<1>3. /\ rev' = rev + 1 /\ rev' \in 0..MaxRev /\ run' = NoRun
      /\ UNCHANGED <<owned, ckpt, prep, knows, gone, holed, restarts>>
  BY ContextAssumption DEF Finish, Commit, runtime, IInv, TypeOK
<1>4. PICK t \in TurnRecord : turns' = [turns EXCEPT ![n] = t] /\ t.state = state
  <2>1. PICK t0 \in TurnRecord : t0 = turns[n]
    BY <1>2, TurnsAreBounded DEF IInv
  <2> DEFINE t == [t0 EXCEPT !.state = state, !.speaks = speaks]
  <2>2. t \in TurnRecord /\ t.state = state
    BY DEF TurnRecord, State
  <2>3. turns' = [turns EXCEPT ![n].state = state, ![n].speaks = speaks]
    BY <1>1 DEF Finish
  <2>4. turns' = [turns EXCEPT ![n] = t]
    BY <1>2, <2>1, <2>3
  <2> HIDE DEF t
  <2> QED
    BY <2>2, <2>4
<1>5. /\ turns' \in Seq(TurnRecord) /\ Len(turns') = Len(turns) /\ DOMAIN turns' = DOMAIN turns
      /\ turns'[n] = t /\ \A i \in DOMAIN turns \ {n} : turns'[i] = turns[i]
  BY <1>2, <1>4, ExceptSeq DEF IInv, TypeOK
<1>6. Completed' = IF state = "completed" THEN Completed \cup {n} ELSE Completed
  <2>1. n \in Completed' <=> state = "completed"
    BY <1>2, <1>4, <1>5 DEF Completed
  <2>2. \A i : i # n => (i \in Completed' <=> i \in Completed)
    BY <1>5 DEF Completed
  <2>3. CASE state = "completed"
    BY <2>1, <2>2, <2>3
  <2>4. CASE state # "completed"
    BY <1>2, <2>1, <2>2, <2>4
  <2> QED
    BY <2>3, <2>4
<1>7. \A k \in Nat : k < n => UpTo(k)' = UpTo(k)
  BY <1>2, <1>6 DEF UpTo
<1>8. TypeOK'
  BY <1>2, <1>3, <1>5 DEF IInv, TypeOK
<1>9. RevInv' /\ CkptInv'
  <2>1. RevInv'
    BY <1>2, <1>3 DEF RevInv
  <2>2. UpTo(ckpt.through)' = UpTo(ckpt.through)
    BY <1>2, <1>3, <1>7 DEF UpTo
  <2> QED
    BY <1>3, <1>5, <2>1, <2>2 DEF IInv, CkptInv, SummaryIsOfTranscript, UpTo
<1>10. ASSUME NEW a \in Agent PROVE OwnedInv(a)'
  <2>1. OwnedInv(a) /\ owned[a].turn \in Nat /\ owned[a].turn <= n
    BY <1>2 DEF IInv, TypeOK, OwnedInv
  <2>2. CASE owned[a].turn < n
    BY <1>2, <1>3, <1>5, <1>6, <1>7, <2>1, <2>2 DEF OwnedInv, Holds, UpTo
  <2>3. CASE owned[a].turn = n /\ state = "ended"
    BY <1>2, <1>3, <1>5, <1>6, <2>3 DEF OwnedInv
  <2>4. CASE owned[a].turn = n /\ state = "completed"
    <3>1. r.at = "told" /\ a = r.agent /\ r.claimed
      BY <1>1, <2>4 DEF RunOk
    <3>2. owned[a].session = r.prompt.session
      BY <1>1, <3>1 DEF RunOk
    <3>3. Holds(owned[a].session, Completed \cup {n})
      BY <1>1, <3>1, <3>2 DEF RunOk
    <3>4. UpTo(n)' = Completed \cup {n}
      <4>1. Completed' = Completed \cup {n} /\ UpTo(n)' = {i \in Completed' : i <= n}
        BY <1>6, <2>4 DEF UpTo
      <4>2. \A i \in Completed \cup {n} : i <= n
        <5>1. n \in Nat /\ \A i \in 1..n : i <= n
          BY <1>2
        <5> QED
          BY <1>2, <5>1
      <4> QED
        BY <4>1, <4>2
    <3> QED
      BY <1>2, <1>3, <1>5, <2>4, <3>3, <3>4 DEF OwnedInv, Holds, UpTo
  <2> QED
    BY <1>2, <2>1, <2>2, <2>3, <2>4
<1>11. RunInv'
  BY <1>3 DEF RunInv
<1>12. ASSUME NEW w \in View PROVE PrepInv(w)'
  BY <1>3, CommitOutdates
<1> QED
  BY <1>8, <1>9, <1>10, <1>11, <1>12 DEF IInv

(* A run given up leaves the conversation as it is.                         *)
LEMMA RunBlockedKeeps ==
  ASSUME IInv, RunBlocked
  PROVE  IInv'
<1>1. run' = NoRun /\ UNCHANGED <<rev, turns, owned, ckpt, prep, knows, gone, holed, restarts>>
  BY DEF RunBlocked, store, runtime
<1>2. Completed' = Completed /\ \A k : UpTo(k)' = UpTo(k)
  BY <1>1 DEF Completed, UpTo
<1>3. TypeOK' /\ RunInv'
  BY <1>1 DEF IInv, TypeOK, RunInv
<1>4. RevInv' /\ CkptInv'
  BY <1>1, <1>2 DEF IInv, RevInv, CkptInv, SummaryIsOfTranscript
<1>5. \A a \in Agent : OwnedInv(a)'
  BY <1>1, <1>2 DEF IInv, OwnedInv, Holds
<1>6. ASSUME NEW w \in View PROVE PrepInv(w)'
  BY <1>1, PreparationsStay DEF Learns
<1> QED
  BY <1>3, <1>4, <1>5, <1>6 DEF IInv

(* A restart completes nothing and forgets what was prepared.                *)
LEMMA RestartKeeps ==
  ASSUME IInv, Restart
  PROVE  IInv'
<1>1. /\ turns' = [i \in DOMAIN turns |-> Recovered(turns[i])]
      /\ rev' \in {rev, rev + 1} /\ rev' \in 0..MaxRev
      /\ prep' = [v \in View |-> Idle] /\ run' = NoRun /\ restarts' \in 0..MaxRestarts
      /\ UNCHANGED <<owned, ckpt, knows, gone, holed>>
  <2>1. rev \in 0..MaxRev /\ restarts \in 0..MaxRestarts /\ MaxRev \in Nat /\ MaxRestarts \in Nat
    BY ContextAssumption DEF IInv, TypeOK
  <2>2. rev' \in {rev, rev + 1} /\ rev' \in 0..MaxRev
    BY <2>1 DEF Restart, Commit
  <2>3. restarts' \in 0..MaxRestarts
    BY <2>1 DEF Restart
  <2> QED
    BY <2>2, <2>3 DEF Restart, runtime
<1>2. /\ Len(turns) \in Nat /\ DOMAIN turns = 1..Len(turns) /\ Len(turns) <= MaxTurns
      /\ rev \in Nat
  BY TurnsAreBounded DEF IInv, TypeOK
<1>3. ASSUME NEW i \in DOMAIN turns
      PROVE  /\ Recovered(turns[i]) \in TurnRecord
             /\ Recovered(turns[i]).state = "completed" <=> turns[i].state = "completed"
  <2>1. PICK t \in TurnRecord : t = turns[i]
    BY TurnsAreBounded DEF IInv
  <2>2. PICK new \in State : /\ Recovered(t) = [t EXCEPT !.state = new]
                             /\ new = "completed" <=> t.state = "completed"
    <3>1. CASE t.state = "active"
      BY <3>1 DEF Recovered, TurnRecord, State
    <3>2. CASE t.state = "queued"
      BY <3>2 DEF Recovered, TurnRecord, State
    <3>3. CASE t.state \notin {"active", "queued"}
      BY <3>3 DEF Recovered, TurnRecord, State
    <3> QED
      BY <3>1, <3>2, <3>3
  <2>3. [t EXCEPT !.state = new] \in TurnRecord /\ [t EXCEPT !.state = new].state = new
    BY DEF TurnRecord
  <2> QED
    BY <2>1, <2>2, <2>3
<1>4. turns' \in Seq(TurnRecord) /\ Len(turns') = Len(turns) /\ DOMAIN turns' = DOMAIN turns
  BY <1>1, <1>2, <1>3, IsASeq
<1>5. Completed' = Completed /\ \A k : UpTo(k)' = UpTo(k)
  <2>1. Completed' = Completed
    BY <1>1, <1>3, <1>4 DEF Completed
  <2> QED
    BY <2>1 DEF UpTo
<1>6. TypeOK'
  BY <1>1, <1>2, <1>4 DEF IInv, TypeOK
<1>7. RevInv' /\ CkptInv'
  <2>1. turns' # <<>> => turns # <<>>
    BY <1>2, <1>4
  <2> QED
    BY <1>1, <1>2, <1>4, <1>5, <2>1 DEF IInv, RevInv, CkptInv, SummaryIsOfTranscript
<1>8. ASSUME NEW a \in Agent PROVE OwnedInv(a)'
  BY <1>1, <1>4, <1>5 DEF IInv, OwnedInv, Holds
<1>9. RunInv' /\ \A v \in View : PrepInv(v)'
  BY <1>1 DEF RunInv, PrepInv
<1> QED
  BY <1>6, <1>7, <1>8, <1>9 DEF IInv

(* Nothing is said here of the sessions that are gone.                      *)
LEMMA GoneKeeps ==
  ASSUME IInv, gone' \subseteq Session,
         UNCHANGED <<rev, turns, owned, ckpt, prep, run, knows, holed, restarts>>
  PROVE  IInv'
<1>1. Completed' = Completed /\ \A k : UpTo(k)' = UpTo(k)
  BY DEF Completed, UpTo
<1>2. TypeOK'
  BY DEF IInv, TypeOK
<1>3. RevInv' /\ CkptInv'
  BY <1>1 DEF IInv, RevInv, CkptInv, SummaryIsOfTranscript
<1>4. RunInv'
  BY <1>1 DEF IInv, RunInv, RunOk, Tells, Holds
<1>5. \A a \in Agent : OwnedInv(a)'
  BY <1>1 DEF IInv, OwnedInv, Holds
<1>6. ASSUME NEW w \in View PROVE PrepInv(w)'
  BY PreparationsStay DEF Learns
<1> QED
  BY <1>2, <1>3, <1>4, <1>5, <1>6 DEF IInv

LEMMA SessionLostKeeps ==
  ASSUME IInv, NEW a \in Agent, SessionLost(a)
  PROVE  IInv'
<1>1. gone' \subseteq Session /\ UNCHANGED <<rev, turns, owned, ckpt, prep, run, knows, holed, restarts>>
  BY DEF SessionLost, store, IInv, TypeOK
<1> QED
  BY <1>1, GoneKeeps

-----------------------------------------------------------------------------
(* The theorems.                                                           *)

LEMMA InitEstablishes == Init => IInv
<1> SUFFICES ASSUME Init PROVE IInv
  OBVIOUS
<1>1. Completed = {} /\ Len(turns) = 0 /\ turns \in Seq(TurnRecord)
  BY DEF Init, Completed
<1>2. TypeOK
  <2>1. owned \in [Agent -> [session : Session, turn : 0..MaxTurns]]
    BY ContextAssumption DEF Init, Session
  <2>2. ckpt \in [through : 0..MaxTurns, covers : SUBSET Turn, tells : SUBSET Turn]
    BY ContextAssumption DEF Init
  <2> QED
    BY <1>1, <2>1, <2>2, ContextAssumption DEF Init, TypeOK
<1>3. RevInv /\ CkptInv /\ RunInv
  <2>1. Latest(NewItems, {}) = {} /\ Cardinality({}) = 0
    BY FS_EmptySet DEF Latest
  <2>2. SummaryIsOfTranscript
    BY <1>1, <2>1, ContextAssumption DEF Init, SummaryIsOfTranscript, Recalls
  <2> QED
    BY <1>1, <2>2 DEF Init, RevInv, CkptInv, RunInv
<1>4. \A a \in Agent : OwnedInv(a)
  BY <1>1 DEF Init, OwnedInv
<1>5. \A v \in View : PrepInv(v)
  BY DEF Init, PrepInv
<1> QED
  BY <1>2, <1>3, <1>4, <1>5 DEF IInv

LEMMA NextKeeps == IInv /\ [Next]_vars => IInv'
<1> SUFFICES ASSUME IInv, [Next]_vars PROVE IInv'
  OBVIOUS
<1>1. CASE UNCHANGED vars
  <2>1. gone' \subseteq Session /\ UNCHANGED <<rev, turns, owned, ckpt, prep, run, knows, holed, restarts>>
    BY <1>1 DEF vars, store, runtime, IInv, TypeOK
  <2> QED
    BY <2>1, GoneKeeps
<1>2. ASSUME NEW v \in View, ViewStep(v) PROVE IInv'
  <2>1. ASSUME NEW a \in Agent, SendBegins(v, a) PROVE IInv'
    BY <2>1, SendBeginsKeeps
  <2>2. ASSUME NEW candidate \in BOOLEAN, WindowLoaded(v, candidate) PROVE IInv'
    BY <2>2, WindowLoadedKeeps
  <2>3. CASE FullLoaded(v)
    BY <2>3, FullLoadedKeeps
  <2>4. CASE PreparationFails(v) \/ SendRefused(v)
    BY <2>4, DropKeeps
  <2>5. ASSUME NEW state \in {"active", "queued"}, beginTurn(v, state) PROVE IInv'
    BY <2>5, BeginTurnKeeps
  <2> QED
    BY <1>2, <2>1, <2>2, <2>3, <2>4, <2>5 DEF ViewStep
<1>3. CASE RunStep
  <2>1. CASE validateResumeSession
    BY <2>1, ClaimKeeps DEF validateResumeSession
  <2>2. CASE ResumeSession \/ StartSession \/ ResumeFallsBack
    BY <2>2, OpeningKeeps
  <2>3. CASE AdmitSession
    <3>1. run # NoRun /\ run.prompt.session # 0 /\ Claim(run.prompt.session)
      BY <2>3 DEF AdmitSession, IInv, RunInv, RunOk
    <3> QED
      BY <3>1, ClaimKeeps
  <2>4. CASE Tell
    BY <2>4, TellKeeps
  <2>5. CASE CompleteTurn
    BY <2>5, FinishKeeps DEF CompleteTurn
  <2>6. CASE EndTurn
    BY <2>6, FinishKeeps DEF EndTurn
  <2>7. CASE RunBlocked
    BY <2>7, RunBlockedKeeps
  <2> QED
    BY <1>3, <2>1, <2>2, <2>3, <2>4, <2>5, <2>6, <2>7 DEF RunStep
<1>4. CASE Restart
  BY <1>4, RestartKeeps
<1>5. ASSUME NEW a \in Agent, SessionLost(a) PROVE IInv'
  BY <1>5, SessionLostKeeps
<1> QED
  BY <1>1, <1>2, <1>3, <1>4, <1>5 DEF Next

(* Whatever is prepared, sent, refused, told, ended, lost or restarted: a    *)
(* claimed session holds what it is claimed for, a prompt of the present     *)
(* revision tells what its session does not hold, and the checkpoint is of   *)
(* the transcript (chat/chatContextService.ts, beginTurn of the store, the   *)
(* claims of the runtimes' sessions).                                      *)
THEOREM ContextInvariant == Spec => []IInv
BY InitEstablishes, NextKeeps, PTL DEF Spec

(* The conversation, its preparations, its run and its sessions keep their   *)
(* types.                                                                  *)
THEOREM TypeCorrect == Spec => []TypeOK
<1>1. IInv => TypeOK
  BY DEF IInv
<1> QED
  BY <1>1, ContextInvariant, PTL

(* The stored summary was made of the completed turns up to its boundary,    *)
(* all of them and no other, so no later prompt starts behind a hole; and    *)
(* with its lists cut to their limits it still tells of the latest of these, *)
(* as many as a new summary has entries (materializeAtomicContextCheckpoint, *)
(* mergeContextSummaries).                                                 *)
THEOREM SummaryIsWhole == Spec => []SummaryIsOfTranscript
<1>1. IInv => SummaryIsOfTranscript
  BY DEF IInv, CkptInv
<1> QED
  BY <1>1, ContextInvariant, PTL

(* The agent that takes a prompt then holds every completed turn, from its   *)
(* session or from the prompt, unless the prompt or an earlier one of the    *)
(* session was of two readings (evaluateTargetSessionFreshness, the revision *)
(* beginTurn expects).                                                     *)
THEOREM PromptsTell == Spec => NothingIsForgotten
<1>1. IInv /\ [Next]_vars =>
        [Tell => run.prompt.session \in holed'
              \/ Completed \subseteq knows'[run.prompt.session]]_vars
  <2> SUFFICES ASSUME IInv, Tell
               PROVE  run.prompt.session \in holed'
                      \/ Completed \subseteq knows'[run.prompt.session]
    OBVIOUS
  <2>1. PICK r \in Run : r = run /\ r.at = "open" /\ RunOk(r)
    BY DEF Tell, IInv, TypeOK, RunInv
  <2>2. PICK s \in Session, carries \in SUBSET Turn :
          s = r.prompt.session /\ s # 0 /\ carries = r.prompt.carries
    BY <2>1 DEF Run, Prompt, RunOk
  <2>3. r.prompt.torn \/ Holds(s, Completed \ carries)
    BY <2>1, <2>2 DEF RunOk, Tells
  <2>4. /\ knows' = [knows EXCEPT ![s] = @ \cup carries \cup {r.turn}]
        /\ holed' = IF r.prompt.torn THEN holed \cup {s} ELSE holed
    BY <2>1, <2>2 DEF Tell
  <2>5. knows'[s] = knows[s] \cup carries \cup {r.turn}
    BY <2>2, <2>4 DEF IInv, TypeOK
  <2> QED
    BY <2>1, <2>2, <2>3, <2>4, <2>5 DEF Holds
<1> QED
  BY <1>1, ContextInvariant, PTL DEF Spec, NothingIsForgotten

-----------------------------------------------------------------------------
(* ChatDrafts: the inductive invariant, in parts.                           *)

(* The text a stored draft f stands for.                                    *)
TextOf(f) == IF f = NotStored THEN 0 ELSE f

(* What holds of an entry e with its write sv, its file f and the clock n:  *)
(* a write in flight keeps the entry dirty and, if it is of the newest      *)
(* revision, has its text.                                                 *)
Fits(e, sv, f, n) ==
  /\ e # NoEntry => e.draft <= n /\ e.saved <= e.rev
  /\ f # NotStored => f <= n
  /\ sv # NoSave =>
       /\ e # NoEntry /\ e.saved < sv.rev /\ sv.rev <= e.rev /\ sv.text <= n
       /\ sv.rev = e.rev => sv.text = e.draft
       /\ sv.stored => f = sv.text

(* The text t the user left is in a dirty entry, or else in the file, and   *)
(* then a clean entry that is not blank has it too.                         *)
Keeps(e, f, t) ==
  IF Dirty(e) THEN e.draft = t
  ELSE TextOf(f) = t /\ (e # NoEntry => e.draft \in {0, t})

EntryInv ==
  /\ \A c \in Conv : Fits(entry[c], save[c], files[c], clock)
  /\ \A c \in Sound : Keeps(entry[c], files[c], typed[c])

(* A read is current while the view shows its conversation; what it may     *)
(* give was typed before.                                                  *)
ReadInv ==
  \A l \in loads :
    /\ l.current => l.c = bound
    /\ \A text \in l.seen : text # NotStored => text <= clock

(* The editor shows the entry, which is what the user left once it is read. *)
ShownInv ==
  /\ entry[bound] # NoEntry /\ input <= clock
  /\ bound \in Sound => input = entry[bound].draft
  /\ bound \in Sound /\ (\A l \in loads : ~l.current) => input = typed[bound]

(* One flush at most is waited for by a switch.                             *)
SwitchInv ==
  /\ \A c \in Conv : \A i \in DOMAIN tail[c] :
       tail[c][i] = "switch" => switching \in [to : Conv, ready : {FALSE}]
  /\ \A c, d \in Conv : \A i \in DOMAIN tail[c], j \in DOMAIN tail[d] :
       tail[c][i] = "switch" /\ tail[d][j] = "switch" => c = d /\ i = j

DraftsInv == DraftsTypeOK /\ EntryInv /\ ReadInv /\ ShownInv /\ SwitchInv

-----------------------------------------------------------------------------
(* The larger of two revisions.                                             *)
LEMMA MaxOfTwo ==
  ASSUME NEW a \in Nat, NEW b \in Nat
  PROVE  Max({a, b}) \in {a, b} /\ Max({a, b}) >= a /\ Max({a, b}) >= b
<1>1. \E x \in {a, b} : \A y \in {a, b} : x >= y
  <2>1. CASE a >= b
    BY <2>1
  <2>2. CASE b >= a
    BY <2>2
  <2> QED BY <2>1, <2>2
<1> QED BY <1>1 DEF Max

(* What appending to and taking from a queue of waiters leaves in it.       *)
LEMMA QueueIs ==
  ASSUME NEW q \in Seq(Waiter), NEW who \in Waiter
  PROVE  /\ Append(q, who) \in Seq(Waiter) /\ Append(q, who) # <<>>
         /\ \A i \in DOMAIN Append(q, who) :
              \/ i \in DOMAIN q /\ Append(q, who)[i] = q[i]
              \/ i = Len(q) + 1 /\ Append(q, who)[i] = who
         /\ q # <<>> =>
              /\ Tail(q) \in Seq(Waiter) /\ Head(q) = q[1] /\ 1 \in DOMAIN q
              /\ \A i \in DOMAIN Tail(q) : i + 1 \in DOMAIN q /\ i >= 1 /\ Tail(q)[i] = q[i + 1]
OBVIOUS

(* An entry the cache drops was clean: nothing is lost with it.             *)
LEMMA DroppedFits ==
  ASSUME NEW e \in Entry, NEW sv \in Save \cup {NoSave}, NEW f, NEW n \in Nat,
         Fits(e, sv, f, n), e # NoEntry, ~Dirty(e)
  PROVE  Fits(NoEntry, sv, f, n) /\ \A t : Keeps(e, f, t) => Keeps(NoEntry, f, t)
<1>1. sv = NoSave
  BY DEF Fits, Dirty, Entry, Save, Text
<1> QED BY <1>1 DEF Fits, Dirty, Keeps

(* ensure() makes a blank entry only where nothing is unsaved.              *)
LEMMA BlankFits ==
  ASSUME NEW sv, NEW f, NEW n \in Nat, Fits(NoEntry, sv, f, n)
  PROVE  Fits(Blank, sv, f, n) /\ \A t : Keeps(NoEntry, f, t) => Keeps(Blank, f, t)
<1>1. sv = NoSave
  BY DEF Fits
<1> QED BY <1>1 DEF Fits, Dirty, Blank, Keeps

LEMMA BlankIs == Blank \in Entry /\ Blank # NoEntry /\ Blank \in [draft : Nat, rev : Nat, saved : Nat]
<1>1. Blank \in Entry /\ Blank \in [draft : Nat, rev : Nat, saved : Nat]
  BY DraftsAssumption DEF Blank, Entry, Text
<1> QED BY <1>1, DraftsAssumption

(* No entry is the missing one.                                             *)
LEMMA EntryIs ==
  ASSUME NEW e \in Entry PROVE e # NoEntry
<1>1. e \in [draft : Nat, rev : Nat, saved : Nat]
  BY DraftsAssumption DEF Entry, Text
<1> QED BY <1>1, DraftsAssumption

LEMMA Ensured ==
  ASSUME DraftsTypeOK, EntryInv, NEW c \in Conv
  PROVE  /\ ensure(c) \in Entry /\ ensure(c) # NoEntry
         /\ Fits(ensure(c), save[c], files[c], clock)
         /\ c \in Sound => Keeps(ensure(c), files[c], typed[c])
<1>1. ensure(c) \in Entry
  BY BlankIs DEF ensure, DraftsTypeOK
<1>2. Fits(entry[c], save[c], files[c], clock) /\ (c \in Sound => Keeps(entry[c], files[c], typed[c]))
  BY DEF EntryInv
<1>3. CASE entry[c] = NoEntry
  <2>1. clock \in Nat
    BY DEF DraftsTypeOK
  <2>2. Fits(Blank, save[c], files[c], clock) /\ (c \in Sound => Keeps(Blank, files[c], typed[c]))
    BY <1>2, <1>3, <2>1, BlankFits
  <2> QED BY <1>1, <1>3, <2>2, EntryIs DEF ensure
<1>4. CASE entry[c] # NoEntry
  BY <1>1, <1>2, <1>4, EntryIs DEF ensure
<1> QED BY <1>3, <1>4

(* What prune leaves.                                                       *)
LEMMA PruneLeaves ==
  ASSUME DraftsTypeOK, NEW c \in Conv, NEW s \in Conv, NEW e \in Entry \cup {NoEntry},
         entry' \in Pruned([entry EXCEPT ![c] = e], s)
  PROVE  /\ entry' \in [Conv -> Entry \cup {NoEntry}]
         /\ entry'[s] = IF s = c THEN e ELSE entry[s]
         /\ \A d \in Conv : LET was == IF d = c THEN e ELSE entry[d] IN
              \/ entry'[d] = was
              \/ entry'[d] = NoEntry /\ was # NoEntry /\ ~Dirty(was)
<1> DEFINE es == [entry EXCEPT ![c] = e]
<1>1. es \in [Conv -> Entry \cup {NoEntry}] /\ \A d \in Conv : es[d] = IF d = c THEN e ELSE entry[d]
  BY DEF DraftsTypeOK
<1>2. PICK out \in SUBSET {d \in Conv : es[d] # NoEntry /\ d # s /\ ~Dirty(es[d])} :
        entry' = [d \in Conv |-> IF d \in out THEN NoEntry ELSE es[d]]
  BY DEF Pruned
<1> HIDE DEF es
<1> QED BY <1>1, <1>2

(* To drop nothing is one way to prune.                                     *)
LEMMA PruneNothing ==
  ASSUME NEW es \in [Conv -> Entry \cup {NoEntry}], NEW s
  PROVE  es \in Pruned(es, s)
<1> DEFINE out == {}
<1>1. out \in SUBSET {d \in Conv : es[d] # NoEntry /\ d # s /\ ~Dirty(es[d])}
  OBVIOUS
<1>2. es = [d \in Conv |-> IF d \in out THEN NoEntry ELSE es[d]]
  OBVIOUS
<1>3. \E some \in SUBSET {d \in Conv : es[d] # NoEntry /\ d # s /\ ~Dirty(es[d])} :
        es = [d \in Conv |-> IF d \in some THEN NoEntry ELSE es[d]]
  BY <1>1, <1>2
<1> QED BY <1>3 DEF Pruned

(* A later clock only gives room.                                           *)
LEMMA LaterFits ==
  ASSUME NEW e \in Entry \cup {NoEntry}, NEW sv \in Save \cup {NoSave}, NEW f \in Text \cup {NotStored},
         NEW n \in Nat, NEW m \in Nat, n <= m, Fits(e, sv, f, n)
  PROVE  Fits(e, sv, f, m)
BY DraftsAssumption DEF Fits, Entry, Save, Text

(* A step that changes the entry of one conversation, and may drop clean    *)
(* ones of others, keeps what holds of all when it holds of this one.       *)
LEMMA EntriesKept ==
  ASSUME DraftsTypeOK, EntryInv, NEW c \in Conv, NEW s \in Conv, NEW e \in Entry \cup {NoEntry},
         entry' \in Pruned([entry EXCEPT ![c] = e], s),
         Fits(e, save'[c], files'[c], clock'), c \in Sound' => Keeps(e, files'[c], typed'[c]),
         save'[c] \in Save \cup {NoSave}, clock' \in Nat, clock <= clock',
         \A d \in Conv \ {c} : /\ save'[d] = save[d] /\ files'[d] = files[d] /\ typed'[d] = typed[d]
                               /\ (d \in Sound' <=> d \in Sound)
  PROVE  EntryInv'
<1> SUFFICES ASSUME NEW d \in Conv
             PROVE  /\ Fits(entry'[d], save'[d], files'[d], clock')
                    /\ d \in Sound' => Keeps(entry'[d], files'[d], typed'[d])
  BY DEF EntryInv, Sound
<1> DEFINE was == IF d = c THEN e ELSE entry[d]
<1>1. was \in Entry \cup {NoEntry}
  BY DEF DraftsTypeOK
<1>2. entry'[d] = was \/ (entry'[d] = NoEntry /\ was # NoEntry /\ ~Dirty(was))
  BY PruneLeaves
<1>3. save'[d] \in Save \cup {NoSave}
  BY DEF DraftsTypeOK
<1>4. Fits(was, save'[d], files'[d], clock') /\ (d \in Sound' => Keeps(was, files'[d], typed'[d]))
  <2>1. CASE d = c
    BY <2>1
  <2>2. CASE d # c
    <3>1. Fits(entry[d], save[d], files[d], clock) /\ (d \in Sound => Keeps(entry[d], files[d], typed[d]))
      BY DEF EntryInv
    <3>2. /\ save'[d] = save[d] /\ files'[d] = files[d] /\ typed'[d] = typed[d]
          /\ (d \in Sound' <=> d \in Sound) /\ files[d] \in Text \cup {NotStored} /\ clock \in Nat
          /\ entry[d] \in Entry \cup {NoEntry}
      BY <2>2 DEF DraftsTypeOK
    <3>3. Fits(entry[d], save[d], files[d], clock')
      BY <1>3, <3>1, <3>2, LaterFits
    <3> QED BY <2>2, <3>1, <3>2, <3>3
  <2> QED BY <2>1, <2>2
<1> HIDE DEF was
<1>5. CASE entry'[d] = was
  BY <1>4, <1>5
<1>6. CASE entry'[d] = NoEntry /\ was # NoEntry /\ ~Dirty(was)
  <2>1. was \in Entry /\ clock' \in Nat
    BY <1>1, <1>6
  <2> QED BY <1>3, <1>4, <1>6, <2>1, DroppedFits
<1> QED BY <1>2, <1>5, <1>6

-----------------------------------------------------------------------------
(* An edit makes the entry dirty with its text, whatever write is under way. *)
LEMMA EditedFits ==
  ASSUME NEW e \in Entry, NEW sv \in Save \cup {NoSave}, NEW f \in Text \cup {NotStored}, NEW n \in Nat,
         NEW m \in Nat, n <= m, Fits(e, sv, f, n), NEW text \in Text, text <= m
  PROVE  /\ Edited(e, text) \in Entry /\ Edited(e, text).draft = text /\ Edited(e, text) # NoEntry
         /\ Dirty(Edited(e, text))
         /\ Fits(Edited(e, text), sv, f, m) /\ Keeps(Edited(e, text), f, text)
<1> DEFINE x == Edited(e, text)
<1>1. /\ x \in Entry /\ x.draft = text /\ x.rev = e.rev + 1 /\ x.saved = e.saved
      /\ e.rev \in Nat /\ e.saved \in Nat
  <2>1. e \in [draft : Text, rev : Nat, saved : Nat]
    BY DEF Entry
  <2>2. x \in [draft : Text, rev : Nat, saved : Nat]
    <3> DEFINE k == e.rev + 1
    <3>1. k \in Nat
      BY <2>1
    <3>2. x = [e EXCEPT !.draft = text, !.rev = k]
      BY DEF Edited
    <3> HIDE DEF k, x
    <3> QED BY <2>1, <3>1, <3>2
  <2>3. x.draft = text /\ x.rev = e.rev + 1 /\ x.saved = e.saved
    BY <2>1 DEF Edited
  <2> HIDE DEF x
  <2> QED BY <2>1, <2>2, <2>3 DEF Entry
<1>2. x # NoEntry /\ e # NoEntry
  BY <1>1, EntryIs
<1>3. e.saved <= e.rev
  BY <1>2 DEF Fits
<1>4. Dirty(x)
  BY <1>1, <1>2, <1>3 DEF Dirty
<1>5. f # NotStored => f <= m
  BY DEF Fits, Text
<1>6. sv # NoSave => /\ x.saved < sv.rev /\ sv.rev < x.rev /\ sv.text <= m /\ (sv.stored => f = sv.text)
  BY <1>1 DEF Fits, Save, Text
<1>7. sv # NoSave => sv.rev \in Nat
  BY DEF Save
<1> HIDE DEF x
<1>8. Fits(x, sv, f, m)
  BY <1>1, <1>2, <1>3, <1>4, <1>5, <1>6, <1>7 DEF Fits
<1>9. Keeps(x, f, text)
  BY <1>1, <1>4 DEF Keeps
<1> QED BY <1>1, <1>2, <1>4, <1>8, <1>9 DEF x

(* The queues of waiters keep their one switch when others come.            *)
LEMMA SwitchKept ==
  ASSUME SwitchInv, UNCHANGED switching,
         \A c \in Conv : \A i \in DOMAIN tail'[c] :
           tail'[c][i] = "switch" => i \in DOMAIN tail[c] /\ tail[c][i] = "switch"
  PROVE  SwitchInv'
<1>1. \A c \in Conv : \A i \in DOMAIN tail'[c] :
        tail'[c][i] = "switch" => switching' \in [to : Conv, ready : {FALSE}]
  BY DEF SwitchInv
<1>2. \A c, d \in Conv : \A i \in DOMAIN tail'[c], j \in DOMAIN tail'[d] :
        tail'[c][i] = "switch" /\ tail'[d][j] = "switch" => c = d /\ i = j
  BY DEF SwitchInv
<1> QED BY <1>1, <1>2 DEF SwitchInv

LEMMA SwitchStays ==
  ASSUME SwitchInv, UNCHANGED <<switching, tail>>
  PROVE  SwitchInv'
<1>1. switching' = switching /\ tail' = tail
  OBVIOUS
<1> QED BY <1>1, SwitchKept

(* A flush of c that nobody but a timer waits for.                          *)
LEMMA FlushStarts ==
  ASSUME DraftsTypeOK, NEW c \in Conv, NEW who \in Waiter, flush(c, who)
  PROVE  /\ timer' \subseteq Conv /\ tail' \in [Conv -> Seq(Waiter)] /\ tail'[c] # <<>>
         /\ \A d \in Conv \ {c} : tail'[d] = tail[d]
         /\ \A i \in DOMAIN tail'[c] :
              (i \in DOMAIN tail[c] /\ tail'[c][i] = tail[c][i]) \/ (i = Len(tail[c]) + 1 /\ tail'[c][i] = who)
<1>1. tail \in [Conv -> Seq(Waiter)] /\ tail[c] \in Seq(Waiter)
  BY DEF DraftsTypeOK
<1>2. tail'[c] = Append(tail[c], who) /\ \A d \in Conv \ {c} : tail'[d] = tail[d]
  BY <1>1 DEF flush
<1>3. tail' \in [Conv -> Seq(Waiter)]
  BY <1>1, QueueIs DEF flush
<1>4. /\ tail'[c] # <<>>
      /\ \A i \in DOMAIN tail'[c] :
           (i \in DOMAIN tail[c] /\ tail'[c][i] = tail[c][i]) \/ (i = Len(tail[c]) + 1 /\ tail'[c][i] = who)
  BY <1>1, <1>2, QueueIs
<1>5. timer' \subseteq Conv
  BY DEF flush, DraftsTypeOK
<1> QED BY <1>2, <1>3, <1>4, <1>5

(* The end of a flush: the switch that waited for it may go on.             *)
LEMMA FlushEnding ==
  ASSUME DraftsTypeOK, SwitchInv, NEW c \in Conv, tail[c] # <<>>, FlushEnds(c)
  PROVE  /\ tail' \in [Conv -> Seq(Waiter)] /\ \A d \in Conv \ {c} : tail'[d] = tail[d]
         /\ switching' \in [to : Conv, ready : BOOLEAN] \cup {NoConv}
         /\ SwitchInv'
<1>1. tail \in [Conv -> Seq(Waiter)] /\ tail[c] \in Seq(Waiter)
      /\ switching \in [to : Conv, ready : BOOLEAN] \cup {NoConv}
  BY DEF DraftsTypeOK
<1>2. tail'[c] = Tail(tail[c]) /\ (\A d \in Conv \ {c} : tail'[d] = tail[d]) /\ DOMAIN tail' = Conv
  BY <1>1 DEF FlushEnds
<1>3. /\ Tail(tail[c]) \in Seq(Waiter) /\ Head(tail[c]) = tail[c][1] /\ 1 \in DOMAIN tail[c]
      /\ \A i \in DOMAIN Tail(tail[c]) : i + 1 \in DOMAIN tail[c] /\ i >= 1 /\ Tail(tail[c])[i] = tail[c][i + 1]
  <2>1. "timer" \in Waiter
    BY DEF Waiter
  <2> QED BY <1>1, <2>1, QueueIs
<1>4. tail' \in [Conv -> Seq(Waiter)]
  BY <1>1, <1>3 DEF FlushEnds
<1>5. \A d \in Conv : \A i \in DOMAIN tail'[d] :
        \E k \in DOMAIN tail[d] : tail'[d][i] = tail[d][k] /\ k = IF d = c THEN i + 1 ELSE i
  BY <1>2, <1>3
<1>5a. \A i \in DOMAIN tail'[c] : i \in Nat /\ i >= 1
  BY <1>2, <1>3
<1>6. \A a, d \in Conv : \A i \in DOMAIN tail'[a], j \in DOMAIN tail'[d] :
        tail'[a][i] = "switch" /\ tail'[d][j] = "switch" => a = d /\ i = j
  <2> SUFFICES ASSUME NEW a \in Conv, NEW d \in Conv, NEW i \in DOMAIN tail'[a], NEW j \in DOMAIN tail'[d],
                      tail'[a][i] = "switch", tail'[d][j] = "switch"
               PROVE  a = d /\ i = j
    OBVIOUS
  <2>1. PICK k \in DOMAIN tail[a] : tail'[a][i] = tail[a][k] /\ k = IF a = c THEN i + 1 ELSE i
    BY <1>5
  <2>2. PICK h \in DOMAIN tail[d] : tail'[d][j] = tail[d][h] /\ h = IF d = c THEN j + 1 ELSE j
    BY <1>5
  <2>3. a = d /\ k = h
    BY <2>1, <2>2 DEF SwitchInv
  <2> QED BY <2>1, <2>2, <2>3, <1>5a
<1>7. CASE Head(tail[c]) = "switch"
  <2>1. switching \in [to : Conv, ready : {FALSE}]
    BY <1>3, <1>7 DEF SwitchInv
  <2>2. switching' \in [to : Conv, ready : BOOLEAN]
    BY <1>7, <2>1 DEF FlushEnds
  <2>3. \A d \in Conv : \A i \in DOMAIN tail'[d] : tail'[d][i] # "switch"
    <3> SUFFICES ASSUME NEW d \in Conv, NEW i \in DOMAIN tail'[d], tail'[d][i] = "switch" PROVE FALSE
      OBVIOUS
    <3>1. PICK k \in DOMAIN tail[d] : tail'[d][i] = tail[d][k] /\ k = IF d = c THEN i + 1 ELSE i
      BY <1>5
    <3>2. d = c /\ k = 1
      BY <1>3, <1>7, <3>1 DEF SwitchInv
    <3> QED BY <3>1, <3>2, <1>5a
  <2> QED BY <1>2, <1>4, <1>6, <2>2, <2>3 DEF SwitchInv
<1>8. CASE Head(tail[c]) # "switch"
  <2>1. switching' = switching
    BY <1>8 DEF FlushEnds
  <2>2. \A d \in Conv : \A i \in DOMAIN tail'[d] :
          tail'[d][i] = "switch" => switching' \in [to : Conv, ready : {FALSE}]
    <3> SUFFICES ASSUME NEW d \in Conv, NEW i \in DOMAIN tail'[d], tail'[d][i] = "switch"
                 PROVE  switching \in [to : Conv, ready : {FALSE}]
      BY <2>1
    <3>1. PICK k \in DOMAIN tail[d] : tail'[d][i] = tail[d][k]
      BY <1>5
    <3> QED BY <3>1 DEF SwitchInv
  <2> QED BY <1>1, <1>2, <1>4, <1>6, <2>1, <2>2 DEF SwitchInv
<1> QED BY <1>7, <1>8

-----------------------------------------------------------------------------
(* An edit of one entry, which some others may be dropped for.              *)
LEMMA EditKeeps ==
  ASSUME DraftsInv, NEW c \in Conv, NEW text \in Text, text <= clock', clock <= clock',
         clock' \in 1 .. MaxEdits + 1,
         entry' \in Pruned([entry EXCEPT ![c] = Edited(ensure(c), text)], bound),
         UNCHANGED <<save, files>>, c \in Sound' => typed'[c] = text,
         \A d \in Conv \ {c} : typed'[d] = typed[d] /\ (d \in Sound' <=> d \in Sound)
  PROVE  /\ EntryInv' /\ entry' \in [Conv -> Entry \cup {NoEntry}] /\ entry'[bound] # NoEntry
         /\ entry'[bound].draft = IF bound = c THEN text ELSE entry[bound].draft
<1>0. DraftsTypeOK /\ EntryInv /\ ShownInv
  BY DEF DraftsInv
<1>1. /\ save[c] \in Save \cup {NoSave} /\ files[c] \in Text \cup {NotStored} /\ bound \in Conv
      /\ clock \in Nat /\ clock' \in Nat
  BY <1>0, DraftsAssumption DEF DraftsTypeOK
<1>2. ensure(c) \in Entry /\ Fits(ensure(c), save[c], files[c], clock)
  BY <1>0, Ensured
<1> DEFINE x == Edited(ensure(c), text)
<1>3. x \in Entry /\ x.draft = text /\ x # NoEntry /\ Fits(x, save[c], files[c], clock') /\ Keeps(x, files[c], text)
  BY <1>1, <1>2, EditedFits
<1> HIDE DEF x
<1>4. entry' \in Pruned([entry EXCEPT ![c] = x], bound)
  BY DEF x
<1>5. EntryInv'
  BY <1>0, <1>1, <1>3, <1>4, EntriesKept
<1>6. /\ entry' \in [Conv -> Entry \cup {NoEntry}]
      /\ entry'[bound] = IF bound = c THEN x ELSE entry[bound]
  BY <1>0, <1>1, <1>3, <1>4, PruneLeaves
<1> QED BY <1>0, <1>3, <1>5, <1>6 DEF ShownInv

LEMMA TypeKeeps == DraftsInv /\ Type => DraftsInv'
<1> SUFFICES ASSUME DraftsInv, Type PROVE DraftsInv'
  OBVIOUS
<1>0. DraftsTypeOK /\ EntryInv /\ ReadInv /\ ShownInv /\ SwitchInv
  BY DEF DraftsInv
<1>1. /\ bound \in Conv /\ clock' = clock + 1 /\ clock' \in 1 .. MaxEdits + 1 /\ clock <= clock'
      /\ input' = clock + 1 /\ input' \in Text /\ typed' = [typed EXCEPT ![bound] = input']
      /\ hidden' = hidden \ {bound} /\ overtaken' = overtaken \ {bound} /\ clock \in Nat
      /\ UNCHANGED <<bound, switching, sending, tail, save, loads, files, endvars, binds, faults>>
  BY <1>0, DraftsAssumption DEF Type, Typing, DraftsTypeOK, Text
<1>2. /\ ensure(bound) = entry[bound] /\ entry[bound] # NoEntry /\ entry[bound] \in Entry
      /\ entry[bound].draft <= clock
  BY <1>0, <1>1 DEF ensure, ShownInv, DraftsTypeOK, EntryInv, Fits
<1>3. entry' \in Pruned([entry EXCEPT ![bound] = Edited(ensure(bound), input')], bound)
  <2>1. ensure(bound).draft # input'
    BY <1>1, <1>2 DEF Entry, Text
  <2> QED BY <2>1 DEF Type, updateDraft
<1>4. typed' \in [Conv -> Text] /\ typed'[bound] = input' /\ \A d \in Conv \ {bound} : typed'[d] = typed[d]
  BY <1>0, <1>1 DEF DraftsTypeOK
<1>5. /\ EntryInv' /\ entry' \in [Conv -> Entry \cup {NoEntry}]
      /\ entry'[bound] # NoEntry /\ entry'[bound].draft = input'
  <2>1. \A d \in Conv \ {bound} : d \in Sound' <=> d \in Sound
    BY <1>1 DEF Sound
  <2>2. input' <= clock' /\ (bound \in Sound' => typed'[bound] = input')
    BY <1>1, <1>4
  <2> QED BY <1>1, <1>3, <1>4, <2>1, <2>2, EditKeeps
<1>6. DraftsTypeOK'
  <2>1. timer' \subseteq Conv
    BY <1>0, <1>1 DEF Type, schedule, DraftsTypeOK
  <2> QED BY <1>0, <1>1, <1>4, <1>5, <2>1 DEF DraftsTypeOK, EntryInv, Fits, endvars
<1>7. ReadInv'
  <2>1. \A l \in loads : \A text \in l.seen : text # NotStored => text \in Nat
    BY <1>0 DEF DraftsTypeOK, Text
  <2> QED BY <1>0, <1>1, <2>1 DEF ReadInv
<1>8. ShownInv'
  BY <1>1, <1>4, <1>5 DEF ShownInv
<1>9. SwitchInv'
  BY <1>0, <1>1, SwitchStays
<1> QED BY <1>5, <1>6, <1>7, <1>8, <1>9 DEF DraftsInv

LEMMA ScrollKeeps == DraftsInv /\ Scroll => DraftsInv'
<1> SUFFICES ASSUME DraftsInv, Scroll PROVE DraftsInv'
  OBVIOUS
<1>0. DraftsTypeOK /\ EntryInv /\ ReadInv /\ ShownInv /\ SwitchInv
  BY DEF DraftsInv
<1>1. /\ bound \in Conv /\ clock' = clock + 1 /\ clock' \in 1 .. MaxEdits + 1 /\ clock <= clock' /\ clock \in Nat
      /\ UNCHANGED <<bound, input, switching, sending, tail, save, loads, files, endvars, typed, hidden, overtaken, binds, faults>>
      /\ \A l \in loads : ~l.current
  BY <1>0, DraftsAssumption DEF Scroll, DraftsTypeOK, viewvars, history
<1>2. /\ ensure(bound) = entry[bound] /\ entry[bound] # NoEntry /\ entry[bound] \in Entry
      /\ entry[bound].draft <= clock /\ entry[bound].draft \in Text
  BY <1>0, <1>1 DEF ensure, ShownInv, DraftsTypeOK, EntryInv, Fits, Entry
<1>3. entry' \in Pruned([entry EXCEPT ![bound] = Edited(ensure(bound), entry[bound].draft)], bound)
  BY <1>2 DEF Scroll
<1>4. bound \in Sound => typed[bound] = entry[bound].draft
  BY <1>0, <1>1 DEF ShownInv
<1>5. /\ EntryInv' /\ entry' \in [Conv -> Entry \cup {NoEntry}]
      /\ entry'[bound] # NoEntry /\ entry'[bound].draft = entry[bound].draft
  <2>1. entry[bound].draft \in Text /\ entry[bound].draft <= clock'
    BY <1>1, <1>2 DEF Text
  <2>2. Sound' = Sound
    BY <1>1 DEF Sound
  <2> QED BY <1>1, <1>3, <1>4, <2>1, <2>2, EditKeeps
<1>6. DraftsTypeOK'
  <2>1. timer' \subseteq Conv
    BY <1>0, <1>1 DEF Scroll, schedule, DraftsTypeOK
  <2> QED BY <1>0, <1>1, <1>5, <2>1 DEF DraftsTypeOK, EntryInv, Fits, endvars
<1>7. ReadInv'
  <2>1. \A l \in loads : \A text \in l.seen : text # NotStored => text \in Nat
    BY <1>0 DEF DraftsTypeOK, Text
  <2> QED BY <1>0, <1>1, <2>1 DEF ReadInv
<1>8. ShownInv'
  <2>1. input <= clock'
    BY <1>0, <1>1, DraftsAssumption DEF DraftsTypeOK, Text, ShownInv
  <2> QED BY <1>0, <1>1, <1>5, <2>1 DEF ShownInv, Sound
<1>9. SwitchInv'
  BY <1>0, <1>1, SwitchStays
<1> QED BY <1>5, <1>6, <1>7, <1>8, <1>9 DEF DraftsInv

(* What is typed is in the entry already, so leaving captures nothing new,  *)
(* unless a read came too late.                                            *)
LEMMA SwitchBeginsKeeps == DraftsInv /\ (\E c \in Conv : SwitchBegins(c)) => DraftsInv'
<1> SUFFICES ASSUME DraftsInv, NEW c \in Conv, SwitchBegins(c) PROVE DraftsInv'
  OBVIOUS
<1>0. DraftsTypeOK /\ EntryInv /\ ReadInv /\ ShownInv /\ SwitchInv
  BY DEF DraftsInv
<1>1. /\ bound \in Conv /\ clock \in Nat /\ input \in Text /\ input <= clock /\ switching = NoConv
      /\ switching' = [to |-> c, ready |-> FALSE] /\ flush(bound, "switch") /\ binds' \in 0 .. MaxBinds
      /\ UNCHANGED <<bound, input, sending, save, loads, files, endvars, typed, hidden, overtaken, clock, faults>>
  BY <1>0, DraftsAssumption DEF SwitchBegins, DraftsTypeOK, ShownInv, history
<1>2. /\ ensure(bound) = entry[bound] /\ entry[bound] # NoEntry /\ entry[bound] \in Entry
      /\ Fits(entry[bound], save[bound], files[bound], clock)
      /\ bound \in Sound => entry[bound].draft = input /\ Keeps(entry[bound], files[bound], typed[bound])
      /\ save[bound] \in Save \cup {NoSave} /\ files[bound] \in Text \cup {NotStored}
  BY <1>0, <1>1 DEF ensure, ShownInv, DraftsTypeOK, EntryInv
<1> DEFINE e == IF entry[bound].draft = input THEN entry[bound] ELSE Edited(entry[bound], input)
<1>3. entry' \in Pruned([entry EXCEPT ![bound] = e], bound)
  BY <1>2 DEF SwitchBegins, updateDraft
<1>4. /\ Fits(e, save[bound], files[bound], clock)
      /\ bound \in Sound => Keeps(e, files[bound], typed[bound])
      /\ e \in Entry /\ e # NoEntry /\ e.draft = input
  <2>1. CASE entry[bound].draft = input
    BY <1>2, <2>1
  <2>2. CASE entry[bound].draft # input
    <3>1. /\ Edited(entry[bound], input) \in Entry /\ Edited(entry[bound], input).draft = input
          /\ Edited(entry[bound], input) # NoEntry
          /\ Fits(Edited(entry[bound], input), save[bound], files[bound], clock)
      <4> DEFINE o == entry[bound]
                 sv == save[bound]
                 f == files[bound]
      <4>1. /\ o \in Entry /\ sv \in Save \cup {NoSave} /\ f \in Text \cup {NotStored}
            /\ clock \in Nat /\ clock <= clock /\ Fits(o, sv, f, clock)
            /\ input \in Text /\ input <= clock
        BY <1>1, <1>2
      <4> HIDE DEF o, sv, f
      <4>2. /\ Edited(o, input) \in Entry /\ Edited(o, input).draft = input /\ Edited(o, input) # NoEntry
            /\ Fits(Edited(o, input), sv, f, clock)
        BY <4>1, EditedFits
      <4> QED BY <4>2 DEF o, sv, f
    <3> QED BY <1>2, <2>2, <3>1
  <2> QED BY <2>1, <2>2
<1> HIDE DEF e
<1>5. EntryInv'
  <2>1. Sound' = Sound
    BY <1>1 DEF Sound
  <2> QED BY <1>0, <1>1, <1>2, <1>3, <1>4, <2>1, EntriesKept
<1>6. entry' \in [Conv -> Entry \cup {NoEntry}] /\ entry'[bound] = e
  BY <1>0, <1>1, <1>3, <1>4, PruneLeaves
<1>7. /\ timer' \subseteq Conv /\ tail' \in [Conv -> Seq(Waiter)] /\ tail'[bound] # <<>>
      /\ \A d \in Conv \ {bound} : tail'[d] = tail[d]
      /\ \A i \in DOMAIN tail'[bound] :
           \/ i \in DOMAIN tail[bound] /\ tail'[bound][i] = tail[bound][i]
           \/ i = Len(tail[bound]) + 1 /\ tail'[bound][i] = "switch"
  <2>1. "switch" \in Waiter
    BY DEF Waiter
  <2> QED BY <1>0, <1>1, <2>1, FlushStarts
<1>8. DraftsTypeOK'
  <2>1. switching' \in [to : Conv, ready : BOOLEAN] \cup {NoConv}
    BY <1>1
  <2>2. \A d \in Conv : save'[d] # NoSave => tail'[d] # <<>>
    BY <1>0, <1>1, <1>7 DEF DraftsTypeOK
  <2> QED BY <1>0, <1>1, <1>5, <1>6, <1>7, <2>1, <2>2 DEF DraftsTypeOK, EntryInv, Fits, endvars
<1>9. ReadInv'
  BY <1>0, <1>1 DEF ReadInv
<1>10. ShownInv'
  BY <1>0, <1>1, <1>4, <1>6 DEF ShownInv, Sound
<1>11. SwitchInv'
  <2>1. \A d \in Conv : \A i \in DOMAIN tail[d] : tail[d][i] # "switch"
    BY <1>0, <1>1, DraftsAssumption DEF SwitchInv
  <2>2. \A d \in Conv : \A i \in DOMAIN tail'[d] :
          tail'[d][i] = "switch" => d = bound /\ i = Len(tail[bound]) + 1
    BY <1>7, <2>1
  <2>3. switching' \in [to : Conv, ready : {FALSE}]
    BY <1>1
  <2> QED BY <2>2, <2>3 DEF SwitchInv
<1> QED BY <1>5, <1>8, <1>9, <1>10, <1>11 DEF DraftsInv

(* The next conversation is shown from the cache, and read.                 *)
LEMMA SwitchEndsKeeps == DraftsInv /\ SwitchEnds => DraftsInv'
<1> SUFFICES ASSUME DraftsInv, SwitchEnds PROVE DraftsInv'
  OBVIOUS
<1>0. DraftsTypeOK /\ EntryInv /\ ReadInv /\ ShownInv /\ SwitchInv
  BY DEF DraftsInv
<1> DEFINE c == switching.to
           fresh == [c |-> c, current |-> TRUE, seen |-> {files[c]}]
           past == {[l EXCEPT !.current = FALSE] : l \in loads}
<1>1. /\ switching \in [to : Conv, ready : BOOLEAN] /\ switching.ready = TRUE /\ c \in Conv
  BY <1>0 DEF SwitchEnds, DraftsTypeOK
<1>2. /\ bound' = c /\ switching' = NoConv
      /\ UNCHANGED <<sending, timer, tail, save, files, endvars, typed, hidden, overtaken, clock, binds, faults>>
      /\ input' = ensure(c).draft
      /\ entry' \in Pruned([entry EXCEPT ![c] = ensure(c)], c)
      /\ loads' = past \cup {fresh}
  BY DEF SwitchEnds, ensure, history, counters
<1>3. /\ ensure(c) \in Entry /\ ensure(c) # NoEntry /\ Fits(ensure(c), save[c], files[c], clock)
      /\ c \in Sound => Keeps(ensure(c), files[c], typed[c])
  BY <1>0, <1>1, Ensured
<1>4. /\ save[c] \in Save \cup {NoSave} /\ clock \in Nat /\ files[c] \in Text \cup {NotStored}
      /\ loads \subseteq [c : Conv, current : BOOLEAN, seen : SUBSET (Text \cup {NotStored})]
  BY <1>0, <1>1 DEF DraftsTypeOK
<1> HIDE DEF c, fresh, past
<1>4a. Sound' = Sound
  BY <1>2 DEF Sound
<1>5. EntryInv'
  BY <1>4a, <1>0, <1>1, <1>2, <1>3, <1>4, EntriesKept
<1>6. entry' \in [Conv -> Entry \cup {NoEntry}] /\ entry'[c] = ensure(c)
  BY <1>0, <1>1, <1>2, <1>3, PruneLeaves
<1>7. /\ fresh \in [c : Conv, current : BOOLEAN, seen : SUBSET (Text \cup {NotStored})]
      /\ fresh.c = c /\ fresh.current = TRUE /\ fresh.seen = {files[c]}
  BY <1>1, <1>4 DEF fresh
<1>8. \A k \in past :
        /\ k \in [c : Conv, current : BOOLEAN, seen : SUBSET (Text \cup {NotStored})] /\ ~k.current
        /\ \E l \in loads : k = [l EXCEPT !.current = FALSE] /\ k.c = l.c /\ k.seen = l.seen
  <2> SUFFICES ASSUME NEW l \in loads
               PROVE  LET k == [l EXCEPT !.current = FALSE] IN
                      /\ k \in [c : Conv, current : BOOLEAN, seen : SUBSET (Text \cup {NotStored})] /\ ~k.current
                      /\ k.c = l.c /\ k.seen = l.seen
    BY DEF past
  <2>1. l \in [c : Conv, current : BOOLEAN, seen : SUBSET (Text \cup {NotStored})]
    BY <1>4
  <2> QED BY <2>1
<1>9. DraftsTypeOK'
  <2>1. loads' \subseteq [c : Conv, current : BOOLEAN, seen : SUBSET (Text \cup {NotStored})]
    BY <1>2, <1>7, <1>8
  <2>2. input' \in Text
    BY <1>2, <1>3 DEF Entry
  <2> QED BY <1>0, <1>1, <1>2, <1>5, <1>6, <2>1, <2>2 DEF DraftsTypeOK, EntryInv, Fits, endvars
<1>10. ReadInv'
  BY <1>0, <1>2, <1>3, <1>7, <1>8 DEF ReadInv, Fits
<1>11. ShownInv'
  <2>1. input' <= clock'
    BY <1>2, <1>3 DEF Fits
  <2> QED BY <1>2, <1>3, <1>6, <1>7, <2>1 DEF ShownInv
<1>12. SwitchInv'
  <2>1. \A d \in Conv : \A i \in DOMAIN tail[d] : tail[d][i] # "switch"
    BY <1>0, <1>1 DEF SwitchInv
  <2> QED BY <1>2, <2>1 DEF SwitchInv
<1> QED BY <1>5, <1>9, <1>10, <1>11, <1>12 DEF DraftsInv

(* Steps that neither entries nor reads nor switches see.                   *)
LEMMA AsideKeeps ==
  ASSUME DraftsInv, DraftsTypeOK',
         UNCHANGED <<bound, input, switching, entry, tail, save, loads, files, typed, hidden, overtaken, clock>>
  PROVE  DraftsInv'
<1>0. EntryInv /\ ReadInv /\ ShownInv /\ SwitchInv
  BY DEF DraftsInv
<1>1. EntryInv'
  BY <1>0 DEF EntryInv, Sound
<1>2. ReadInv'
  BY <1>0 DEF ReadInv
<1>3. ShownInv'
  BY <1>0 DEF ShownInv, Sound
<1>4. SwitchInv'
  BY <1>0, SwitchStays
<1> QED BY <1>1, <1>2, <1>3, <1>4 DEF DraftsInv

LEMMA SendStartsKeeps == DraftsInv /\ SendStarts => DraftsInv'
<1> SUFFICES ASSUME DraftsInv, SendStarts PROVE DraftsInv'
  OBVIOUS
<1>1. /\ sending' \in [c : Conv, text : Text \ {0}]
      /\ UNCHANGED <<bound, input, switching, entry, timer, tail, save, loads, files, canWrite, phase, round,
                     typed, hidden, overtaken, clock, binds, faults>>
  BY DEF DraftsInv, DraftsTypeOK, SendStarts, cachevars, endvars, history, counters
<1>2. DraftsTypeOK'
  BY <1>1 DEF DraftsInv, DraftsTypeOK
<1> QED BY <1>1, <1>2, AsideKeeps

LEMMA SendFailsKeeps == DraftsInv /\ SendFails => DraftsInv'
<1> SUFFICES ASSUME DraftsInv, SendFails PROVE DraftsInv'
  OBVIOUS
<1>1. /\ sending' = NoConv
      /\ UNCHANGED <<bound, input, switching, entry, timer, tail, save, loads, files, canWrite, phase, round,
                     typed, hidden, overtaken, clock, binds, faults>>
  BY DEF SendFails, cachevars, endvars, history, counters
<1>2. DraftsTypeOK'
  BY <1>1 DEF DraftsInv, DraftsTypeOK
<1> QED BY <1>1, <1>2, AsideKeeps

(* ensure() alone changes nothing that anybody sees.                        *)
LEMMA EnsureKeeps ==
  ASSUME DraftsTypeOK, EntryInv, ShownInv, NEW c \in Conv, entry' = [entry EXCEPT ![c] = ensure(c)],
         UNCHANGED <<save, files, typed, clock>>, Sound' \subseteq Sound, Sound \ {c} \subseteq Sound'
  PROVE  /\ EntryInv' /\ entry' \in [Conv -> Entry \cup {NoEntry}]
         /\ entry'[bound] = entry[bound] /\ entry'[c] = ensure(c)
<1>1. /\ ensure(c) \in Entry /\ Fits(ensure(c), save[c], files[c], clock)
      /\ c \in Sound => Keeps(ensure(c), files[c], typed[c])
  BY Ensured
<1>2. /\ bound \in Conv /\ save[c] \in Save \cup {NoSave} /\ clock \in Nat
      /\ entry \in [Conv -> Entry \cup {NoEntry}]
  BY DEF DraftsTypeOK
<1>3. entry' \in [Conv -> Entry \cup {NoEntry}]
  BY <1>1, <1>2
<1>4. entry' \in Pruned([entry EXCEPT ![c] = ensure(c)], bound)
  BY <1>3, PruneNothing
<1>5. c \in Sound' => Keeps(ensure(c), files'[c], typed'[c])
  BY <1>1
<1>6. EntryInv'
  <2>1. Fits(ensure(c), save'[c], files'[c], clock') /\ clock' \in Nat /\ clock <= clock'
    BY <1>1, <1>2
  <2>2. \A d \in Conv \ {c} : /\ save'[d] = save[d] /\ files'[d] = files[d] /\ typed'[d] = typed[d]
                              /\ (d \in Sound' <=> d \in Sound)
    OBVIOUS
  <2> QED BY <1>1, <1>2, <1>4, <1>5, <2>1, <2>2, EntriesKept
<1>7. entry'[bound] = entry[bound] /\ entry'[c] = ensure(c)
  BY <1>2 DEF ensure, ShownInv
<1> QED BY <1>3, <1>6, <1>7

(* The text that was sent leaves editor and entry at once, or neither.      *)
LEMMA SendAcceptedKeeps == DraftsInv /\ SendAccepted => DraftsInv'
<1> SUFFICES ASSUME DraftsInv, SendAccepted PROVE DraftsInv'
  OBVIOUS
<1>0. DraftsTypeOK /\ EntryInv /\ ReadInv /\ ShownInv /\ SwitchInv
  BY DEF DraftsInv
<1> DEFINE c == sending.c
           sent == sending.text
<1>1. /\ c \in Conv /\ sent \in Text \ {0} /\ sending' = NoConv /\ bound \in Conv
      /\ UNCHANGED <<bound, switching, tail, save, loads, files, endvars, hidden, overtaken, clock, binds, faults>>
  BY <1>0 DEF SendAccepted, DraftsTypeOK, counters
<1>2. ReadInv' /\ SwitchInv'
  <2>1. ReadInv'
    BY <1>0, <1>1 DEF ReadInv
  <2> QED BY <1>0, <1>1, <2>1, SwitchStays
<1>3. CASE ensure(c).draft = sent
  <2>1. /\ input' = IF bound = c /\ input = sent THEN 0 ELSE input
        /\ typed' = [typed EXCEPT ![c] = 0] /\ schedule(c)
        /\ entry' \in Pruned([entry EXCEPT ![c] = Edited(ensure(c), 0)], bound)
    BY <1>1, <1>3 DEF SendAccepted, updateDraft
  <2> HIDE DEF c, sent
  <2>2. /\ typed' \in [Conv -> Text] /\ typed'[c] = 0 /\ \A d \in Conv \ {c} : typed'[d] = typed[d]
    BY <1>0, <1>1, <2>1, DraftsAssumption DEF DraftsTypeOK, Text
  <2>3. /\ EntryInv' /\ entry' \in [Conv -> Entry \cup {NoEntry}] /\ entry'[bound] # NoEntry
        /\ entry'[bound].draft = IF bound = c THEN 0 ELSE entry[bound].draft
    <3>1. 0 \in Text /\ clock' \in 1 .. MaxEdits + 1 /\ 0 <= clock' /\ clock <= clock'
      BY <1>0, <1>1, DraftsAssumption DEF DraftsTypeOK, Text
    <3>2. Sound' = Sound
      BY <1>1 DEF Sound
    <3> QED BY <1>1, <2>1, <2>2, <3>1, <3>2, EditKeeps
  <2>4. /\ ensure(bound) = entry[bound] /\ input' <= clock' /\ Sound' = Sound
        /\ bound \in Sound => input = entry[bound].draft
    BY <1>0, <1>1, <2>1, DraftsAssumption DEF ensure, ShownInv, DraftsTypeOK, Text, Sound
  <2>5. ShownInv'
    <3>1. CASE bound = c
      BY <1>1, <1>3, <2>1, <2>2, <2>3, <2>4, <3>1 DEF ShownInv
    <3>2. CASE bound # c
      BY <1>0, <1>1, <2>1, <2>2, <2>3, <2>4, <3>2 DEF ShownInv
    <3> QED BY <3>1, <3>2
  <2>6. DraftsTypeOK'
    <3>1. timer' \subseteq Conv
      BY <1>0, <1>1, <2>1 DEF schedule, DraftsTypeOK
    <3>2. input' \in Text
      BY <1>0, <2>1, DraftsAssumption DEF DraftsTypeOK, Text
    <3> QED BY <1>0, <1>1, <2>2, <2>3, <3>1, <3>2 DEF DraftsTypeOK, EntryInv, Fits, endvars
  <2> QED BY <1>2, <2>3, <2>5, <2>6 DEF DraftsInv
<1>4. CASE ensure(c).draft # sent
  <2>1. entry' = [entry EXCEPT ![c] = ensure(c)] /\ UNCHANGED <<input, typed, timer>>
    BY <1>4 DEF SendAccepted
  <2> HIDE DEF c, sent
  <2>2. EntryInv' /\ entry' \in [Conv -> Entry \cup {NoEntry}] /\ entry'[bound] = entry[bound]
    <3>1. Sound' = Sound
      BY <1>1 DEF Sound
    <3> QED BY <1>0, <1>1, <2>1, <3>1, EnsureKeeps
  <2>3. ShownInv'
    BY <1>0, <1>1, <2>1, <2>2 DEF ShownInv, Sound
  <2>4. DraftsTypeOK'
    BY <1>0, <1>1, <2>1, <2>2 DEF DraftsTypeOK, EntryInv, Fits, endvars
  <2> QED BY <1>2, <2>2, <2>3, <2>4 DEF DraftsInv
<1> QED BY <1>3, <1>4

(* A read gives the stored text to an entry with nothing unsaved, which no  *)
(* write is behind, unless it comes too late.                              *)
LEMMA LoadedFits ==
  ASSUME DraftsInv, NEW l \in loads, NEW text \in l.seen
  PROVE  /\ l.c \in Conv /\ text \in Text \cup {NotStored}
         /\ Loaded(l, text) \in Entry /\ Loaded(l, text) # NoEntry
         /\ Fits(Loaded(l, text), save[l.c], files[l.c], clock)
         /\ l.c \in Sound /\ ~Late(l, text) => Keeps(Loaded(l, text), files[l.c], typed[l.c])
         /\ l.c \in Sound /\ ~Late(l, text) /\ l.current => Loaded(l, text).draft = typed[l.c]
         /\ Dirty(entry[l.c]) => Loaded(l, text) = entry[l.c]
<1>0. DraftsTypeOK /\ EntryInv /\ ReadInv /\ ShownInv
  BY DEF DraftsInv
<1> DEFINE c == l.c
           x == ensure(c)
<1>1. /\ c \in Conv /\ text \in Text \cup {NotStored} /\ clock \in Nat
      /\ text # NotStored => text <= clock
  BY <1>0, DraftsAssumption DEF ReadInv, DraftsTypeOK, Text
<1>2. /\ x \in Entry /\ x # NoEntry /\ Fits(x, save[c], files[c], clock)
      /\ c \in Sound => Keeps(x, files[c], typed[c])
      /\ Dirty(x) <=> Dirty(entry[c])
      /\ Dirty(x) => x = entry[c]
  <2>1. Dirty(x) <=> Dirty(entry[c])
    BY DEF ensure, Dirty, Blank
  <2>2. Dirty(x) => x = entry[c]
    BY <2>1 DEF ensure, Dirty
  <2> QED BY <1>0, <1>1, <2>1, <2>2, Ensured
<1>3. Loaded(l, text) = IF text = NotStored THEN x ELSE Replaced(x, text)
  BY DEF Loaded
<1>4. ~Late(l, text) /\ ~Dirty(x) => text = files[c]
  BY <1>2 DEF Late
<1> HIDE DEF c, x
<1>5. CASE Dirty(x)
  <2>1. Loaded(l, text) = x
    BY <1>3, <1>5 DEF Replaced
  <2>2. x.draft = typed[c] \/ c \notin Sound
    BY <1>2, <1>5 DEF Keeps
  <2> QED BY <1>1, <1>2, <1>5, <2>1, <2>2 DEF c
<1>6. CASE ~Dirty(x) /\ text = NotStored
  <2>1. Loaded(l, text) = x
    BY <1>3, <1>6
  <2>2. c \in Sound /\ ~Late(l, text) => x.draft = typed[c]
    BY <1>2, <1>4, <1>6 DEF Keeps, TextOf
  <2> QED BY <1>1, <1>2, <1>6, <2>1, <2>2 DEF c
<1>7. CASE ~Dirty(x) /\ text # NotStored
  <2> DEFINE y == [draft |-> text, rev |-> x.rev + 1, saved |-> x.rev + 1]
  <2>1. Loaded(l, text) = y
    BY <1>3, <1>7 DEF Replaced
  <2>2. y \in Entry /\ y.draft = text /\ y.rev = y.saved /\ y.rev \in Nat
    BY <1>1, <1>2, <1>7 DEF Entry
  <2> HIDE DEF y
  <2>3. y # NoEntry /\ ~Dirty(y)
    BY <2>2, EntryIs DEF Dirty
  <2>4. save[c] = NoSave
    <3>1. save[c] \in Save \cup {NoSave}
      BY <1>0, <1>1 DEF DraftsTypeOK
    <3> QED BY <1>2, <1>7, <3>1 DEF Fits, Dirty, Entry, Save, Text
  <2>5. Fits(y, save[c], files[c], clock)
    BY <1>1, <1>2, <1>7, <2>2, <2>3, <2>4 DEF Fits
  <2>6. c \in Sound /\ ~Late(l, text) => Keeps(y, files[c], typed[c]) /\ y.draft = typed[c]
    BY <1>2, <1>4, <1>7, <2>2, <2>3 DEF Keeps, TextOf
  <2> QED BY <1>1, <1>2, <1>7, <2>1, <2>2, <2>3, <2>5, <2>6 DEF c
<1> QED BY <1>5, <1>6, <1>7

LEMMA LoadReturnsKeeps ==
  DraftsInv /\ (\E l \in loads : \E text \in l.seen : LoadReturns(l, text)) => DraftsInv'
<1> SUFFICES ASSUME DraftsInv, NEW l \in loads, NEW text \in l.seen, LoadReturns(l, text) PROVE DraftsInv'
  OBVIOUS
<1>0. DraftsTypeOK /\ EntryInv /\ ReadInv /\ ShownInv /\ SwitchInv
  BY DEF DraftsInv
<1> DEFINE c == l.c
           e == Loaded(l, text)
<1>1. /\ c \in Conv /\ e \in Entry /\ e # NoEntry /\ Fits(e, save[c], files[c], clock)
      /\ c \in Sound /\ ~Late(l, text) => Keeps(e, files[c], typed[c])
      /\ c \in Sound /\ ~Late(l, text) /\ l.current => e.draft = typed[c]
      /\ Dirty(entry[c]) => e = entry[c]
  BY LoadedFits
<1>2. /\ loads' = loads \ {l} /\ entry' \in Pruned([entry EXCEPT ![c] = e], bound)
      /\ input' = IF l.current THEN e.draft ELSE input
      /\ overtaken' = IF Late(l, text) THEN overtaken \cup {c} ELSE overtaken
      /\ UNCHANGED <<bound, switching, sending, timer, tail, save, files, endvars, typed, hidden, clock, binds, faults>>
  BY DEF LoadReturns, counters
<1>3. /\ bound \in Conv /\ save[c] \in Save \cup {NoSave} /\ clock \in Nat /\ (l.current => c = bound)
      /\ Late(l, text) \/ Dirty(entry[c]) \/ c # bound \/ l.current
  BY <1>0, <1>1 DEF DraftsTypeOK, ReadInv, Late
<1>3a. /\ Sound' \subseteq Sound /\ (c \in Sound' => ~Late(l, text))
       /\ \A d \in Conv \ {c} : d \in Sound' <=> d \in Sound
  BY <1>2 DEF Sound
<1> HIDE DEF c, e
<1>4. EntryInv'
  BY <1>0, <1>1, <1>2, <1>3, <1>3a, EntriesKept
<1>5. /\ entry' \in [Conv -> Entry \cup {NoEntry}] /\ entry'[bound] = IF bound = c THEN e ELSE entry[bound]
  BY <1>0, <1>1, <1>2, <1>3, PruneLeaves
<1>6. DraftsTypeOK'
  <2>1. input' \in Text
    BY <1>0, <1>1, <1>2 DEF DraftsTypeOK, Entry
  <2>2. overtaken' \subseteq Conv
    BY <1>0, <1>1, <1>2 DEF DraftsTypeOK
  <2> QED BY <1>0, <1>2, <1>4, <1>5, <2>1, <2>2 DEF DraftsTypeOK, EntryInv, Fits, endvars
<1>7. ReadInv'
  BY <1>0, <1>2 DEF ReadInv
<1>8. ShownInv'
  <2>1. CASE l.current
    BY <1>1, <1>2, <1>3, <1>3a, <1>5, <2>1 DEF ShownInv, Fits
  <2>2. CASE ~l.current
    BY <1>0, <1>1, <1>2, <1>3, <1>3a, <1>5, <2>2 DEF ShownInv
  <2> QED BY <2>1, <2>2
<1>9. SwitchInv'
  BY <1>0, <1>2, SwitchStays
<1> QED BY <1>4, <1>6, <1>7, <1>8, <1>9 DEF DraftsInv

LEMMA LoadFailsKeeps == DraftsInv /\ (\E l \in loads : LoadFails(l)) => DraftsInv'
<1> SUFFICES ASSUME DraftsInv, NEW l \in loads, LoadFails(l) PROVE DraftsInv'
  OBVIOUS
<1>0. DraftsTypeOK /\ EntryInv /\ ReadInv /\ ShownInv /\ SwitchInv
  BY DEF DraftsInv
<1> DEFINE c == l.c
<1>1. /\ c \in Conv /\ loads' = loads \ {l} /\ entry' = [entry EXCEPT ![c] = ensure(c)]
      /\ hidden' = IF Dirty(entry[c]) THEN hidden ELSE hidden \cup {c}
      /\ input' = IF l.current THEN entry'[c].draft ELSE input
      /\ faults' \in 0 .. MaxFaults /\ bound \in Conv /\ (l.current => c = bound)
      /\ UNCHANGED <<bound, switching, sending, timer, tail, save, files, endvars, typed, overtaken, clock, binds>>
  BY <1>0, DraftsAssumption DEF LoadFails, DraftsTypeOK, ReadInv
<1> HIDE DEF c
<1>2. Sound' \subseteq Sound /\ Sound \ {c} \subseteq Sound' /\ (c \in Sound' => Dirty(entry[c]))
  BY <1>1 DEF Sound
<1>3. /\ EntryInv' /\ entry' \in [Conv -> Entry \cup {NoEntry}]
      /\ entry'[bound] = entry[bound] /\ entry'[c] = ensure(c)
  BY <1>0, <1>1, <1>2, EnsureKeeps
<1>4. entry[bound] \in Entry /\ entry[bound].draft <= clock
  BY <1>0, <1>1 DEF ShownInv, DraftsTypeOK, EntryInv, Fits
<1>5. DraftsTypeOK'
  <2>1. hidden' \subseteq Conv
    BY <1>0, <1>1 DEF DraftsTypeOK
  <2>2. input' \in Text
    BY <1>0, <1>1, <1>3, <1>4 DEF DraftsTypeOK, Entry
  <2> QED BY <1>0, <1>1, <1>3, <2>1, <2>2 DEF DraftsTypeOK, EntryInv, Fits, endvars
<1>6. ReadInv'
  BY <1>0, <1>1 DEF ReadInv
<1>7. ShownInv'
  <2>1. CASE l.current
    <3>1. bound \in Sound' => Dirty(entry[bound]) /\ entry[bound].draft = typed[bound]
      BY <1>0, <1>1, <1>2, <2>1 DEF EntryInv, Keeps
    <3> QED BY <1>0, <1>1, <1>3, <1>4, <2>1, <3>1 DEF ShownInv
  <2>2. CASE ~l.current
    BY <1>0, <1>1, <1>2, <1>3, <2>2 DEF ShownInv
  <2> QED BY <2>1, <2>2
<1>8. SwitchInv'
  BY <1>0, <1>1, SwitchStays
<1> QED BY <1>3, <1>5, <1>6, <1>7, <1>8 DEF DraftsInv

-----------------------------------------------------------------------------
(* Writes.                                                                  *)
LEMMA TimerFiresKeeps == DraftsInv /\ (\E c \in Conv : TimerFires(c)) => DraftsInv'
<1> SUFFICES ASSUME DraftsInv, NEW c \in Conv, TimerFires(c) PROVE DraftsInv'
  OBVIOUS
<1>0. DraftsTypeOK /\ EntryInv /\ ReadInv /\ ShownInv /\ SwitchInv
  BY DEF DraftsInv
<1>1. /\ flush(c, "timer")
      /\ UNCHANGED <<bound, input, switching, sending, entry, save, loads, files, endvars, typed, hidden, overtaken,
                     clock, binds, faults>>
  BY DEF TimerFires, viewvars, history, counters
<1>2. /\ timer' \subseteq Conv /\ tail' \in [Conv -> Seq(Waiter)] /\ tail'[c] # <<>>
      /\ \A d \in Conv \ {c} : tail'[d] = tail[d]
      /\ \A i \in DOMAIN tail'[c] :
           (i \in DOMAIN tail[c] /\ tail'[c][i] = tail[c][i]) \/ (i = Len(tail[c]) + 1 /\ tail'[c][i] = "timer")
  <2>1. "timer" \in Waiter
    BY DEF Waiter
  <2> QED BY <1>0, <1>1, <2>1, FlushStarts
<1>3. EntryInv'
  BY <1>0, <1>1 DEF EntryInv, Sound
<1>4. DraftsTypeOK'
  <2>1. \A d \in Conv : save'[d] # NoSave => tail'[d] # <<>>
    BY <1>0, <1>1, <1>2 DEF DraftsTypeOK
  <2> QED BY <1>0, <1>1, <1>2, <1>3, <2>1 DEF DraftsTypeOK, EntryInv, Fits, endvars
<1>5. ReadInv' /\ ShownInv'
  <2>1. ReadInv'
    BY <1>0, <1>1 DEF ReadInv
  <2>2. ShownInv'
    BY <1>0, <1>1 DEF ShownInv, Sound
  <2> QED BY <2>1, <2>2
<1>6. SwitchInv'
  <2>1. \A d \in Conv : \A i \in DOMAIN tail'[d] :
          tail'[d][i] = "switch" => i \in DOMAIN tail[d] /\ tail[d][i] = "switch"
    BY <1>2
  <2> QED BY <1>0, <1>1, <2>1, SwitchKept
<1> QED BY <1>3, <1>4, <1>5, <1>6 DEF DraftsInv

LEMMA FlushSkipsKeeps == DraftsInv /\ (\E c \in Conv : FlushSkips(c)) => DraftsInv'
<1> SUFFICES ASSUME DraftsInv, NEW c \in Conv, FlushSkips(c) PROVE DraftsInv'
  OBVIOUS
<1>0. DraftsTypeOK /\ EntryInv /\ ReadInv /\ ShownInv /\ SwitchInv
  BY DEF DraftsInv
<1>1. /\ tail[c] # <<>> /\ save[c] = NoSave /\ FlushEnds(c)
      /\ entry' = IF canWrite THEN [entry EXCEPT ![c] = ensure(c)] ELSE entry
      /\ UNCHANGED <<bound, input, sending, timer, save, loads, files, endvars, typed, hidden, overtaken, clock, binds, faults>>
  BY DEF FlushSkips, HasTurn, history, counters
<1>2. /\ tail' \in [Conv -> Seq(Waiter)] /\ \A d \in Conv \ {c} : tail'[d] = tail[d]
      /\ switching' \in [to : Conv, ready : BOOLEAN] \cup {NoConv} /\ SwitchInv'
  BY <1>0, <1>1, FlushEnding
<1>3. EntryInv' /\ entry' \in [Conv -> Entry \cup {NoEntry}] /\ entry'[bound] = entry[bound]
  <2>1. CASE canWrite
    <3>1. Sound' = Sound
      BY <1>1 DEF Sound
    <3> QED BY <1>0, <1>1, <2>1, <3>1, EnsureKeeps
  <2>2. CASE ~canWrite
    <3>1. entry' = entry
      BY <1>1, <2>2
    <3> QED BY <1>0, <1>1, <3>1 DEF EntryInv, DraftsTypeOK, Sound
  <2> QED BY <2>1, <2>2
<1>4. DraftsTypeOK'
  <2>1. \A d \in Conv : save'[d] # NoSave => tail'[d] # <<>>
    BY <1>0, <1>1, <1>2 DEF DraftsTypeOK
  <2> QED BY <1>0, <1>1, <1>2, <1>3, <2>1 DEF DraftsTypeOK, EntryInv, Fits, endvars
<1>5. ReadInv' /\ ShownInv'
  <2>1. ReadInv'
    BY <1>0, <1>1 DEF ReadInv
  <2>2. ShownInv'
    BY <1>0, <1>1, <1>3 DEF ShownInv, Sound
  <2> QED BY <2>1, <2>2
<1> QED BY <1>2, <1>3, <1>4, <1>5 DEF DraftsInv

(* A write begins with the newest text.                                     *)
LEMMA FlushWritesKeeps == DraftsInv /\ (\E c \in Conv : FlushWrites(c)) => DraftsInv'
<1> SUFFICES ASSUME DraftsInv, NEW c \in Conv, FlushWrites(c) PROVE DraftsInv'
  OBVIOUS
<1>0. DraftsTypeOK /\ EntryInv /\ ReadInv /\ ShownInv /\ SwitchInv
  BY DEF DraftsInv
<1> DEFINE e == entry[c]
           x == [rev |-> e.rev, text |-> e.draft, stored |-> FALSE]
<1>1. /\ tail[c] # <<>> /\ save[c] = NoSave /\ Dirty(e)
      /\ save' = [save EXCEPT ![c] = x]
      /\ UNCHANGED <<bound, input, switching, sending, entry, timer, tail, loads, files, endvars, typed, hidden, overtaken,
                     clock, binds, faults>>
  BY DEF FlushWrites, HasTurn, viewvars, history, counters, ensure, Blank, Dirty
<1>2. e \in Entry /\ e # NoEntry /\ Fits(e, save[c], files[c], clock)
  BY <1>0, <1>1 DEF DraftsTypeOK, EntryInv, Dirty
<1>3. x \in Save /\ x.rev = e.rev /\ x.text = e.draft /\ x.stored = FALSE
  BY <1>2 DEF Entry, Save
<1> HIDE DEF e, x
<1>4. /\ save' \in [Conv -> Save \cup {NoSave}] /\ save'[c] = x /\ \A d \in Conv \ {c} : save'[d] = save[d]
  BY <1>0, <1>1, <1>3 DEF DraftsTypeOK
<1>5. Fits(e, x, files[c], clock)
  <2>1. e.saved < e.rev
    BY <1>1, <1>2 DEF Fits, Dirty, Entry
  <2>2. e.draft <= clock /\ e.rev \in Nat
    BY <1>2 DEF Fits, Entry
  <2> QED BY <1>1, <1>2, <1>3, <2>1, <2>2 DEF Fits
<1>6. EntryInv'
  <2>1. \A d \in Conv : Fits(entry'[d], save'[d], files'[d], clock')
    BY <1>0, <1>1, <1>4, <1>5 DEF EntryInv, e
  <2> QED BY <1>0, <1>1, <2>1 DEF EntryInv, Sound
<1>7. DraftsTypeOK'
  <2>1. \A d \in Conv : save'[d] # NoSave => tail'[d] # <<>>
    BY <1>0, <1>1, <1>4 DEF DraftsTypeOK
  <2> QED BY <1>0, <1>1, <1>4, <1>6, <2>1 DEF DraftsTypeOK, EntryInv, Fits, endvars
<1>8. ReadInv'
  BY <1>0, <1>1 DEF ReadInv
<1>9. ShownInv'
  BY <1>0, <1>1 DEF ShownInv, Sound
<1>10. SwitchInv'
  BY <1>0, <1>1, SwitchStays
<1> QED BY <1>6, <1>7, <1>8, <1>9, <1>10 DEF DraftsInv

LEMMA SaveLandsKeeps == DraftsInv /\ (\E c \in Conv : SaveLands(c)) => DraftsInv'
<1> SUFFICES ASSUME DraftsInv, NEW c \in Conv, SaveLands(c) PROVE DraftsInv'
  OBVIOUS
<1>0. DraftsTypeOK /\ EntryInv /\ ReadInv /\ ShownInv /\ SwitchInv
  BY DEF DraftsInv
<1> DEFINE sv == save[c]
           x == [sv EXCEPT !.stored = TRUE]
<1>1. /\ sv # NoSave /\ files' = [files EXCEPT ![c] = sv.text] /\ save' = [save EXCEPT ![c] = x]
      /\ loads' = {IF l.c = c THEN [l EXCEPT !.seen = @ \cup {sv.text}] ELSE l : l \in loads}
      /\ UNCHANGED <<bound, input, switching, sending, entry, timer, tail, endvars, typed, hidden, overtaken,
                     clock, binds, faults>>
  BY <1>0 DEF SaveLands, viewvars, history, counters, DraftsTypeOK
<1>2. sv \in Save /\ Fits(entry[c], sv, files[c], clock) /\ entry[c] \in Entry /\ tail[c] # <<>>
  BY <1>0, <1>1 DEF DraftsTypeOK, EntryInv, Fits
<1>3. x \in Save /\ x.rev = sv.rev /\ x.text = sv.text /\ x.stored = TRUE /\ sv.text \in Text
  BY <1>2 DEF Save
<1>4. \A k \in loads' :
        /\ k \in [c : Conv, current : BOOLEAN, seen : SUBSET (Text \cup {NotStored})]
        /\ \E l \in loads : k.c = l.c /\ k.current = l.current /\ k.seen \subseteq l.seen \cup {sv.text}
  <2>1. \A l \in loads :
          /\ l \in [c : Conv, current : BOOLEAN, seen : SUBSET (Text \cup {NotStored})]
          /\ [l EXCEPT !.seen = @ \cup {sv.text}]
               \in [c : Conv, current : BOOLEAN, seen : SUBSET (Text \cup {NotStored})]
          /\ [l EXCEPT !.seen = @ \cup {sv.text}].c = l.c
          /\ [l EXCEPT !.seen = @ \cup {sv.text}].current = l.current
          /\ [l EXCEPT !.seen = @ \cup {sv.text}].seen = l.seen \cup {sv.text}
    BY <1>0, <1>3 DEF DraftsTypeOK
  <2> DEFINE seeing(l) == IF l.c = c THEN [l EXCEPT !.seen = @ \cup {sv.text}] ELSE l
  <2>2. loads' = {seeing(l) : l \in loads}
    BY <1>1
  <2>3. \A l \in loads :
          /\ seeing(l) \in [c : Conv, current : BOOLEAN, seen : SUBSET (Text \cup {NotStored})]
          /\ seeing(l).c = l.c /\ seeing(l).current = l.current
          /\ seeing(l).seen \subseteq l.seen \cup {sv.text}
    BY <2>1
  <2> HIDE DEF seeing
  <2> QED BY <2>2, <2>3
<1> HIDE DEF sv, x
<1>5. /\ save' \in [Conv -> Save \cup {NoSave}] /\ save'[c] = x /\ \A d \in Conv \ {c} : save'[d] = save[d]
      /\ files' \in [Conv -> Text \cup {NotStored}] /\ files'[c] = sv.text
      /\ \A d \in Conv \ {c} : files'[d] = files[d]
  BY <1>0, <1>1, <1>3 DEF DraftsTypeOK, sv
<1>6. Dirty(entry[c]) /\ Fits(entry[c], x, sv.text, clock)
  <2>1. Dirty(entry[c])
    BY <1>1, <1>2 DEF Fits, Dirty, Entry, Save
  <2> QED BY <1>1, <1>2, <1>3, <2>1 DEF Fits
<1>7. EntryInv'
  <2>1. \A d \in Conv : Fits(entry'[d], save'[d], files'[d], clock')
    BY <1>0, <1>1, <1>5, <1>6 DEF EntryInv
  <2>2. \A d \in Sound : Keeps(entry[d], files'[d], typed[d])
    <3> SUFFICES ASSUME NEW d \in Sound PROVE Keeps(entry[d], files'[d], typed[d])
      OBVIOUS
    <3>1. Keeps(entry[d], files[d], typed[d]) /\ d \in Conv
      BY <1>0 DEF EntryInv, Sound
    <3>2. CASE d = c
      BY <1>6, <3>1, <3>2 DEF Keeps
    <3>3. CASE d # c
      BY <1>5, <3>1, <3>3
    <3> QED BY <3>2, <3>3
  <2> QED BY <1>1, <2>1, <2>2 DEF EntryInv, Sound
<1>8. DraftsTypeOK'
  <2>1. \A d \in Conv : save'[d] # NoSave => tail'[d] # <<>>
    BY <1>0, <1>1, <1>2, <1>5 DEF DraftsTypeOK
  <2> QED BY <1>0, <1>1, <1>4, <1>5, <1>7, <2>1 DEF DraftsTypeOK, EntryInv, Fits, endvars
<1>9. ReadInv'
  <2>1. sv.text <= clock
    BY <1>1, <1>2 DEF Fits
  <2> QED BY <1>0, <1>1, <1>4, <2>1 DEF ReadInv
<1>10. ShownInv'
  <2>1. \A l \in loads : \E k \in loads' : k.current = l.current
    <3> DEFINE seeing(l) == IF l.c = c THEN [l EXCEPT !.seen = @ \cup {sv.text}] ELSE l
    <3>1. \A l \in loads : seeing(l).current = l.current
      BY <1>0 DEF DraftsTypeOK
    <3>2. loads' = {seeing(l) : l \in loads}
      BY <1>1
    <3> HIDE DEF seeing
    <3> QED BY <3>1, <3>2
  <2> QED BY <1>0, <1>1, <2>1 DEF ShownInv, Sound
<1>11. SwitchInv'
  BY <1>0, <1>1, SwitchStays
<1> QED BY <1>7, <1>8, <1>9, <1>10, <1>11 DEF DraftsInv

(* An acknowledged entry is clean only if its own text was written.         *)
LEMMA AcknowledgedFits ==
  ASSUME DraftsTypeOK, EntryInv, NEW c \in Conv, save[c] # NoSave, save[c].stored,
         acknowledge(c, save[c].rev)
  PROVE  \E e \in Entry :
           /\ entry' \in Pruned([entry EXCEPT ![c] = e], bound)
           /\ e # NoEntry /\ e.draft = entry[c].draft
           /\ Fits(e, NoSave, files[c], clock)
           /\ c \in Sound => Keeps(e, files[c], typed[c])
<1> DEFINE o == entry[c]
           sv == save[c]
           m == Max({o.saved, sv.rev})
           e == [o EXCEPT !.saved = m]
<1>1. /\ o \in Entry /\ sv \in Save /\ o # NoEntry /\ Fits(o, sv, files[c], clock)
      /\ c \in Sound => Keeps(o, files[c], typed[c])
  BY DEF DraftsTypeOK, EntryInv, Fits
<1>2. entry' \in Pruned([entry EXCEPT ![c] = e], bound)
  <2>1. entry' \in Pruned([entry EXCEPT ![c].saved = m], bound)
    BY <1>1 DEF acknowledge
  <2>2. [entry EXCEPT ![c].saved = m] = [entry EXCEPT ![c] = e]
    OBVIOUS
  <2> QED BY <2>1, <2>2
<1>3. o.saved \in Nat /\ sv.rev \in Nat /\ o.saved < sv.rev
  BY <1>1 DEF Entry, Save, Fits
<1>4. m = sv.rev /\ m \in Nat
  BY <1>3, MaxOfTwo
<1> HIDE DEF o, m, sv
<1>5. e \in Entry /\ e.draft = o.draft /\ e.rev = o.rev /\ e.saved = sv.rev
  BY <1>1, <1>4 DEF Entry
<1> HIDE DEF e
<1>6. e # NoEntry
  BY <1>5, EntryIs
<1>7. TextOf(files[c]) = files[c] /\ files[c] = sv.text /\ files[c] <= clock
  BY <1>1, DraftsAssumption DEF TextOf, Fits, Save, Text, sv
<1>8. /\ sv.rev <= o.rev /\ o.draft <= clock /\ (sv.rev = o.rev => o.draft = sv.text)
      /\ sv # NoSave /\ Dirty(o)
  BY <1>1, <1>3 DEF Fits, Dirty, Entry, sv
<1>9. Dirty(e) <=> e.rev # e.saved
  BY <1>6 DEF Dirty
<1>10. Fits(e, NoSave, files[c], clock)
  BY <1>5, <1>6, <1>7, <1>8, <1>9 DEF Fits
<1>11. c \in Sound => Keeps(e, files[c], typed[c])
  BY <1>1, <1>5, <1>7, <1>8, <1>9 DEF Keeps
<1> QED BY <1>2, <1>5, <1>6, <1>10, <1>11 DEF o

LEMMA SaveDoneKeeps == DraftsInv /\ (\E c \in Conv : SaveDone(c)) => DraftsInv'
<1> SUFFICES ASSUME DraftsInv, NEW c \in Conv, SaveDone(c) PROVE DraftsInv'
  OBVIOUS
<1>0. DraftsTypeOK /\ EntryInv /\ ReadInv /\ ShownInv /\ SwitchInv
  BY DEF DraftsInv
<1>1. /\ save[c] # NoSave /\ save[c].stored /\ acknowledge(c, save[c].rev)
      /\ save' = [save EXCEPT ![c] = NoSave] /\ FlushEnds(c)
      /\ IF phase = "open" /\ Dirty(entry'[c]) THEN schedule(c) ELSE UNCHANGED timer
      /\ UNCHANGED <<bound, input, sending, loads, files, endvars, typed, hidden, overtaken, clock, binds, faults>>
  BY DEF SaveDone, history, counters
<1>2. /\ save' \in [Conv -> Save \cup {NoSave}] /\ save'[c] = NoSave /\ \A d \in Conv \ {c} : save'[d] = save[d]
      /\ bound \in Conv /\ clock \in Nat /\ tail[c] # <<>>
  BY <1>0, <1>1 DEF DraftsTypeOK
<1>3. PICK e \in Entry :
           /\ entry' \in Pruned([entry EXCEPT ![c] = e], bound)
           /\ e # NoEntry /\ e.draft = entry[c].draft
           /\ Fits(e, NoSave, files[c], clock)
           /\ c \in Sound => Keeps(e, files[c], typed[c])
  BY <1>0, <1>1, AcknowledgedFits
<1>3a. Sound' = Sound
  BY <1>1 DEF Sound
<1>4. EntryInv'
  <2>1. Fits(e, save'[c], files'[c], clock') /\ (c \in Sound' => Keeps(e, files'[c], typed'[c]))
    BY <1>1, <1>2, <1>3, <1>3a
  <2>2. save'[c] \in Save \cup {NoSave} /\ clock' \in Nat /\ clock <= clock'
    BY <1>1, <1>2
  <2>3. \A d \in Conv \ {c} : /\ save'[d] = save[d] /\ files'[d] = files[d] /\ typed'[d] = typed[d]
                              /\ (d \in Sound' <=> d \in Sound)
    BY <1>1, <1>2, <1>3a
  <2> QED BY <1>0, <1>2, <1>3, <2>1, <2>2, <2>3, EntriesKept
<1>5. /\ entry' \in [Conv -> Entry \cup {NoEntry}] /\ entry'[bound] = IF bound = c THEN e ELSE entry[bound]
  BY <1>0, <1>2, <1>3, PruneLeaves
<1>6. /\ tail' \in [Conv -> Seq(Waiter)] /\ \A d \in Conv \ {c} : tail'[d] = tail[d]
      /\ switching' \in [to : Conv, ready : BOOLEAN] \cup {NoConv} /\ SwitchInv'
  BY <1>0, <1>1, <1>2, FlushEnding
<1>7. DraftsTypeOK'
  <2>1. \A d \in Conv : save'[d] # NoSave => tail'[d] # <<>>
    BY <1>0, <1>2, <1>6 DEF DraftsTypeOK
  <2>2. timer' \subseteq Conv
    BY <1>0, <1>1 DEF schedule, DraftsTypeOK
  <2> QED BY <1>0, <1>1, <1>2, <1>4, <1>5, <1>6, <2>1, <2>2 DEF DraftsTypeOK, EntryInv, Fits, endvars
<1>8. ReadInv'
  <2>1. \A l \in loads : l.c \in Conv
    BY <1>0 DEF DraftsTypeOK
  <2> QED BY <1>0, <1>1, <1>2, <2>1 DEF ReadInv
<1>9. ShownInv'
  BY <1>0, <1>1, <1>3, <1>5 DEF ShownInv, Sound
<1> QED BY <1>4, <1>6, <1>7, <1>8, <1>9 DEF DraftsInv

LEMMA SaveFailsKeeps == DraftsInv /\ (\E c \in Conv : SaveFails(c)) => DraftsInv'
<1> SUFFICES ASSUME DraftsInv, NEW c \in Conv, SaveFails(c) PROVE DraftsInv'
  OBVIOUS
<1>0. DraftsTypeOK /\ EntryInv /\ ReadInv /\ ShownInv /\ SwitchInv
  BY DEF DraftsInv
<1>1. /\ save[c] # NoSave /\ save' = [save EXCEPT ![c] = NoSave] /\ FlushEnds(c)
      /\ UNCHANGED <<bound, input, sending, entry, timer, loads, files, endvars, typed, hidden, overtaken, clock, binds>>
      /\ faults' \in 0 .. MaxFaults
  BY <1>0, DraftsAssumption DEF SaveFails, history, DraftsTypeOK
<1>2. /\ save' \in [Conv -> Save \cup {NoSave}] /\ save'[c] = NoSave /\ \A d \in Conv \ {c} : save'[d] = save[d]
      /\ tail[c] # <<>>
  BY <1>0, <1>1 DEF DraftsTypeOK
<1>3. EntryInv'
  <2>1. \A d \in Conv : Fits(entry[d], save'[d], files[d], clock)
    <3> SUFFICES ASSUME NEW d \in Conv PROVE Fits(entry[d], save'[d], files[d], clock)
      OBVIOUS
    <3>1. Fits(entry[d], save[d], files[d], clock)
      BY <1>0 DEF EntryInv
    <3>2. save'[d] = save[d] \/ save'[d] = NoSave
      BY <1>2
    <3> QED BY <3>1, <3>2 DEF Fits
  <2> QED BY <1>0, <1>1, <2>1 DEF EntryInv, Sound
<1>4. /\ tail' \in [Conv -> Seq(Waiter)] /\ \A d \in Conv \ {c} : tail'[d] = tail[d]
      /\ switching' \in [to : Conv, ready : BOOLEAN] \cup {NoConv} /\ SwitchInv'
  BY <1>0, <1>1, <1>2, FlushEnding
<1>5. DraftsTypeOK'
  <2>1. \A d \in Conv : save'[d] # NoSave => tail'[d] # <<>>
    BY <1>0, <1>2, <1>4 DEF DraftsTypeOK
  <2> QED BY <1>0, <1>1, <1>2, <1>3, <1>4, <2>1 DEF DraftsTypeOK, EntryInv, Fits, endvars
<1>6. ReadInv'
  <2>1. \A l \in loads : l.c \in Conv
    BY <1>0 DEF DraftsTypeOK
  <2> QED BY <1>0, <1>1, <1>2, <2>1 DEF ReadInv
<1>7. ShownInv'
  BY <1>0, <1>1 DEF ShownInv, Sound
<1> QED BY <1>3, <1>4, <1>5, <1>6, <1>7 DEF DraftsInv

-----------------------------------------------------------------------------
(* The end: the flush of a shutdown only adds to the queues.                *)
LEMMA FlushAllKeeps ==
  ASSUME DraftsTypeOK, SwitchInv, NEW cs, FlushAll(cs), UNCHANGED switching
  PROVE  /\ tail' \in [Conv -> Seq(Waiter)] /\ SwitchInv'
         /\ \A d \in Conv : tail[d] # <<>> => tail'[d] # <<>>
<1>1. tail \in [Conv -> Seq(Waiter)] /\ "shutdown" \in Waiter
  BY DEF DraftsTypeOK, Waiter
<1>2. \A d \in Conv : tail'[d] = IF d \in cs THEN Append(tail[d], "shutdown") ELSE tail[d]
  BY DEF FlushAll
<1>3. tail' \in [Conv -> Seq(Waiter)]
  BY <1>1, QueueIs DEF FlushAll
<1>4. \A d \in Conv : tail[d] # <<>> => tail'[d] # <<>>
  <2> SUFFICES ASSUME NEW d \in Conv, tail[d] # <<>> PROVE tail'[d] # <<>>
    OBVIOUS
  <2>1. tail[d] \in Seq(Waiter)
    BY <1>1
  <2>2. Append(tail[d], "shutdown") # <<>>
    BY <1>1, <2>1, QueueIs
  <2> QED BY <1>2, <2>2
<1>5. \A d \in Conv : \A i \in DOMAIN tail'[d] :
        tail'[d][i] = "switch" => i \in DOMAIN tail[d] /\ tail[d][i] = "switch"
  <2> SUFFICES ASSUME NEW d \in Conv, NEW i \in DOMAIN tail'[d], tail'[d][i] = "switch"
               PROVE  i \in DOMAIN tail[d] /\ tail[d][i] = "switch"
    OBVIOUS
  <2>1. tail[d] \in Seq(Waiter)
    BY <1>1
  <2>2. CASE d \in cs
    <3>1. tail'[d] = Append(tail[d], "shutdown")
      BY <1>2, <2>2
    <3>2. \A k \in DOMAIN Append(tail[d], "shutdown") :
            (k \in DOMAIN tail[d] /\ Append(tail[d], "shutdown")[k] = tail[d][k])
              \/ Append(tail[d], "shutdown")[k] = "shutdown"
      BY <1>1, <2>1, QueueIs
    <3> QED BY <3>1, <3>2
  <2>3. CASE d \notin cs
    BY <1>2, <2>3
  <2> QED BY <2>2, <2>3
<1> QED BY <1>3, <1>4, <1>5, SwitchKept

LEMMA LeaseLostKeeps == DraftsInv /\ LeaseLost => DraftsInv'
<1> SUFFICES ASSUME DraftsInv, LeaseLost PROVE DraftsInv'
  OBVIOUS
<1>1. /\ canWrite' = FALSE /\ faults' \in 0 .. MaxFaults
      /\ UNCHANGED <<bound, input, switching, sending, entry, timer, tail, save, loads, files, phase, round,
                     typed, hidden, overtaken, clock, binds>>
  BY DraftsAssumption DEF LeaseLost, DraftsInv, DraftsTypeOK, viewvars, cachevars, history
<1>2. DraftsTypeOK'
  BY <1>1 DEF DraftsInv, DraftsTypeOK
<1> QED BY <1>1, <1>2, AsideKeeps

LEMMA EndKeeps == DraftsInv /\ (Shutdown \/ RoundEnds) => DraftsInv'
<1> SUFFICES ASSUME DraftsInv, Shutdown \/ RoundEnds PROVE DraftsInv'
  OBVIOUS
<1>0. DraftsTypeOK /\ EntryInv /\ ReadInv /\ ShownInv /\ SwitchInv
  BY DEF DraftsInv
<1>1. UNCHANGED <<bound, input, switching, sending, entry, save, loads, files, canWrite, typed, hidden, overtaken,
                  clock, binds, faults>>
  BY DEF Shutdown, RoundEnds, viewvars, history, counters
<1>2. /\ timer' \subseteq Conv /\ phase' \in {"open", "flushing", "done", "failed"} /\ round' \in 0 .. MaxRounds
      /\ FlushAll(ToFlush) \/ UNCHANGED tail
  BY <1>0, DraftsAssumption DEF Shutdown, RoundEnds, DraftsTypeOK, RoundOver
<1>3. /\ tail' \in [Conv -> Seq(Waiter)] /\ SwitchInv'
      /\ \A d \in Conv : tail[d] # <<>> => tail'[d] # <<>>
  <2>1. CASE FlushAll(ToFlush)
    BY <1>0, <1>1, <2>1, FlushAllKeeps
  <2>2. CASE UNCHANGED tail
    BY <1>0, <1>1, <2>2, SwitchStays DEF DraftsTypeOK
  <2> QED BY <1>2, <2>1, <2>2
<1>4. EntryInv'
  BY <1>0, <1>1 DEF EntryInv, Sound
<1>5. DraftsTypeOK'
  <2>1. \A d \in Conv : save'[d] # NoSave => tail'[d] # <<>>
    BY <1>0, <1>1, <1>3 DEF DraftsTypeOK
  <2> QED BY <1>0, <1>1, <1>2, <1>3, <1>4, <2>1 DEF DraftsTypeOK, EntryInv, Fits
<1>6. ReadInv'
  BY <1>0, <1>1 DEF ReadInv
<1>7. ShownInv'
  BY <1>0, <1>1 DEF ShownInv, Sound
<1> QED BY <1>3, <1>4, <1>5, <1>6, <1>7 DEF DraftsInv

-----------------------------------------------------------------------------
LEMMA DraftsInitInv == DraftsInit => DraftsInv
<1> SUFFICES ASSUME DraftsInit PROVE DraftsInv
  OBVIOUS
<1>1. /\ files \in [Conv -> {1, NotStored}] /\ typed = [c \in Conv |-> Stored(c)] /\ hidden = {} /\ overtaken = {}
      /\ bound \in Conv /\ input = 0 /\ switching = NoConv /\ sending = NoConv /\ timer = {}
      /\ entry = [c \in Conv |-> IF c = bound THEN Blank ELSE NoEntry]
      /\ tail = [c \in Conv |-> <<>>] /\ save = [c \in Conv |-> NoSave]
      /\ loads = {[c |-> bound, current |-> TRUE, seen |-> {files[bound]}]}
      /\ canWrite = TRUE /\ phase = "open" /\ round = 0 /\ clock = 1 /\ binds = 0 /\ faults = 0
  BY DEF DraftsInit
<1>2. 0 \in Text /\ 1 \in Text /\ 1 \in 1 .. MaxEdits + 1 /\ 0 \in 0 .. MaxRounds /\ 0 \in 0 .. MaxBinds
      /\ 0 \in 0 .. MaxFaults /\ NotStored # 1
  BY DraftsAssumption DEF Text
<1>3. Blank \in Entry /\ Blank # NoEntry /\ ~Dirty(Blank) /\ ~Dirty(NoEntry)
  BY BlankIs DEF Dirty, Blank
<1>4. typed \in [Conv -> Text] /\ \A c \in Conv : typed[c] = TextOf(files[c])
  BY <1>1, <1>2 DEF Stored, TextOf
<1>5. entry \in [Conv -> Entry \cup {NoEntry}] /\ \A c \in Conv : entry[c] \in {Blank, NoEntry}
  BY <1>1, <1>3
<1>6. EntryInv
  <2>1. \A c \in Conv : Fits(entry[c], save[c], files[c], clock)
    <3> SUFFICES ASSUME NEW c \in Conv PROVE Fits(entry[c], save[c], files[c], clock)
      OBVIOUS
    <3>1. save[c] = NoSave /\ files[c] \in {1, NotStored} /\ clock = 1
      BY <1>1
    <3>2. entry[c] # NoEntry => entry[c].draft = 0 /\ entry[c].rev = 0 /\ entry[c].saved = 0
      BY <1>5 DEF Blank
    <3> QED BY <3>1, <3>2 DEF Fits
  <2>2. \A c \in Conv : Keeps(entry[c], files[c], typed[c])
    BY <1>3, <1>4, <1>5 DEF Keeps, Blank
  <2> QED BY <2>1, <2>2 DEF EntryInv, Sound
<1>7. DraftsTypeOK
  <2>1. tail \in [Conv -> Seq(Waiter)] /\ save \in [Conv -> Save \cup {NoSave}]
        /\ \A c \in Conv : save[c] = NoSave
    BY <1>1
  <2>2. files \in [Conv -> Text \cup {NotStored}]
    BY <1>1, <1>2
  <2>3. loads \subseteq [c : Conv, current : BOOLEAN, seen : SUBSET (Text \cup {NotStored})]
    BY <1>1, <2>2
  <2>4. \A c \in Conv : entry[c] # NoEntry => entry[c].saved <= entry[c].rev
    BY <1>6 DEF EntryInv, Fits
  <2> QED BY <1>1, <1>2, <1>4, <1>5, <2>1, <2>2, <2>3, <2>4 DEF DraftsTypeOK
<1>8. ReadInv
  BY <1>1 DEF ReadInv
<1>9. ShownInv
  BY <1>1, <1>3 DEF ShownInv, Blank
<1>10. SwitchInv
  BY <1>1 DEF SwitchInv
<1> QED BY <1>6, <1>7, <1>8, <1>9, <1>10 DEF DraftsInv

LEMMA DraftsNextInv == DraftsInv /\ [DraftsNext]_draftsVars => DraftsInv'
<1> SUFFICES ASSUME DraftsInv, [DraftsNext]_draftsVars PROVE DraftsInv'
  OBVIOUS
<1>1. CASE Type \/ Scroll \/ SwitchEnds \/ \E c \in Conv : SwitchBegins(c)
  BY <1>1, TypeKeeps, ScrollKeeps, SwitchEndsKeeps, SwitchBeginsKeeps
<1>2. CASE SendStarts \/ SendAccepted \/ SendFails
  BY <1>2, SendStartsKeeps, SendAcceptedKeeps, SendFailsKeeps
<1>3. CASE LoadStep
  BY <1>3, LoadReturnsKeeps, LoadFailsKeeps DEF LoadStep
<1>4. CASE StartStep
  BY <1>4, FlushSkipsKeeps, FlushWritesKeeps DEF StartStep
<1>5. CASE \E c \in Conv : TimerFires(c) \/ SaveStep(c)
  BY <1>5, TimerFiresKeeps, SaveLandsKeeps, SaveDoneKeeps, SaveFailsKeeps DEF SaveStep
<1>6. CASE LeaseLost \/ Shutdown \/ RoundEnds
  BY <1>6, LeaseLostKeeps, EndKeeps
<1>7. CASE UNCHANGED draftsVars
  <2>1. UNCHANGED <<bound, input, switching, sending, entry, timer, tail, save, loads, files, canWrite, phase, round,
                   typed, hidden, overtaken, clock, binds, faults>>
    BY <1>7 DEF draftsVars, cachevars, viewvars, endvars, history, counters
  <2>2. DraftsTypeOK'
    BY <2>1 DEF DraftsInv, DraftsTypeOK
  <2> QED BY <2>1, <2>2, AsideKeeps
<1> QED BY <1>1, <1>2, <1>3, <1>4, <1>5, <1>6, <1>7 DEF DraftsNext, EventStep, EditorStep

(* The invariant of editor, cache, writes and reads, which overlap as they  *)
(* may.                                                                    *)
THEOREM DraftsInvariant == DraftsSpec => []DraftsInv
BY DraftsInitInv, DraftsNextInv, PTL DEF DraftsSpec

(* Whatever the user left and the store does not have is in memory, marked  *)
(* as unsaved, for any number of conversations, edits, switches and faults, *)
(* unless the stored text was never read, or too late.                      *)
THEOREM UnsavedTextStays == DraftsSpec => []UnsavedStaysInMemory
<1>1. DraftsInv => UnsavedStaysInMemory
  BY DEF DraftsInv, EntryInv, Keeps, UnsavedStaysInMemory, Stored, TextOf
<1> QED BY <1>1, DraftsInvariant, PTL

(* The editor shows the text that will be saved, with the same exceptions.  *)
THEOREM EditorIsTrue == DraftsSpec => []EditorShowsTheDraft
<1>1. DraftsInv => EditorShowsTheDraft
  BY DEF DraftsInv, ShownInv, EditorShowsTheDraft, ensure
<1> QED BY <1>1, DraftsInvariant, PTL

(* A shutdown that reports success has saved every text, with the same     *)
(* exceptions.                                                             *)
THEOREM ShutdownHasSaved == DraftsSpec => CleanShutdownSaves
<1>1. ASSUME DraftsInv, DraftsNext, phase # "done", phase' = "done"
      PROVE  \A c \in Sound : Stored(c) = typed[c]
  <2>1. RoundEnds
    BY <1>1 DEF DraftsNext, StartStep, EventStep, EditorStep, LoadStep, SaveStep, Type, Scroll, SwitchEnds,
                SendStarts, SendAccepted, SendFails, SwitchBegins, LoadFails, LoadReturns, FlushSkips, FlushWrites,
                TimerFires, SaveLands, SaveDone, SaveFails, LeaseLost, Shutdown, endvars
  <2>2. Clean
    BY <1>1, <2>1 DEF RoundEnds
  <2> QED BY <1>1, <2>2 DEF Clean, DraftsInv, EntryInv, Keeps, Stored, TextOf, Sound
<1>2. DraftsInv /\ [DraftsNext]_draftsVars =>
        [phase # "done" /\ phase' = "done" => \A c \in Sound : Stored(c) = typed[c]]_draftsVars
  BY <1>1
<1> QED BY <1>2, DraftsInvariant, PTL DEF DraftsSpec, CleanShutdownSaves
=============================================================================
