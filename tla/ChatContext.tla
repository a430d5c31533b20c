---------------------------- MODULE ChatContext ----------------------------
(***************************************************************************)
(* What the agent is told of a conversation when a prompt is sent           *)
(* (chat/chatContextService.ts, with the send of ui/chatView.ts, beginTurn  *)
(* of the store and the runtimes' sessions).  A session of the runtime that *)
(* took part in the latest completed turn is continued with the bare        *)
(* prompt; otherwise the prompt carries the conversation, the older turns   *)
(* as a summary that beginTurn stores as the conversation's checkpoint.     *)
(*                                                                         *)
(* One conversation, two agents, the views of one window.  A turn is its    *)
(* place in the transcript: its two messages are 2i-1 and 2i.  A tail is    *)
(* the set of its turns.  A summary covers the turns it was made of, and     *)
(* tells of those whose entry its bounded lists still have: one list stands *)
(* for the six of the code, and a turn has one entry in it, unlike any other *)
(* turn's.  A session is named by the turn that opened it; what its          *)
(* transcript holds is the runtime's, not ours, and a prompt carries what    *)
(* its summary covers.                                                      *)
(***************************************************************************)
EXTENDS Naturals, Sequences, FiniteSets, FiniteSetsExt

CONSTANTS View,
          Idle, NoRun, NoDraft,
          WindowTurns,   \* turns of one loaded window of messages
          RawTail,       \* turns handed over word for word
          TurnLimit,     \* completed turns after which a checkpoint is due
          NewItems,      \* entries a list of a new summary has at most
          SummaryItems,  \* entries a list of a merged summary has at most
          MaxTurns,      \* bound on the turns
          MaxRev,        \* bound on the revisions
          MaxRestarts    \* bound on the restarts

ASSUME ContextAssumption ==
  /\ WindowTurns \in Nat \ {0} /\ RawTail \in Nat /\ TurnLimit \in Nat \ {0}
  /\ NewItems \in Nat /\ SummaryItems \in Nat /\ NewItems <= SummaryItems
  /\ MaxTurns \in Nat /\ MaxRev \in Nat /\ MaxRestarts \in Nat

VARIABLES
  rev,       \* the conversation's revision
  turns,     \* its turns: agent, state, whether the answer has visible text
  owned,     \* per agent: its session and the turn that last claimed it
  ckpt,      \* the stored checkpoint: its last turn, the turns its summary covers and tells of
  prep,      \* per view: the preparation under way
  run,       \* the run of this conversation
  knows,     \* per session: the turns its transcript holds
  gone,      \* sessions the runtime no longer finds
  holed,     \* history: sessions continued by a prompt of two readings
  restarts

store == <<rev, turns, owned, ckpt>>
runtime == <<knows, gone, holed>>
vars == <<store, prep, run, runtime, restarts>>

Agent == {"claude", "codex"}
Turn == 1..MaxTurns
Session == 0..MaxTurns            \* 0: none
NoRevision == 0

Completed == {i \in DOMAIN turns : turns[i].state = "completed"}
Unfinished == {i \in DOMAIN turns : turns[i].state \in {"queued", "active", "paused"}}
Speaks(i) == turns[i].speaks
Largest(S) == IF S = {} THEN 0 ELSE Max(S)

State == {"queued", "active", "paused", "completed", "ended"}
TurnRecord == [agent : Agent, speaks : BOOLEAN, state : State]
Draft == [rev : 0..MaxRev, through : Turn, extends : 0..MaxTurns,
          covers : SUBSET Turn, tells : SUBSET Turn]
Prompt == [session : Session, carries : SUBSET Turn, rescue : BOOLEAN, fresh : SUBSET Turn,
           torn : BOOLEAN]
Loading == [at : {"window"}, agent : Agent]
Rereading == [at : {"full"}, agent : Agent, resume : BOOLEAN, due : BOOLEAN, session : Session,
              rev : 0..MaxRev]
Ready == [at : {"ready"}, agent : Agent, prompt : Prompt, rev : 0..MaxRev,
          draft : Draft \cup {NoDraft}]
Run == [at : {"begun", "open", "told"}, agent : Agent, turn : Turn, prompt : Prompt,
        claimed : BOOLEAN]

(* The conversation, its checkpoint, the preparations, the run and the       *)
(* sessions have their types.                                              *)
TypeOK ==
  /\ rev \in 0..MaxRev /\ turns \in Seq(TurnRecord) /\ Len(turns) <= MaxTurns
  /\ owned \in [Agent -> [session : Session, turn : 0..MaxTurns]]
  /\ ckpt \in [through : 0..MaxTurns, covers : SUBSET Turn, tells : SUBSET Turn]
  /\ prep \in [View -> {Idle} \cup Loading \cup Rereading \cup Ready]
  /\ run \in {NoRun} \cup Run
  /\ knows \in [Session -> SUBSET Turn]
  /\ gone \subseteq Session /\ holed \subseteq Session /\ restarts \in 0..MaxRestarts

Init ==
  /\ rev = 0 /\ turns = <<>>
  /\ owned = [a \in Agent |-> [session |-> 0, turn |-> 0]]
  /\ ckpt = [through |-> 0, covers |-> {}, tells |-> {}]
  /\ prep = [v \in View |-> Idle] /\ run = NoRun
  /\ knows = [s \in Session |-> {}] /\ gone = {} /\ holed = {} /\ restarts = 0

Commit == rev < MaxRev /\ rev' = rev + 1

-----------------------------------------------------------------------------
(* The preparation of a prompt, which writes nothing.                       *)

(* The completed turns past the checkpoint, of those the window still shows. *)
FirstShown == IF Len(turns) > WindowTurns THEN Len(turns) - WindowTurns + 1 ELSE 1
WindowIsSafe == FirstShown = 1 \/ ckpt.through >= FirstShown - 1
PastCheckpoint == {i \in Completed : i > ckpt.through}
Source(safe) == IF safe THEN PastCheckpoint ELSE {i \in PastCheckpoint : i >= FirstShown}

(* The session was last claimed by the latest completed turn.               *)
evaluateTargetSessionFreshness(a) ==
  owned[a].session # 0 /\ owned[a].turn = Largest(Completed)

(* selectCheckpointSafeTail: the last turn to summarise when the tail keeps  *)
(* at least n turns; a checkpoint ends at a turn whose answer is visible.    *)
Boundary(source, n) ==
  Largest({i \in source : Speaks(i) /\ Cardinality({j \in source : j > i}) >= n})

(* The n latest of some turns: a full list drops its oldest entries.        *)
Latest(n, S) == {i \in S : Cardinality({j \in S : j > i}) < n}

(* buildDeterministicFallbackSummary.                                       *)
NewSummary(source) == Latest(NewItems, source)

(* A broken variant: a full list keeps its oldest entries.                  *)
MergedOldest(previous, new) ==
  {i \in previous \cup new : Cardinality({j \in previous \cup new : j < i}) < SummaryItems}

mergeContextSummaries(previous, new) == Latest(SummaryItems, previous \cup new)

Prepares(v, ready) == prep' = [prep EXCEPT ![v] = ready]

(* A prompt by itself: what the session is told besides, what Codex gives a   *)
(* new thread when the one to resume cannot be, and whether the session was  *)
(* chosen from an earlier reading.                                         *)
BarePrompt == [session |-> 0, carries |-> {}, rescue |-> FALSE, fresh |-> {}, torn |-> FALSE]

PlainReady(a, expected) ==
  [at |-> "ready", agent |-> a, prompt |-> BarePrompt, rev |-> expected, draft |-> NoDraft]

(* A view whose copy of the conversation is still empty asks the store       *)
(* nothing and expects no revision.                                        *)
SendBegins(v, a) ==
  /\ prep[v] = Idle /\ run = NoRun
  /\ Len(turns) < MaxTurns
  /\ prep' = [prep EXCEPT ![v] =
       IF turns = <<>> THEN PlainReady(a, NoRevision)
       ELSE [at |-> "window", agent |-> a]]
  /\ UNCHANGED <<store, run, runtime, restarts>>

(* The prompt of the source just read.  Whether the text is over the soft    *)
(* limit, and how many of the raw turns fit, is left open.                  *)
Prepared(a, safe, resume, due, session, torn) ==
  LET source == Source(safe)
      handoff == ckpt.covers \cup source
      dropsPrefix == ~resume /\ Cardinality(source) > RawTail
      told == [PlainReady(a, rev) EXCEPT !.prompt.carries = handoff]
      Drafted(b) ==
        LET prefix == {i \in source : i <= b} IN
        [rev |-> rev, through |-> b, extends |-> ckpt.through,
         covers |-> ckpt.covers \cup prefix,
         tells |-> mergeContextSummaries(ckpt.tells, NewSummary(prefix))]
      Checkpoints ==
        {[told EXCEPT !.draft = Drafted(b)] :
          b \in {Boundary(source, n) : n \in 0..Min({RawTail, Cardinality(source)})} \ {0}}
      Without ==
        IF ~resume THEN told
        ELSE [PlainReady(a, rev) EXCEPT !.prompt =
               [session |-> session, carries |-> {}, rescue |-> a = "codex",
                fresh |-> IF a = "codex" THEN handoff ELSE {}, torn |-> torn]]
  IN (IF (due \/ dropsPrefix) /\ source # {} THEN {} ELSE {Without})
     \cup (IF due \/ dropsPrefix \/ safe THEN Checkpoints ELSE {})

(* loadConversationWindow.  The view's candidate is a session only when its   *)
(* copy is current, its configuration unchanged and no conflict is known.    *)
WindowLoaded(v, candidate) ==
  /\ prep[v] # Idle /\ prep[v].at = "window"
  /\ LET a == prep[v].agent
         resume == candidate /\ evaluateTargetSessionFreshness(a)
         due == Cardinality(PastCheckpoint) >= TurnLimit
     IN IF Completed = {} THEN Prepares(v, PlainReady(a, rev))
        ELSE IF ~WindowIsSafe /\ (~resume \/ due \/ a = "codex")
        THEN prep' = [prep EXCEPT ![v] =
               [at |-> "full", agent |-> a, resume |-> resume, due |-> due,
                session |-> owned[a].session, rev |-> rev]]
        ELSE \E ready \in Prepared(a, WindowIsSafe, resume, due, owned[a].session, FALSE) :
               Prepares(v, ready)
  /\ UNCHANGED <<store, run, runtime, restarts>>

(* getConversation, perhaps of a later revision than the window: the source  *)
(* is of now, what was decided from the window stays.                       *)
FullLoaded(v) ==
  /\ prep[v] # Idle /\ prep[v].at = "full"
  /\ \E ready \in Prepared(prep[v].agent, TRUE, prep[v].resume, prep[v].due, prep[v].session,
                           rev # prep[v].rev) : Prepares(v, ready)
  /\ UNCHANGED <<store, run, runtime, restarts>>

(* A read fails, or nothing fits below the hard limit.                      *)
PreparationFails(v) ==
  /\ prep[v] # Idle /\ prep[v].at \in {"window", "full"}
  /\ prep' = [prep EXCEPT ![v] = Idle]
  /\ UNCHANGED <<store, run, runtime, restarts>>

-----------------------------------------------------------------------------
(* The send: the run is admitted and its turn begun.                        *)

(* materializeAtomicContextCheckpoint.                                     *)
MayCheckpoint(d) ==
  /\ Unfinished = {}
  /\ d.rev = rev
  /\ d.through \in Completed /\ Speaks(d.through)
  /\ d.extends = ckpt.through /\ d.through > ckpt.through

(* A broken variant: the prompt may be of any revision.                     *)
AnyRevision(expected) == TRUE

RevisionMatches(expected) == expected \in {NoRevision, rev}

Reaches(v) == prep[v] # Idle /\ prep[v].at = "ready"

(* A stop that comes before the durable begin makes it a queued turn.       *)
beginTurn(v, state) ==
  /\ Reaches(v) /\ run = NoRun
  /\ RevisionMatches(prep[v].rev)
  /\ \A d \in {prep[v].draft} \ {NoDraft} : MayCheckpoint(d)
  /\ state = "active" => \A i \in DOMAIN turns : turns[i].state # "active"
  /\ Commit /\ Len(turns) < MaxTurns
  /\ turns' = Append(turns, [agent |-> prep[v].agent, state |-> state, speaks |-> FALSE])
  /\ ckpt' = IF prep[v].draft = NoDraft THEN ckpt
             ELSE [through |-> prep[v].draft.through, covers |-> prep[v].draft.covers,
                   tells |-> prep[v].draft.tells]
  /\ run' = [at |-> "begun", agent |-> prep[v].agent, turn |-> Len(turns) + 1, claimed |-> FALSE,
             prompt |-> [prep[v].prompt EXCEPT !.torn =
                          @ \/ (prep[v].rev = NoRevision /\ turns # <<>>)]]
  /\ prep' = [prep EXCEPT ![v] = Idle]
  /\ UNCHANGED <<owned, runtime, restarts>>

(* Refused, or its write fails: nothing has changed.                        *)
SendRefused(v) ==
  /\ Reaches(v)
  /\ prep' = [prep EXCEPT ![v] = Idle]
  /\ UNCHANGED <<store, run, runtime, restarts>>

-----------------------------------------------------------------------------
(* The run.                                                                *)

Claim(s) ==
  /\ Commit
  /\ owned' = [owned EXCEPT ![run.agent] = [session |-> s, turn |-> run.turn]]
  /\ run' = [run EXCEPT !.claimed = TRUE]
  /\ UNCHANGED <<turns, ckpt, prep, runtime, restarts>>

(* A session to resume is claimed before the runtime is entered.            *)
validateResumeSession ==
  /\ run # NoRun /\ run.at = "begun" /\ turns[run.turn].state = "active"
  /\ run.prompt.session # 0 /\ ~run.claimed
  /\ Claim(run.prompt.session)

Opening ==
  /\ run # NoRun /\ run.at = "begun" /\ turns[run.turn].state = "active"
  /\ run.prompt.session # 0 => run.claimed

Opened(s, carried) ==
  /\ run' = [run EXCEPT !.at = "open", !.claimed = s = run.prompt.session,
                        !.prompt = [BarePrompt EXCEPT !.session = s, !.carries = carried,
                                                      !.torn = run.prompt.torn]]
  /\ UNCHANGED <<store, prep, runtime, restarts>>

ResumeSession ==
  /\ Opening /\ run.prompt.session # 0 /\ run.prompt.session \notin gone
  /\ Opened(run.prompt.session, run.prompt.carries)

StartSession ==
  /\ Opening /\ run.prompt.session = 0
  /\ Opened(run.turn, run.prompt.carries)

(* Codex: the thread is gone, or was used with full access that this turn    *)
(* does not have.                                                          *)
ResumeFallsBack ==
  /\ Opening /\ run.prompt.session # 0 /\ run.prompt.rescue
  /\ Opened(run.turn, run.prompt.fresh)

(* A new session: admitCanonicalSession before a Codex turn starts, the      *)
(* session event of Claude while its turn runs.                            *)
AdmitSession ==
  /\ run # NoRun /\ ~run.claimed
  /\ run.at = IF run.agent = "codex" THEN "open" ELSE "told"
  /\ Claim(run.prompt.session)

(* The session takes the prompt, and what it carries.                       *)
Tell ==
  /\ run # NoRun /\ run.at = "open" /\ (run.agent = "codex" => run.claimed)
  /\ LET s == run.prompt.session IN
     /\ knows' = [knows EXCEPT ![s] = @ \cup run.prompt.carries \cup {run.turn}]
     /\ holed' = IF run.prompt.torn THEN holed \cup {s} ELSE holed
     /\ run' = [run EXCEPT !.at = "told", !.prompt = [BarePrompt EXCEPT !.session = s]]
  /\ UNCHANGED <<store, prep, gone, restarts>>

Finish(state, speaks) ==
  /\ Commit
  /\ turns' = [turns EXCEPT ![run.turn].state = state, ![run.turn].speaks = speaks]
  /\ run' = NoRun
  /\ UNCHANGED <<owned, ckpt, prep, runtime, restarts>>

(* A Claude turn may end without having named its session.                  *)
CompleteTurn == run # NoRun /\ run.at = "told" /\ \E speaks \in BOOLEAN : Finish("completed", speaks)

EndTurn == run # NoRun /\ Finish("ended", FALSE)

(* A persistence circuit opened before the runtime was entered: the run is   *)
(* given up and its turn left as it is.                                     *)
RunBlocked ==
  /\ run # NoRun /\ run.at = "begun"
  /\ run' = NoRun
  /\ UNCHANGED <<store, prep, runtime, restarts>>

(* recoverInterruptedTurns at the next start.                               *)
Recovered(t) ==
  [t EXCEPT !.state = CASE @ = "active" -> "ended" [] @ = "queued" -> "paused" [] OTHER -> @]

Restart ==
  /\ restarts < MaxRestarts /\ restarts' = restarts + 1
  /\ turns' = [i \in DOMAIN turns |-> Recovered(turns[i])]
  /\ IF turns' = turns THEN rev' = rev ELSE Commit
  /\ prep' = [v \in View |-> Idle] /\ run' = NoRun
  /\ UNCHANGED <<owned, ckpt, runtime>>

SessionLost(a) ==
  /\ owned[a].session \notin gone \cup {0}
  /\ gone' = gone \cup {owned[a].session}
  /\ UNCHANGED <<store, prep, run, knows, holed, restarts>>

-----------------------------------------------------------------------------
ViewStep(v) ==
  \/ \E a \in Agent : SendBegins(v, a)
  \/ \E candidate \in BOOLEAN : WindowLoaded(v, candidate)
  \/ FullLoaded(v) \/ PreparationFails(v)
  \/ \E state \in {"active", "queued"} : beginTurn(v, state)
  \/ SendRefused(v)

RunStep ==
  \/ validateResumeSession \/ ResumeSession \/ StartSession \/ ResumeFallsBack
  \/ AdmitSession \/ Tell \/ CompleteTurn \/ EndTurn \/ RunBlocked

Next ==
  \/ \E v \in View : ViewStep(v)
  \/ RunStep \/ Restart
  \/ \E a \in Agent : SessionLost(a)

Spec == Init /\ [][Next]_vars

-----------------------------------------------------------------------------
(* No prompt reaches an agent that has not been told of every completed turn *)
(* before it, by its session or by the prompt (evaluateTargetSessionFreshness, *)
(* the expected revision of beginTurn, the gates of the views).  Known to    *)
(* fail for a prompt whose session was chosen from an earlier reading than   *)
(* the revision it expects, and for that session from then on.              *)
NothingIsForgotten ==
  [][Tell => run.prompt.session \in holed'
           \/ Completed \subseteq knows'[run.prompt.session]]_vars

(* A bounded summary of some turns: what its full lists have dropped was old. *)
(* (Of the older turns a later one may be gone before an earlier one, when a *)
(* single checkpoint had more turns than NewItems.)                         *)
Recalls(tells, S) ==
  /\ tells \subseteq S /\ Cardinality(tells) <= SummaryItems
  /\ Latest(NewItems, S) \subseteq tells

(* The stored checkpoint was made of the completed turns up to its boundary, *)
(* all of them and no other: a hole would never be filled, as later prompts  *)
(* start behind the boundary (draft and materialize).  However many          *)
(* checkpoints were merged, it still tells of the latest of these turns, as  *)
(* many as a new summary has entries (the slices of mergeSummaryItems).      *)
SummaryIsOfTranscript ==
  LET summarised == {i \in Completed : i <= ckpt.through} IN
  ckpt.covers = summarised /\ Recalls(ckpt.tells, summarised)
=============================================================================
