----------------------------- MODULE ChatDrafts -----------------------------
(***************************************************************************)
(* What the user has typed and not sent yet: the editor of the chat view,   *)
(* the cache of one entry per conversation with its revisions, the          *)
(* debounced writes to the store, and the flush at shutdown.                *)
(*                                                                         *)
(* A text is the number of the keystroke it ends with, 0 the empty one.     *)
(* The reading position is a part of the entry that only counts for its     *)
(* revision.                                                               *)
(***************************************************************************)
EXTENDS Naturals, Sequences, FiniteSets, FiniteSetsExt

CONSTANTS
    Conv,           \* conversations
    NoConv, NoEntry, NoSave, NotStored,
    MaxEdits,       \* bound on keystrokes, sends and scrolls
    MaxBinds,       \* bound on switches of the view
    MaxFaults,      \* bound on failures of the store and the loss of the lease
    MaxRounds       \* CHAT_UI_STATE_SHUTDOWN_MAX_FLUSH_ROUNDS

ASSUME DraftsAssumption ==
    /\ NoConv \notin Conv \cup [to : Conv, ready : BOOLEAN]
    /\ MaxEdits \in Nat /\ MaxBinds \in Nat /\ MaxFaults \in Nat
    /\ MaxRounds \in Nat \ {0}
    /\ NotStored \notin Nat /\ NoEntry \notin [draft : Nat, rev : Nat, saved : Nat]

VARIABLES
    bound,     \* the conversation the view shows
    input,     \* the text in its editor
    switching, \* [to, ready]: a switch that waits for a flush, or NoConv
    sending,   \* [c, text]: a message on its way to the coordinator, or NoConv
    entry,     \* ChatConversationUiStateCache.entries
    timer,     \* conversations with a debounce timer
    tail,      \* flushes of each conversation not ended, and who waits for them
    save,      \* the write in flight of each conversation
    loads,     \* reads in flight, with what each may have seen so far
    files,     \* the draft files
    canWrite,  \* chatWriteState.available
    phase,     \* "open", "flushing", "done" or "failed"
    round,     \* of the flush at shutdown
    typed,     \* the last text the user left in each conversation (history)
    hidden,    \* conversations whose stored text could not be read (history)
    overtaken, \* conversations that took a text too late (history)
    clock, binds, faults

cachevars == <<entry, timer, tail, save, loads, files>>
viewvars == <<bound, input, switching, sending>>
endvars == <<canWrite, phase, round>>
history == <<typed, hidden, overtaken>>
counters == <<clock, binds, faults>>
draftsVars == <<cachevars, viewvars, endvars, history, counters>>

Text == 0 .. MaxEdits + 1

Blank == [draft |-> 0, rev |-> 0, saved |-> 0]

ensure(c) == IF entry[c] = NoEntry THEN Blank ELSE entry[c]

Dirty(e) == e # NoEntry /\ e.rev # e.saved

(* The text a stored draft stands for.                                     *)
Stored(c) == IF files[c] = NotStored THEN 0 ELSE files[c]

(* One conversation has a draft of an earlier session.                      *)
DraftsInit ==
    /\ \E old \in Conv : files = [c \in Conv |-> IF c = old THEN 1 ELSE NotStored]
    /\ typed = [c \in Conv |-> Stored(c)]
    /\ hidden = {} /\ overtaken = {}
    /\ bound \in Conv /\ input = 0
    /\ switching = NoConv /\ sending = NoConv
    /\ entry = [c \in Conv |-> IF c = bound THEN Blank ELSE NoEntry]
    /\ timer = {}
    /\ tail = [c \in Conv |-> <<>>]
    /\ save = [c \in Conv |-> NoSave]
    /\ loads = {[c |-> bound, current |-> TRUE, seen |-> {files[bound]}]}
    /\ canWrite = TRUE /\ phase = "open" /\ round = 0
    /\ clock = 1 /\ binds = 0 /\ faults = 0

-----------------------------------------------------------------------------
(* The cache.                                                              *)

(* prune: clean entries of conversations that are neither selected nor      *)
(* running may go, the oldest beyond the capacity; which ones is left open. *)
Pruned(es, selected) ==
    {[c \in Conv |-> IF c \in gone THEN NoEntry ELSE es[c]] :
        gone \in SUBSET {c \in Conv : es[c] # NoEntry /\ c # selected /\ ~Dirty(es[c])}}

Edited(e, text) == [e EXCEPT !.draft = text, !.rev = @ + 1]

updateDraft(c, text) ==
    LET e == ensure(c) IN
    entry' \in Pruned([entry EXCEPT ![c] = IF e.draft = text THEN e ELSE Edited(e, text)], bound)

(* A broken variant: the newest revision is acknowledged.                  *)
acknowledgeLatest(c, rev) ==
    entry' \in Pruned([entry EXCEPT ![c].saved = entry[c].rev], bound)

(* A save that the store acknowledged, of the revision it was given.        *)
acknowledge(c, rev) ==
    IF entry[c] = NoEntry THEN entry' = entry
    ELSE entry' \in Pruned([entry EXCEPT ![c].saved = Max({@, rev})], bound)

(* replaceFromPersistence: only over an entry that has nothing unsaved.     *)
Replaced(e, text) ==
    IF Dirty(e) THEN e ELSE [draft |-> text, rev |-> e.rev + 1, saved |-> e.rev + 1]

(* Writes of the cache start by a timer, which a closed service no longer   *)
(* sets, nor a read-only one.                                              *)
schedule(c) == timer' = IF phase = "open" /\ canWrite THEN timer \cup {c} ELSE timer

flush(c, who) ==
    /\ timer' = timer \ {c}
    /\ tail' = [tail EXCEPT ![c] = Append(@, who)]

-----------------------------------------------------------------------------
(* The chat view.                                                          *)

Typing == canWrite /\ phase \in {"open", "flushing"} /\ clock < MaxEdits + 1

(* A keystroke: the editor's input event captures the draft.                *)
Type ==
    /\ Typing
    /\ input' = clock + 1 /\ clock' = clock + 1
    /\ typed' = [typed EXCEPT ![bound] = input']
    /\ hidden' = hidden \ {bound} /\ overtaken' = overtaken \ {bound}
    /\ updateDraft(bound, input')
    /\ schedule(bound)
    /\ UNCHANGED <<bound, switching, sending, tail, save, loads, files, endvars, binds, faults>>

(* Scrolling makes the entry dirty too, in a read-only window as well, once *)
(* the reading position of this binding was restored.                      *)
Scroll ==
    /\ phase \in {"open", "flushing"} /\ clock < MaxEdits + 1
    /\ ~\E l \in loads : l.current
    /\ clock' = clock + 1
    /\ entry' \in Pruned([entry EXCEPT ![bound] = Edited(ensure(bound), ensure(bound).draft)], bound)
    /\ schedule(bound)
    /\ UNCHANGED <<viewvars, tail, save, loads, files, endvars, history, binds, faults>>

(* The view leaves a conversation: what its editor shows is captured and    *)
(* written before the next one is shown.                                   *)
SwitchBegins(c) ==
    /\ phase \in {"open", "flushing"} /\ switching = NoConv
    /\ c # bound /\ binds < MaxBinds
    /\ switching' = [to |-> c, ready |-> FALSE]
    /\ binds' = binds + 1
    /\ updateDraft(bound, input)
    /\ flush(bound, "switch")
    /\ UNCHANGED <<bound, input, sending, save, loads, files, endvars, history, clock, faults>>

(* bindCurrentConversation: the entry is shown at once, the stored draft    *)
(* when it has been read.                                                  *)
SwitchEnds ==
    /\ switching # NoConv /\ switching.ready
    /\ switching' = NoConv
    /\ bound' = switching.to
    /\ input' = ensure(bound').draft
    /\ entry' \in Pruned([entry EXCEPT ![bound'] = ensure(bound')], bound')
    /\ loads' = {[l EXCEPT !.current = FALSE] : l \in loads}
                \cup {[c |-> bound', current |-> TRUE, seen |-> {files[bound']}]}
    /\ UNCHANGED <<sending, timer, tail, save, files, endvars, history, counters>>

SendStarts ==
    /\ canWrite /\ phase = "open" /\ sending = NoConv /\ input # 0
    /\ sending' = [c |-> bound, text |-> input]
    /\ UNCHANGED <<bound, input, switching, cachevars, endvars, history, counters>>

(* The message was accepted: its text leaves the editor and the cache,      *)
(* unless something else was typed meanwhile.                              *)
SendAccepted ==
    /\ sending # NoConv
    /\ sending' = NoConv
    /\ LET c == sending.c  sent == sending.text IN
       IF ensure(c).draft = sent
       THEN /\ input' = IF bound = c /\ input = sent THEN 0 ELSE input
            /\ typed' = [typed EXCEPT ![c] = 0]
            /\ updateDraft(c, 0)
            /\ schedule(c)
       ELSE /\ entry' = [entry EXCEPT ![c] = ensure(c)]
            /\ UNCHANGED <<input, typed, timer>>
    /\ UNCHANGED <<bound, switching, tail, save, loads, files, endvars, hidden, overtaken, counters>>

SendFails ==
    /\ sending # NoConv
    /\ sending' = NoConv
    /\ UNCHANGED <<bound, input, switching, cachevars, endvars, history, counters>>

-----------------------------------------------------------------------------
(* Reads of the stored draft.                                              *)

(* What is in the cache then: nothing new when no draft was stored.         *)
Loaded(l, text) ==
    IF text = NotStored THEN ensure(l.c) ELSE Replaced(ensure(l.c), text)

(* A read that came too late for an entry with nothing unsaved: its text    *)
(* was written over meanwhile, or the view has bound the conversation anew  *)
(* and its editor stays as it is.                                          *)
Late(l, text) ==
    ~Dirty(entry[l.c]) /\ (text # files[l.c] \/ (l.c = bound /\ ~l.current))

(* The value is for the cache whatever the view shows by now; the editor    *)
(* takes it when the binding is still the one that asked.                  *)
LoadReturnsAnywhere(l, text) ==
    /\ loads' = loads \ {l}
    /\ entry' \in Pruned([entry EXCEPT ![l.c] = Loaded(l, text)], bound)
    /\ input' = Loaded(l, text).draft
    /\ overtaken' = IF Late(l, text) THEN overtaken \cup {l.c} ELSE overtaken
    /\ UNCHANGED <<bound, switching, sending, timer, tail, save, files, endvars, typed, hidden, counters>>

LoadReturns(l, text) ==
    /\ loads' = loads \ {l}
    /\ entry' \in Pruned([entry EXCEPT ![l.c] = Loaded(l, text)], bound)
    /\ input' = IF l.current THEN Loaded(l, text).draft ELSE input
    /\ overtaken' = IF Late(l, text) THEN overtaken \cup {l.c} ELSE overtaken
    /\ UNCHANGED <<bound, switching, sending, timer, tail, save, files, endvars, typed, hidden, counters>>

LoadFails(l) ==
    /\ loads' = loads \ {l}
    /\ entry' = [entry EXCEPT ![l.c] = ensure(l.c)]
    /\ hidden' = IF Dirty(entry[l.c]) THEN hidden ELSE hidden \cup {l.c}
    /\ input' = IF l.current THEN entry'[l.c].draft ELSE input
    /\ faults < MaxFaults /\ faults' = faults + 1
    /\ UNCHANGED <<bound, switching, sending, timer, tail, save, files, endvars, typed, overtaken, clock, binds>>

-----------------------------------------------------------------------------
(* Writes.                                                                 *)

TimerFires(c) ==
    /\ c \in timer
    /\ flush(c, "timer")
    /\ UNCHANGED <<viewvars, entry, save, loads, files, endvars, history, counters>>

(* The end of the first flush of c; who waited for it goes on.              *)
FlushEnds(c) ==
    /\ tail' = [tail EXCEPT ![c] = Tail(@)]
    /\ switching' = IF Head(tail[c]) = "switch" THEN [switching EXCEPT !.ready = TRUE]
                    ELSE switching

(* Its turn comes, before anything else happens.                            *)
HasTurn(c) == tail[c] # <<>> /\ save[c] = NoSave

(* Nothing to write, or no right to.                                       *)
FlushSkips(c) ==
    /\ HasTurn(c)
    /\ ~canWrite \/ ~Dirty(ensure(c))
    /\ FlushEnds(c)
    /\ entry' = IF canWrite THEN [entry EXCEPT ![c] = ensure(c)] ELSE entry
    /\ UNCHANGED <<bound, input, sending, timer, save, loads, files, endvars, history, counters>>

FlushWrites(c) ==
    /\ HasTurn(c)
    /\ canWrite /\ Dirty(ensure(c))
    /\ save' = [save EXCEPT ![c] = [rev |-> entry[c].rev, text |-> entry[c].draft, stored |-> FALSE]]
    /\ UNCHANGED <<viewvars, entry, timer, tail, loads, files, endvars, history, counters>>

SaveLands(c) ==
    /\ save[c] # NoSave /\ ~save[c].stored
    /\ files' = [files EXCEPT ![c] = save[c].text]
    /\ save' = [save EXCEPT ![c].stored = TRUE]
    /\ loads' = {IF l.c = c THEN [l EXCEPT !.seen = @ \cup {save[c].text}] ELSE l : l \in loads}
    /\ UNCHANGED <<viewvars, entry, timer, tail, endvars, history, counters>>

(* What was typed during the write is written after another debounce.       *)
SaveDone(c) ==
    /\ save[c] # NoSave /\ save[c].stored
    /\ acknowledge(c, save[c].rev)
    /\ save' = [save EXCEPT ![c] = NoSave]
    /\ FlushEnds(c)
    /\ IF phase = "open" /\ Dirty(entry'[c]) THEN schedule(c) ELSE UNCHANGED timer
    /\ UNCHANGED <<bound, input, sending, loads, files, endvars, history, counters>>

(* The store refuses, or fails before or after its effect.  The entry stays *)
(* dirty until the next edit or flush.                                     *)
SaveFails(c) ==
    /\ save[c] # NoSave
    /\ save' = [save EXCEPT ![c] = NoSave]
    /\ FlushEnds(c)
    /\ faults < MaxFaults /\ faults' = faults + 1
    /\ UNCHANGED <<bound, input, sending, entry, timer, loads, files, endvars, history, clock, binds>>

LeaseLost ==
    /\ canWrite
    /\ canWrite' = FALSE
    /\ faults < MaxFaults /\ faults' = faults + 1
    /\ UNCHANGED <<viewvars, cachevars, phase, round, history, clock, binds>>

-----------------------------------------------------------------------------
(* The flush at shutdown.                                                  *)

(* The timers are gone by now, and no new one is set.                      *)
ToFlush == {c \in Conv : tail[c] # <<>> \/ Dirty(entry[c])}

FlushAll(cs) == tail' = [c \in Conv |-> IF c \in cs THEN Append(tail[c], "shutdown") ELSE tail[c]]

Shutdown ==
    /\ phase = "open"
    /\ phase' = "flushing" /\ round' = 1
    /\ timer' = {}
    /\ FlushAll(ToFlush)
    /\ UNCHANGED <<viewvars, entry, save, loads, files, canWrite, history, counters>>

RoundOver == phase = "flushing" /\ \A c \in Conv : tail[c] = <<>>

Clean == \A c \in Conv : ~Dirty(entry[c])

OneRoundEnds ==
    /\ RoundOver
    /\ phase' = "done"
    /\ UNCHANGED <<viewvars, cachevars, round, canWrite, history, counters>>

RoundEnds ==
    /\ RoundOver
    /\ IF Clean THEN phase' = "done" /\ UNCHANGED <<round, tail>>
       ELSE IF round = MaxRounds THEN phase' = "failed" /\ UNCHANGED <<round, tail>>
       ELSE round' = round + 1 /\ FlushAll(ToFlush) /\ UNCHANGED phase
    /\ UNCHANGED <<viewvars, entry, timer, save, loads, files, canWrite, history, counters>>

-----------------------------------------------------------------------------
EditorStep ==
    \/ Type \/ Scroll \/ SwitchEnds \/ SendStarts \/ SendAccepted \/ SendFails
    \/ \E c \in Conv : SwitchBegins(c)

LoadStep == \E l \in loads : LoadFails(l) \/ \E text \in l.seen : LoadReturns(l, text)

StartStep == \E c \in Conv : FlushSkips(c) \/ FlushWrites(c)

SaveStep(c) == SaveLands(c) \/ SaveDone(c) \/ SaveFails(c)

EventStep ==
    \/ EditorStep \/ LoadStep
    \/ \E c \in Conv : TimerFires(c) \/ SaveStep(c)
    \/ LeaseLost \/ Shutdown \/ RoundEnds

(* A turn is taken by a continuation, which runs before the next event.     *)
DraftsNext == StartStep \/ (EventStep /\ ~\E c \in Conv : HasTurn(c))

DraftsSpec == DraftsInit /\ [][DraftsNext]_draftsVars

-----------------------------------------------------------------------------
Entry == [draft : Text, rev : Nat, saved : Nat]
Save == [rev : Nat, text : Text, stored : BOOLEAN]
Waiter == {"timer", "switch", "shutdown"}

(* The shape of the state: an entry is never saved beyond its revision, a   *)
(* write in flight belongs to the first flush of its conversation and no    *)
(* cache entry in use by one is gone.                                      *)
DraftsTypeOK ==
    /\ bound \in Conv /\ input \in Text
    /\ switching \in [to : Conv, ready : BOOLEAN] \cup {NoConv}
    /\ sending \in [c : Conv, text : Text \ {0}] \cup {NoConv}
    /\ entry \in [Conv -> Entry \cup {NoEntry}]
    /\ \A c \in Conv : entry[c] # NoEntry => entry[c].saved <= entry[c].rev
    /\ timer \subseteq Conv
    /\ tail \in [Conv -> Seq(Waiter)]
    /\ save \in [Conv -> Save \cup {NoSave}]
    /\ \A c \in Conv : save[c] # NoSave =>
          tail[c] # <<>> /\ entry[c] # NoEntry /\ save[c].rev <= entry[c].rev
    /\ loads \subseteq [c : Conv, current : BOOLEAN, seen : SUBSET (Text \cup {NotStored})]
    /\ files \in [Conv -> Text \cup {NotStored}]
    /\ canWrite \in BOOLEAN
    /\ phase \in {"open", "flushing", "done", "failed"} /\ round \in 0 .. MaxRounds
    /\ typed \in [Conv -> Text] /\ hidden \subseteq Conv /\ overtaken \subseteq Conv
    /\ clock \in 1 .. MaxEdits + 1 /\ binds \in 0 .. MaxBinds /\ faults \in 0 .. MaxFaults

(* Conversations whose stored text, if it was read, was read in time.       *)
Sound == Conv \ (hidden \cup overtaken)

(* Whatever the user left in an editor and the store does not have yet is   *)
(* in memory, marked as unsaved, through switches, evictions, overlapping   *)
(* reads and writes, failed writes and the loss of the lease.  Not so a     *)
(* stored text that could not be read, or was read too late: what the       *)
(* editor shows instead may be saved over the one in the store.             *)
UnsavedStaysInMemory ==
    \A c \in Sound : typed[c] # Stored(c) =>
        Dirty(entry[c]) /\ entry[c].draft = typed[c]

(* The moment a shutdown reports success, the store has every text.  (The   *)
(* coordinator may still accept a message after it, whose text then stays   *)
(* in the draft file.)                                                     *)
CleanShutdownSaves ==
    [][phase # "done" /\ phase' = "done" =>
          \A c \in Sound : Stored(c) = typed[c]]_draftsVars

(* What is shown is what will be saved, while a draft is read, while it is  *)
(* written and after every switch, unless a read failed or came late.       *)
EditorShowsTheDraft == bound \in Sound => input = ensure(bound).draft

(* A read of the stored draft that comes late replaces nothing newer (the   *)
(* code does not keep this).                                               *)
LoadKeepsNewest ==
    [][\A l \in loads : \A text \in l.seen : LoadReturns(l, text) =>
          entry'[l.c] = NoEntry \/ entry'[l.c].draft \in {ensure(l.c).draft, typed[l.c]}]_draftsVars
=============================================================================
