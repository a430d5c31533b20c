----------------------------- MODULE WriterLease -----------------------------
(***************************************************************************)
(* ChatStoreLease (storage/chatStoreLease.ts) on top of the process write   *)
(* lock, as the plugin and VaultStore drive it: a window that holds the     *)
(* fence writes a lease record into the vault, refreshes it from a timer    *)
(* and before every protected write, and re-reads it before trusting it.    *)
(* The tasks of a window are concurrent asynchronous calls; the helper      *)
(* serves one request at a time in the order they were sent, and a task     *)
(* runs undisturbed from one answer to its next request.  The fence itself  *)
(* is taken atomically here (WriterFence has its handshake).                *)
(***************************************************************************)
EXTENDS Windows, Naturals, Sequences, FiniteSets

CONSTANTS Task,            \* concurrent calls of one window
          Main,            \* the call that takes and gives back the lease
          Work,            \* the calls the tasks make: "renew" "write"
          MaxAttempts,     \* MAX_PHYSICAL_CAS_ATTEMPTS
          ClockStepsBack,  \* whether the wall clock may be corrected backwards
          MaxNow,          \* bound on the wall clock
          MaxVersion,      \* bound on the versions of the protected file
          MaxDeaths        \* bound on helper deaths

ASSUME LeaseAssumption ==
  /\ NoWindow \notin Window
  /\ Main \in Task
  /\ MaxAttempts \in Nat \ {0}
  /\ Work \subseteq {"renew", "write"}
  /\ ClockStepsBack \in BOOLEAN
  /\ MaxNow \in Nat /\ MaxVersion \in Nat /\ MaxDeaths \in Nat

VARIABLES
  life,      \* the life of a window
  leaseId,   \* ChatStoreLease.leaseId, 0 for null
  lockHeld,  \* the process lock's held flag
  helper,    \* the window's helper process: off, serving, or dead unnoticed
  fence,     \* the window whose helper has the kernel's lock
  pipe,      \* requests in the helper's stdin
  out,       \* answers in the helper's stdout
  task,      \* the state of every asynchronous call
  record,    \* .ailu/conversation-writer lease file
  data,      \* a protected file: the version, and who wrote it
  now,       \* the wall clock
  minted,    \* lease ids handed out
  deaths     \* helper deaths so far

winvars == <<life, leaseId, lockHeld>>
fencevars == <<helper, fence, pipe, out, deaths>>
filevars == <<record, data>>
leaseVars == <<winvars, fencevars, task, filevars, now, minted>>

Released == [st |-> "released"]
Held(w, l, acq, beat) == [st |-> "held", by |-> w, lease |-> l, acq |-> acq, beat |-> beat]

(* parseLeaseRecord: a held record whose heartbeat precedes its acquisition *)
(* is corrupt.                                                              *)
Parses(r) == r.st = "held" => r.acq <= r.beat

IsMine(r, w, l) == r.st = "held" /\ r.by = w /\ r.lease = l

Idle == [at |-> "idle", then |-> "done", wait |-> "no", lease |-> 0, stamp |-> 0,
         tries |-> 0, rep |-> Released, want |-> 0]

LeaseInit ==
  /\ life = [w \in Window |-> "new"]
  /\ leaseId = [w \in Window |-> 0]
  /\ lockHeld = [w \in Window |-> FALSE]
  /\ helper = [w \in Window |-> "off"]
  /\ fence = NoWindow
  /\ pipe = [w \in Window |-> <<>>]
  /\ out = [w \in Window |-> <<>>]
  /\ task = [w \in Window |-> [t \in Task |-> Idle]]
  /\ record = Released
  /\ data = [by |-> NoWindow, n |-> 0]
  /\ now = 1
  /\ minted = 0
  /\ deaths = 0

(***************************************************************************)
(* Requests and the ends of calls.                                         *)
(***************************************************************************)
ReadReq(t) == [kind |-> "read", t |-> t]
SwapReq(t, exp, new) == [kind |-> "cas", t |-> t, exp |-> exp, new |-> new]
DataReq(t, want) == [kind |-> "data", t |-> t, want |-> want]
Bye == [kind |-> "bye"]

Sent(w, t, c, req) ==
  /\ task' = [task EXCEPT ![w][t] = [c EXCEPT !.wait = "answer"]]
  /\ pipe' = [pipe EXCEPT ![w] = Append(@, req)]

Ended(w, t) == task' = [task EXCEPT ![w][t] = Idle]

(* processWriteLock.release(): the flag first, then the line that ends the *)
(* serve loop.                                                             *)
LetGo(w) ==
  /\ lockHeld' = [lockHeld EXCEPT ![w] = FALSE]
  /\ pipe' = IF lockHeld[w] THEN [pipe EXCEPT ![w] = Append(@, Bye)] ELSE pipe

Forget(w) == leaseId' = [leaseId EXCEPT ![w] = 0]

(* acquire() that fails gives the fence back and startup fails; release()   *)
(* gives it back whatever happened.                                        *)
GivesBack(w, at) ==
  IF at \in {"acquire", "release"}
  THEN LetGo(w) /\ life' = [life EXCEPT ![w] = IF at = "acquire" THEN "failed" ELSE "unloaded"]
  ELSE UNCHANGED <<lockHeld, pipe, life>>

(* A call that fails.  When it was the renewal of a write, VaultStore       *)
(* inspects the lease, and that forgets it once the fence is dead.         *)
Throws(w, t, c) ==
  /\ Ended(w, t)
  /\ GivesBack(w, c.at)
  /\ IF c.at = "renew" /\ c.then # "done" /\ ~lockHeld[w] THEN Forget(w) ELSE UNCHANGED leaseId

(***************************************************************************)
(* The life of a window.                                                   *)
(***************************************************************************)
(* A broken variant: the fence is taken from a window that is gone, while  *)
(* its helper has not finished what it was sent.                           *)
AcquireFromGone(w) ==
  /\ life[w] \in {"new", "readOnly"} /\ helper[w] = "off"
  /\ fence \in {NoWindow} \cup {v \in Window : life[v] = "gone"}
  /\ fence' = w
  /\ helper' = [helper EXCEPT ![w] = "serving"]
  /\ lockHeld' = [lockHeld EXCEPT ![w] = TRUE]
  /\ life' = [life EXCEPT ![w] = "starting"]
  /\ minted' = minted + 1
  /\ Sent(w, Main, [Idle EXCEPT !.at = "acquire", !.lease = minted + 1, !.stamp = now],
          ReadReq(Main))
  /\ UNCHANGED <<leaseId, out, deaths, filevars, now>>

(* acquire() at startup, and again every 100 ms while another window has    *)
(* the fence (acquireChatWriteLeaseWithReloadGrace).                        *)
Acquire(w) ==
  /\ life[w] \in {"new", "readOnly"} /\ helper[w] = "off"
  /\ IF fence = NoWindow
     THEN /\ fence' = w
          /\ helper' = [helper EXCEPT ![w] = "serving"]
          /\ lockHeld' = [lockHeld EXCEPT ![w] = TRUE]
          /\ life' = [life EXCEPT ![w] = "starting"]
          /\ minted' = minted + 1
          /\ Sent(w, Main, [Idle EXCEPT !.at = "acquire", !.lease = minted + 1, !.stamp = now],
                  ReadReq(Main))
     ELSE /\ life' = [life EXCEPT ![w] = "readOnly"]
          /\ UNCHANGED <<fence, helper, lockHeld, minted, task, pipe>>
  /\ UNCHANGED <<leaseId, out, deaths, filevars, now>>

(* What every protected call starts with: no lease, no call; a dead fence   *)
(* forgets the lease.                                                       *)
Guarded(w, t, c) ==
  /\ life[w] = "writer" /\ task[w][t] = Idle /\ leaseId[w] # 0
  /\ IF lockHeld[w]
     THEN Sent(w, t, c, ReadReq(t)) /\ UNCHANGED leaseId
     ELSE Forget(w) /\ UNCHANGED <<task, pipe>>
  /\ UNCHANGED <<life, lockHeld, helper, fence, out, deaths, filevars, now, minted>>

Renewing(w, then) == [Idle EXCEPT !.at = "renew", !.then = then, !.lease = leaseId[w], !.stamp = now]

(* The heartbeat timer, or renewWriteLease().                              *)
BeginRenew(w, t) == "renew" \in Work /\ Guarded(w, t, Renewing(w, "done"))

(* atomicCasText and writeImmutableText: assert, renew, assert, swap.      *)
BeginWrite(w, t) ==
  /\ "write" \in Work /\ data.n < MaxVersion
  /\ Guarded(w, t, [Idle EXCEPT !.at = "own", !.then = "renew", !.lease = leaseId[w], !.want = data.n])

(* A broken variant of onunload: the lease is kept until its record is gone. *)
UnloadForgetsLate(w) ==
  LET c == [Idle EXCEPT !.at = "release", !.lease = leaseId[w]] IN
  /\ life[w] = "writer" /\ \A t \in Task : task[w][t] = Idle
  /\ leaseId[w] # 0 /\ lockHeld[w]
  /\ Sent(w, Main, c, ReadReq(Main))
  /\ life' = [life EXCEPT ![w] = "unloading"]
  /\ UNCHANGED <<leaseId, lockHeld, helper, fence, out, deaths, filevars, now, minted>>

(* onunload: behind the barriers the heartbeat timer stops and release()    *)
(* runs.  The barriers are those of the runs: what a view began (archiving *)
(* or renaming a conversation) and a renewal may still be under way.       *)
Unload(w) ==
  LET c == [Idle EXCEPT !.at = "release", !.lease = leaseId[w]] IN
  /\ life[w] = "writer" /\ task[w][Main] = Idle
  /\ Forget(w)
  /\ IF leaseId[w] # 0 /\ lockHeld[w]
     THEN /\ Sent(w, Main, c, ReadReq(Main))
          /\ life' = [life EXCEPT ![w] = "unloading"]
          /\ UNCHANGED lockHeld
     ELSE /\ LetGo(w)
          /\ life' = [life EXCEPT ![w] = "unloaded"]
          /\ UNCHANGED task
  /\ UNCHANGED <<helper, fence, out, deaths, filevars, now, minted>>

(* The window's process is gone.  What is in the helper's stdin stays.     *)
WindowDies(w) ==
  /\ life[w] \in {"starting", "writer", "unloading"}
  /\ life' = [life EXCEPT ![w] = "gone"]
  /\ leaseId' = [leaseId EXCEPT ![w] = 0]
  /\ lockHeld' = [lockHeld EXCEPT ![w] = FALSE]
  /\ out' = [out EXCEPT ![w] = <<>>]
  /\ task' = [task EXCEPT ![w] = [t \in Task |-> Idle]]
  /\ UNCHANGED <<helper, fence, pipe, deaths, filevars, now, minted>>

(***************************************************************************)
(* The continuation of a call when its answer arrives.                     *)
(***************************************************************************)
(* renew() has its record: the local lease is dropped if the record is not  *)
(* this lease any more, the fence too if the window is not its writer, and  *)
(* otherwise the caller goes on.                                            *)
RenewDone(w, t, c, rec) ==
  LET mine == IsMine(rec, w, c.lease)
      writer == mine /\ leaseId[w] = c.lease
      next == [c EXCEPT !.at = "own", !.wait = "no"] IN
  /\ UNCHANGED life
  /\ \/ /\ ~writer /\ LetGo(w) /\ Ended(w, t)
        /\ IF mine THEN UNCHANGED leaseId ELSE Forget(w)
     \/ /\ writer /\ c.then = "done" /\ Ended(w, t)
        /\ UNCHANGED <<leaseId, lockHeld, pipe>>
     \/ /\ writer /\ c.then = "swap" /\ lockHeld[w] /\ Sent(w, t, next, ReadReq(t))
        /\ UNCHANGED <<leaseId, lockHeld>>
     \/ /\ writer /\ c.then = "swap" /\ ~lockHeld[w] /\ Ended(w, t) /\ Forget(w)
        /\ UNCHANGED <<lockHeld, pipe>>

AcquireDone(w, t, rec) ==
  /\ leaseId' = [leaseId EXCEPT ![w] = rec.lease]
  /\ life' = [life EXCEPT ![w] = "writer"]
  /\ Ended(w, t)
  /\ UNCHANGED <<lockHeld, pipe>>

(* The record an update() callback answers to the one it was given.        *)
Update(w, c, rec) ==
  CASE c.at = "acquire" -> Held(w, c.lease, c.stamp, c.stamp)
    [] c.at = "renew" -> IF IsMine(rec, w, c.lease) THEN [rec EXCEPT !.beat = c.stamp] ELSE rec
    [] c.at = "release" -> IF IsMine(rec, w, c.lease) THEN Released ELSE rec

(* mutatePersistedLease returned: finish the call it served.               *)
Mutated(w, t, c, rec) ==
  CASE ~Parses(rec) -> Throws(w, t, c)
    [] Parses(rec) /\ c.at = "acquire" -> AcquireDone(w, t, rec)
    [] Parses(rec) /\ c.at = "renew" -> RenewDone(w, t, c, rec)
    [] Parses(rec) /\ c.at = "release" -> Ended(w, t) /\ GivesBack(w, "release") /\ UNCHANGED leaseId

(* An answer to a read inside mutatePersistedLease: swap in the update, or  *)
(* be done when it changes nothing.                                         *)
MutateRead(w, t, c, rec) ==
  LET rep == Update(w, c, rec) IN
  IF ~Parses(rec) \/ (rep # rec /\ ~lockHeld[w]) THEN Throws(w, t, c)
  ELSE IF rep = rec THEN Mutated(w, t, c, rec)
  ELSE Sent(w, t, [c EXCEPT !.rep = rep], SwapReq(t, rec, rep)) /\ UNCHANGED winvars

(* An answer to a swap inside mutatePersistedLease: a loser reads again, at *)
(* most MaxAttempts times in all, and then declares the lease lost.  The    *)
(* winner first hardens file modes.                                         *)
MutateSwapped(w, t, c, swapped) ==
  LET again == [c EXCEPT !.tries = @ + 1] IN
  IF swapped
  THEN /\ task' = [task EXCEPT ![w][t].wait = "harden"]
       /\ UNCHANGED <<winvars, pipe>>
  ELSE IF again.tries = MaxAttempts THEN Ended(w, t) /\ GivesBack(w, c.at) /\ Forget(w)
  ELSE IF ~lockHeld[w] THEN Throws(w, t, c)
  ELSE Sent(w, t, again, ReadReq(t)) /\ UNCHANGED winvars

(* assertOwned() has read the record; then the write renews (after its      *)
(* first assert) or sends its swap (after the second).                      *)
OwnRead(w, t, c, rec) ==
  LET renewing == [Renewing(w, "swap") EXCEPT !.want = c.want] IN
  /\ UNCHANGED life
  /\ CASE ~Parses(rec) -> Ended(w, t) /\ UNCHANGED <<leaseId, lockHeld, pipe>>
       [] Parses(rec) /\ ~IsMine(rec, w, c.lease) -> Forget(w) /\ LetGo(w) /\ Ended(w, t)
       [] IsMine(rec, w, c.lease) /\ Parses(rec) /\ c.then = "renew" ->
            /\ IF lockHeld[w] /\ leaseId[w] # 0
               THEN Sent(w, t, renewing, ReadReq(t)) /\ UNCHANGED leaseId
               ELSE Ended(w, t) /\ Forget(w) /\ UNCHANGED pipe
            /\ UNCHANGED lockHeld
       [] IsMine(rec, w, c.lease) /\ Parses(rec) /\ c.then = "swap" ->
            /\ IF lockHeld[w]
               THEN Sent(w, t, [c EXCEPT !.at = "swap"], DataReq(t, c.want))
               ELSE Ended(w, t) /\ UNCHANGED pipe
            /\ UNCHANGED <<leaseId, lockHeld>>

(* The next answer in stdout reaches the call it belongs to.               *)
Receive(w) ==
  LET a == Head(out[w])
      c == task[w][a.t] IN
  /\ life[w] # "gone" /\ out[w] # <<>>
  /\ out' = [out EXCEPT ![w] = Tail(@)]
  /\ CASE c.at = "own" -> OwnRead(w, a.t, c, a.rec)
       [] c.at = "swap" -> Ended(w, a.t) /\ UNCHANGED <<winvars, pipe>>
       [] c.at \in {"acquire", "renew", "release"} ->
            IF a.kind = "read" THEN MutateRead(w, a.t, c, a.rec)
            ELSE MutateSwapped(w, a.t, c, a.swapped)
  /\ UNCHANGED <<helper, fence, deaths, filevars, now, minted>>

(* hardenCanonicalFile() is over after a swap that won, or fails: what was  *)
(* swapped in stays, and the call ends with the error.                     *)
Hardened(w, t) ==
  /\ life[w] # "gone" /\ task[w][t].wait = "harden"
  /\ \/ Mutated(w, t, task[w][t], task[w][t].rep)
     \/ Throws(w, t, task[w][t])
  /\ UNCHANGED <<helper, fence, out, deaths, filevars, now, minted>>

(* 'close': the helper is gone and its last answers were read.  Waiting     *)
(* calls are rejected; a rejected assert or renewal of a write makes        *)
(* VaultStore inspect the lease, which forgets it.                          *)
Closed(w) ==
  LET waiting == {t \in Task : task[w][t].wait = "answer"}
      inspects == \E t \in waiting : \/ task[w][t].at = "renew" /\ task[w][t].then # "done"
                                     \/ task[w][t].at = "own" /\ task[w][t].then = "renew"
      startup == \E t \in waiting : task[w][t].at = "acquire"
      unload == \E t \in waiting : task[w][t].at = "release" IN
  /\ life[w] # "gone" /\ helper[w] = "dead" /\ out[w] = <<>>
  /\ helper' = [helper EXCEPT ![w] = "off"]
  /\ lockHeld' = [lockHeld EXCEPT ![w] = FALSE]
  /\ leaseId' = IF inspects THEN [leaseId EXCEPT ![w] = 0] ELSE leaseId
  /\ life' = [life EXCEPT ![w] = IF startup THEN "failed" ELSE IF unload THEN "unloaded" ELSE @]
  /\ task' = [task EXCEPT ![w] = [t \in Task |-> IF t \in waiting THEN Idle ELSE @[t]]]
  /\ UNCHANGED <<fence, pipe, out, deaths, filevars, now, minted>>

(***************************************************************************)
(* The helper.                                                             *)
(***************************************************************************)
Matches(req) == IF req.kind = "cas" THEN record = req.exp ELSE data.n = req.want

(* What serving a request does to the files.                               *)
Effect(w, req) ==
  /\ record' = IF req.kind = "cas" /\ Matches(req) THEN req.new ELSE record
  /\ data' = IF req.kind = "data" /\ Matches(req) THEN [by |-> w, n |-> data.n + 1] ELSE data

AnswerTo(req) ==
  IF req.kind = "read" THEN [kind |-> "read", t |-> req.t, rec |-> record]
  ELSE [kind |-> "cas", t |-> req.t, swapped |-> Matches(req)]

Serve(w) ==
  LET req == Head(pipe[w]) IN
  /\ helper[w] = "serving" /\ pipe[w] # <<>> /\ req # Bye
  /\ Effect(w, req)
  /\ pipe' = [pipe EXCEPT ![w] = Tail(@)]
  /\ out' = IF life[w] = "gone" THEN out ELSE [out EXCEPT ![w] = Append(@, AnswerTo(req))]
  /\ UNCHANGED <<winvars, helper, fence, deaths, task, now, minted>>

HelperGone(w) ==
  /\ helper' = [helper EXCEPT ![w] = "dead"]
  /\ fence' = NoWindow
  /\ pipe' = [pipe EXCEPT ![w] = <<>>]

(* A release line, or the end of stdin behind the last request.            *)
HelperEnds(w) ==
  /\ helper[w] = "serving"
  /\ \/ pipe[w] # <<>> /\ Head(pipe[w]) = Bye
     \/ pipe[w] = <<>> /\ life[w] = "gone"
  /\ HelperGone(w)
  /\ UNCHANGED <<winvars, out, deaths, task, filevars, now, minted>>

(* It is killed, perhaps between replacing a file and answering.           *)
HelperKilled(w) ==
  /\ helper[w] = "serving" /\ deaths < MaxDeaths
  /\ deaths' = deaths + 1
  /\ HelperGone(w)
  /\ \/ UNCHANGED <<record, data>>
     \/ pipe[w] # <<>> /\ Head(pipe[w]) # Bye /\ Effect(w, Head(pipe[w]))
  /\ UNCHANGED <<winvars, out, task, now, minted>>

(* Date.now() moves on; a correction of the system clock may set it back.  *)
Tick ==
  /\ now' \in IF ClockStepsBack THEN 1..MaxNow \ {now} ELSE (1..MaxNow) \cap {now + 1}
  /\ UNCHANGED <<winvars, fencevars, task, filevars, minted>>

LeaseNext ==
  \/ \E w \in Window :
       \/ Acquire(w) \/ Unload(w) \/ WindowDies(w) \/ Receive(w) \/ Closed(w)
       \/ Serve(w) \/ HelperEnds(w) \/ HelperKilled(w)
       \/ \E t \in Task : \/ BeginRenew(w, t) \/ BeginWrite(w, t) \/ Hardened(w, t)
  \/ Tick

LeaseSpec == LeaseInit /\ [][LeaseNext]_leaseVars

(***************************************************************************)
(* Fairness: a running helper serves and leaves, a running window handles  *)
(* what arrives, and a window that found the vault taken tries again.      *)
(***************************************************************************)
LeaseFairness ==
  \A w \in Window :
    /\ WF_leaseVars(Serve(w)) /\ WF_leaseVars(HelperEnds(w)) /\ WF_leaseVars(Closed(w))
    /\ WF_leaseVars(Receive(w)) /\ \A t \in Task : WF_leaseVars(Hardened(w, t))
    /\ WF_leaseVars(life[w] = "readOnly" /\ Acquire(w))

FairLeaseSpec == LeaseSpec /\ LeaseFairness

(***************************************************************************)
(* Types: lease records, calls, and the lines of a helper's pipes.         *)
(***************************************************************************)
LeaseRecord ==
  {Released} \cup [st : {"held"}, by : Window, lease : Nat, acq : Nat, beat : Nat]

Call ==
  [at : {"idle", "acquire", "renew", "own", "swap", "release"}, then : {"done", "swap", "renew"},
   wait : {"no", "answer", "harden"}, lease : Nat, stamp : Nat, tries : Nat,
   rep : LeaseRecord, want : Nat]

Request ==
  [kind : {"read"}, t : Task]
    \cup [kind : {"cas"}, t : Task, exp : LeaseRecord, new : LeaseRecord]
    \cup [kind : {"data"}, t : Task, want : Nat]
    \cup {Bye}

Answer == [kind : {"read"}, t : Task, rec : LeaseRecord] \cup [kind : {"cas"}, t : Task, swapped : BOOLEAN]

LeaseTypeOK ==
  /\ life \in [Window -> {"new", "readOnly", "starting", "writer", "unloading",
                          "unloaded", "failed", "gone"}]
  /\ leaseId \in [Window -> Nat]
  /\ lockHeld \in [Window -> BOOLEAN]
  /\ helper \in [Window -> {"off", "serving", "dead"}]
  /\ fence \in Window \cup {NoWindow}
  /\ pipe \in [Window -> Seq(Request)]
  /\ out \in [Window -> Seq(Answer)]
  /\ task \in [Window -> [Task -> Call]]
  /\ record \in LeaseRecord
  /\ data \in [by : Window \cup {NoWindow}, n : Nat]
  /\ now \in Nat /\ minted \in Nat /\ deaths \in Nat

(***************************************************************************)
(* Properties.                                                             *)
(***************************************************************************)
(* While the fence stands, the lease in memory is the lease on disk: no     *)
(* order of acquisition, renewals, writes and release lets a window trust a *)
(* lease whose record was replaced (mutatePersistedLease, assertOwned).     *)
LeaseMatchesRecord ==
  \A w \in Window :
    leaseId[w] # 0 /\ lockHeld[w] /\ fence = w => IsMine(record, w, leaseId[w])

(* A protected file only changes while the record names the window that     *)
(* changes it: neither a swap left in the stdin of an orphaned helper nor   *)
(* one that its window's onunload overtakes lands behind the release of     *)
(* the record.  A write reads the record once more just before it swaps,    *)
(* and release() reads behind whatever was sent before it.                  *)
DataUnderOwnRecord ==
  [][data' # data => record.st = "held" /\ record.by = data'.by]_leaseVars

(* Whoever obtains the fence becomes the writer unless it loses the fence,  *)
(* dies, or cannot set the modes of the record it wrote: what an earlier    *)
(* window left in the record does not strand it.                           *)
FenceIsTheAuthority ==
  [][\A w \in Window : life'[w] = "failed" /\ life[w] # "failed"
                      => helper[w] # "serving" \/ task[w][Main].wait = "harden"]_leaseVars

(* A window that waits read-only, and goes on asking as it does during the  *)
(* reload grace, takes over a vault whose writer is gone, whatever record   *)
(* and requests that writer left behind.                                   *)
GoneWriterIsReplaced ==
  \A w \in Window :
    life[w] = "readOnly" /\ fence # NoWindow /\ life[fence] = "gone"
      ~> life[w] # "readOnly" \/ (fence # NoWindow /\ life[fence] # "gone")
=============================================================================
