---------------------------- MODULE FeishuPublish ----------------------------
(***************************************************************************)
(* Publishing notes to Feishu: the panels (ui/feishuPublishingPanel.ts),    *)
(* the transaction (feishu/publisher.ts), the link to the document that is  *)
(* kept, signed, in the note's frontmatter (feishu/association.ts), and the *)
(* command line client with its pinned profile (feishu/larkCli.ts).         *)
(*                                                                         *)
(* A note's text, title, images and publishing fields are one number: every *)
(* edit makes a new one.  A document holds the number it was written from,   *)
(* and whether its images have taken the place of their markers.  A profile  *)
(* of the client stands for its account.                                    *)
(***************************************************************************)
EXTENDS Naturals, FiniteSets

CONSTANTS Job,        \* publications: one panel's, or those of two panels of a note
          Note, Account, None,
          MaxText,    \* bound on the texts of all notes
          MaxDoc,     \* bound on the documents
          MaxStart,   \* bound on the publications started
          MaxSwitch   \* bound on the changes of the client's account

VARIABLES
  text,    \* per note: its text
  link,    \* per note: the state of publishing in its frontmatter
  doc,     \* the documents (external)
  login,   \* the account the client goes by (external)
  cache,   \* cachedConnectionState: the account of the last check, if connected
  check,   \* activeConnectionCheck: the account its command found
  busy,    \* activePublishingOperation
  auth,    \* activeAuthorizationAttempt
  job,     \* the publications
  starts, switches

disk == <<text, link>>
client == <<login, cache, check, auth, switches>>
vars == <<disk, doc, client, busy, job, starts>>

Text == 1..MaxText
Pending == 0                \* the content hash of a publication under way

Signature(n, a) == [note |-> n, account |-> a]
Link == [doc : 1..MaxDoc, hash : {Pending} \cup Text, stamp : 0..MaxStart,
         sig : {None} \cup [note : Note, account : Account]]
Document == [text : 0..MaxText, whole : BOOLEAN, by : Note]

ASSUME FeishuAssumption ==
  /\ MaxText \in Nat \ {0} /\ MaxDoc \in Nat \ {0} /\ MaxStart \in Nat /\ MaxSwitch \in Nat
  /\ None \notin Note \cup Account \cup Job \cup (1..MaxDoc)
  /\ None \notin [note : Note, account : Account] \cup Link \cup Document

Idle == [at |-> "idle", id |-> 0, note |-> None, fresh |-> FALSE, text |-> 0, base |-> None,
         doc |-> None, adopt |-> FALSE, account |-> None, pin |-> None,
         shared |-> FALSE, shaken |-> FALSE]

(* A note that was never published; one with a link of a version of the      *)
(* plugin that did not sign links; one with a link signed in an earlier      *)
(* session.  The other notes are copies to come.                             *)
Earlier(n) == {[doc |-> 1, hash |-> 1, stamp |-> 0, sig |-> s] :
                 s \in {None} \cup {Signature(n, a) : a \in Account}}

Init ==
  /\ \E n \in Note : \E old \in {None} \cup Earlier(n) :
       /\ text = [m \in Note |-> IF m = n THEN 1 ELSE 0]
       /\ link = [m \in Note |-> IF m = n THEN old ELSE None]
       /\ doc = [d \in 1..MaxDoc |->
                   IF d = 1 /\ old # None THEN [text |-> 1, whole |-> TRUE, by |-> n] ELSE None]
  /\ login \in Account /\ cache = None /\ check = None /\ auth = FALSE /\ busy = None
  /\ job = [j \in Job |-> Idle]
  /\ starts = 0 /\ switches = 0

At(j, step) == job[j].at = step
Goto(j, step) == job' = [job EXCEPT ![j].at = step]

(* A broken variant: links of versions that did not sign them are trusted.   *)
TrustedUnsigned(n, a) == link[n] # None /\ link[n].sig \in {None, Signature(n, a)}

(* verifyFeishuPublishState: the signature names the note and the account.   *)
Trusted(n, a) == link[n] # None /\ link[n].sig = Signature(n, a)

(* findDuplicatePath                                                       *)
Duplicate(n, a) ==
  /\ Trusted(n, a)
  /\ \E m \in Note \ {n} : Trusted(m, a) /\ link[m].doc = link[n].doc

(* The publication ends, with or without an error.                          *)
Ends(j) ==
  /\ job' = [job EXCEPT ![j] = Idle]
  /\ busy' = IF busy = j THEN None ELSE busy

(* It goes on to a step, or ends if the check failed.                       *)
Checked(j, ok, step) ==
  IF ok THEN Goto(j, step) /\ UNCHANGED busy ELSE Ends(j)

(***************************************************************************)
(* The user and the outside.                                               *)
(***************************************************************************)
NextText(t) == (\A n \in Note : text[n] < t) /\ \E n \in Note : text[n] + 1 = t

Edit(n) ==
  /\ text[n] > 0
  /\ \E t \in Text : NextText(t) /\ text' = [text EXCEPT ![n] = t]
  /\ UNCHANGED <<link, doc, client, busy, job, starts>>

(* A copy of the file has its frontmatter, too.                             *)
CopyNote(n, m) ==
  /\ text[n] > 0 /\ text[m] = 0
  /\ text' = [text EXCEPT ![m] = text[n]]
  /\ link' = [link EXCEPT ![m] = link[n]]
  /\ UNCHANGED <<doc, client, busy, job, starts>>

(* Profiles are switched in the client, by whoever uses it.                 *)
SwitchAccount ==
  /\ switches < MaxSwitch /\ switches' = switches + 1
  /\ login' \in Account \ {login}
  /\ UNCHANGED <<disk, doc, cache, check, auth, busy, job, starts>>

(* A check waits for a publication under way (busy), but one may start while  *)
(* the check is under way.  Whoever asks meanwhile shares it.                *)
Ask == check' = IF check = None THEN login ELSE check

CheckConnection ==
  /\ busy = None /\ check = None /\ Ask
  /\ UNCHANGED <<disk, doc, login, cache, auth, switches, busy, job, starts>>

(* Its answer is what the next pin is compared with; a check that fails      *)
(* leaves nothing to compare with.  Of the publications that wait for it,    *)
(* one in its second check (assertDestinationCurrent) goes on only if the    *)
(* account and the link are those it was confirmed for.  (shaken, a history  *)
(* variable: another check, or an authorization, gave its answer between a   *)
(* publication's second check and its pin.)                                 *)
Between == {"snapshot", "adopt", "enter", "pin"}
Shaken(k) == IF job[k].at \in Between THEN [job[k] EXCEPT !.shaken = TRUE] ELSE job[k]

Answered(k, ok) ==
  CASE job[k].at = "connecting" ->
         IF ok THEN [job[k] EXCEPT !.at = "read", !.account = check] ELSE Idle
    [] job[k].at = "checking" ->
         IF ok /\ check = job[k].account /\ link[job[k].note] = job[k].base
         THEN [job[k] EXCEPT !.at = "snapshot"] ELSE Idle
    [] OTHER -> Shaken(k)

Answer ==
  /\ check # None /\ check' = None
  /\ \E ok \in BOOLEAN :
       /\ cache' = IF ok THEN check ELSE None
       /\ job' = [k \in Job |-> Answered(k, ok)]
  /\ UNCHANGED <<disk, doc, login, auth, switches, busy, starts>>

BeginAuthorization ==
  /\ ~auth /\ busy = None
  /\ auth' = TRUE
  /\ UNCHANGED <<disk, doc, login, cache, check, switches, busy, job, starts>>

(* The user may log in as somebody else; or does not, or without what the    *)
(* plugin needs.                                                           *)
CompleteAuthorization ==
  /\ auth /\ auth' = FALSE
  /\ \E a \in Account :
       /\ a # login => switches < MaxSwitch
       /\ switches' = IF a # login THEN switches + 1 ELSE switches
       /\ login' = a /\ cache' \in {a, None, cache}
  /\ job' = [k \in Job |-> Shaken(k)]
  /\ UNCHANGED <<disk, doc, check, busy, starts>>

CancelAuthorization ==
  /\ auth /\ auth' = FALSE
  /\ UNCHANGED <<disk, doc, login, cache, check, switches, busy, job, starts>>

(***************************************************************************)
(* A publication: FeishuPublishingPanel.publish.                           *)
(***************************************************************************)
(* The button; "create a new document" if the panel shows a duplicate.      *)
Start(j, n) ==
  /\ At(j, "idle") /\ text[n] > 0 /\ starts < MaxStart
  /\ starts' = starts + 1
  /\ job' = [job EXCEPT ![j] = [Idle EXCEPT !.at = "connect", !.id = starts + 1, !.note = n,
                                           !.fresh = cache # None /\ Duplicate(n, cache)]]
  /\ UNCHANGED <<disk, doc, client, busy>>

(* getConnectionState                                                      *)
Waits(j) ==
  /\ At(j, "connect") /\ busy = None /\ Ask /\ Goto(j, "connecting")
  /\ UNCHANGED <<disk, doc, login, cache, auth, switches, busy, starts>>

(* The note as it is now, and what is to be done with it.  A link that is   *)
(* not trusted is first looked at (probe).  (shared, a history variable:     *)
(* another note had the same document then.)                               *)
Reads(j) ==
  LET n == job[j].note
      old == link[n]
      shared == Duplicate(n, job[j].account)
      update == old # None /\ ~job[j].fresh /\ ~shared
  IN
  /\ At(j, "read")
  /\ job' = [job EXCEPT ![j].at = IF update /\ ~Trusted(n, job[j].account) THEN "probe" ELSE "confirm",
                        ![j].text = text[n], ![j].base = old,
                        ![j].doc = IF update THEN old.doc ELSE None, ![j].shared = shared,
                        ![j].adopt = update /\ ~Trusted(n, job[j].account)]
  /\ UNCHANGED <<disk, doc, client, busy, starts>>

(* The probe is an operation of its own, of which there is one at a time.     *)
ProbeEnters(j) ==
  /\ At(j, "probe")
  /\ IF busy = None /\ ~auth
     THEN busy' = j /\ Goto(j, "probing")
     ELSE Ends(j)
  /\ UNCHANGED <<disk, doc, client, starts>>

(* The account can read the document.                                       *)
Probes(j) ==
  /\ At(j, "probing")
  /\ IF cache \in {None, login} /\ doc[job[j].doc] # None
     THEN Goto(j, "confirm") /\ busy' = None
     ELSE Ends(j)
  /\ UNCHANGED <<disk, doc, client, starts>>

Confirms(j) ==
  /\ At(j, "confirm") /\ Goto(j, "destination")
  /\ UNCHANGED <<disk, doc, client, busy, starts>>

(* assertDestinationCurrent, again behind a publication under way           *)
WaitsAgain(j) ==
  /\ At(j, "destination") /\ busy = None /\ Ask /\ Goto(j, "checking")
  /\ UNCHANGED <<disk, doc, login, cache, auth, switches, busy, starts>>

(* assertSnapshotCurrent, assertSourceIntentCurrent                         *)
Snapshot(j) ==
  /\ At(j, "snapshot")
  /\ Checked(j, text[job[j].note] = job[j].text, IF job[j].adopt THEN "adopt" ELSE "enter")
  /\ UNCHANGED <<disk, doc, client, starts>>

(* setPublishState compares the frontmatter with what the publication left  *)
(* there (base), and replaces it.  What follows the change is read back: a   *)
(* difference can only stop the publication.                                *)
Persist(j, new, step) ==
  LET n == job[j].note IN
  IF link[n] = job[j].base
  THEN /\ link' = [link EXCEPT ![n] = new]
       /\ IF step = "idle"
          THEN Ends(j)
          ELSE job' = [job EXCEPT ![j].at = step, ![j].base = new] /\ UNCHANGED busy
  ELSE Ends(j) /\ UNCHANGED link

Adopts(j) ==
  /\ At(j, "adopt")
  /\ Persist(j, [job[j].base EXCEPT !.sig = Signature(job[j].note, job[j].account)], "enter")
  /\ UNCHANGED <<text, doc, client, starts>>

(***************************************************************************)
(* publishFeishuSnapshot in runPublishingOperation.                        *)
(***************************************************************************)
Enters(j) ==
  /\ At(j, "enter")
  /\ IF busy = None /\ ~auth
     THEN busy' = j /\ Goto(j, "pin")
     ELSE Ends(j)
  /\ UNCHANGED <<disk, doc, client, starts>>

(* A broken variant: the profile is not compared with the check.            *)
PinsUnchecked(j) ==
  /\ At(j, "pin") /\ job' = [job EXCEPT ![j].at = "intent", ![j].pin = login]
  /\ UNCHANGED <<disk, doc, client, busy, starts>>

(* assertProfileMatchesCheckedConnection; from here on every command names   *)
(* the profile.                                                            *)
Pins(j) ==
  /\ At(j, "pin")
  /\ IF cache \in {None, login}
     THEN job' = [job EXCEPT ![j].at = "intent", ![j].pin = login] /\ UNCHANGED busy
     ELSE Ends(j)
  /\ UNCHANGED <<disk, doc, client, starts>>

(* assertLocalIntentCurrent                                                *)
IntentHolds(j) == text[job[j].note] = job[j].text /\ link[job[j].note] = job[j].base

(* A broken variant: it asks for the connection, which waits for itself.    *)
IntendsConnected(j) ==
  /\ At(j, "intent") /\ busy = None
  /\ Checked(j, IntentHolds(j), IF job[j].doc = None THEN "create" ELSE "mark")
  /\ UNCHANGED <<disk, doc, client, starts>>

Intends(j) ==
  /\ At(j, "intent")
  /\ Checked(j, IntentHolds(j), IF job[j].doc = None THEN "create" ELSE "mark")
  /\ UNCHANGED <<disk, doc, client, starts>>

PendingLink(j, d) ==
  [doc |-> d, hash |-> Pending, stamp |-> job[j].id, sig |-> Signature(job[j].note, job[j].account)]

(* A broken variant: the document is overwritten with no mark on the note.  *)
MarksNothing(j) ==
  /\ At(j, "mark") /\ Goto(j, "again")
  /\ UNCHANGED <<disk, doc, client, busy, starts>>

Marks(j) ==
  /\ At(j, "mark")
  /\ Persist(j, PendingLink(j, job[j].doc), "again")
  /\ UNCHANGED <<text, doc, client, starts>>

(* A broken variant: what was confirmed is not looked at after the mark.    *)
IntendsOnce(j) ==
  /\ At(j, "again") /\ Goto(j, "update")
  /\ UNCHANGED <<disk, doc, client, busy, starts>>

IntendsAgain(j) ==
  /\ At(j, "again")
  /\ Checked(j, IntentHolds(j), "update")
  /\ UNCHANGED <<disk, doc, client, starts>>

Written(j, t) == [text |-> t, whole |-> FALSE, by |-> job[j].note]

(* A command may have done its work, or part of it (no text at all), and    *)
(* fail.                                                                   *)
Updates(j) ==
  /\ At(j, "update")
  /\ \/ /\ doc' = [doc EXCEPT ![job[j].doc] = Written(j, job[j].text)]
        /\ Goto(j, "insert") /\ UNCHANGED busy
     \/ /\ \E t \in {0, job[j].text} : doc' = [doc EXCEPT ![job[j].doc] = Written(j, t)]
        /\ Ends(j)
  /\ UNCHANGED <<disk, client, starts>>

Creates(j) ==
  /\ At(j, "create")
  /\ \E d \in 1..MaxDoc :
       /\ doc[d] = None /\ \A e \in 1..(d - 1) : doc[e] # None
       /\ doc' = [doc EXCEPT ![d] = Written(j, job[j].text)]
       /\ \/ /\ job' = [job EXCEPT ![j].at = "record", ![j].doc = d]
             /\ UNCHANGED busy
          \/ Ends(j)
  /\ UNCHANGED <<disk, client, starts>>

Records(j) ==
  /\ At(j, "record")
  /\ Persist(j, PendingLink(j, job[j].doc), "insert")
  /\ UNCHANGED <<text, doc, client, starts>>

(* insertAssets finds the markers, and an image takes the place of each.    *)
Inserts(j) ==
  LET d == job[j].doc IN
  /\ At(j, "insert")
  /\ IF ~doc[d].whole
     THEN doc' = [doc EXCEPT ![d].whole = TRUE] /\ Goto(j, "verify") /\ UNCHANGED busy
     ELSE Ends(j) /\ UNCHANGED doc
  /\ UNCHANGED <<disk, client, starts>>

(* verifyFeishuRemoteContent                                               *)
Verifies(j) ==
  LET d == job[j].doc IN
  /\ At(j, "verify")
  /\ Checked(j, doc[d].whole /\ doc[d].text = job[j].text, "complete")
  /\ UNCHANGED <<disk, doc, client, starts>>

Completes(j) ==
  /\ At(j, "complete")
  /\ Persist(j, [PendingLink(j, job[j].doc) EXCEPT !.hash = job[j].text], "idle")
  /\ UNCHANGED <<text, doc, client, starts>>

(* Anything may fail: a command, a file, the panel is closed.               *)
Fails(j) ==
  /\ ~At(j, "idle") /\ Ends(j)
  /\ UNCHANGED <<disk, doc, client, starts>>

Crash ==
  /\ job' = [j \in Job |-> Idle] /\ busy' = None
  /\ cache' = None /\ check' = None /\ auth' = FALSE
  /\ UNCHANGED <<disk, doc, login, switches, starts>>

(***************************************************************************)
(* All together.                                                           *)
(***************************************************************************)
Step(j) ==
  \/ Waits(j) \/ Reads(j) \/ ProbeEnters(j) \/ Probes(j)
  \/ WaitsAgain(j) \/ Snapshot(j) \/ Adopts(j)
  \/ Enters(j) \/ Pins(j) \/ Intends(j) \/ Marks(j) \/ IntendsAgain(j) \/ Updates(j)
  \/ Creates(j) \/ Records(j) \/ Inserts(j) \/ Verifies(j) \/ Completes(j)

Next ==
  \/ \E j \in Job : Step(j) \/ Confirms(j) \/ Fails(j) \/ \E n \in Note : Start(j, n)
  \/ \E n \in Note : Edit(n) \/ \E m \in Note : CopyNote(n, m)
  \/ SwitchAccount \/ CheckConnection \/ Answer
  \/ BeginAuthorization \/ CompleteAuthorization \/ CancelAuthorization \/ Crash

Spec == Init /\ [][Next]_vars

(***************************************************************************)
(* Properties.                                                             *)
(***************************************************************************)
Steps == {"idle", "connect", "connecting", "read", "probe", "probing", "confirm", "destination",
          "checking", "snapshot", "adopt", "enter", "pin", "intent", "mark", "again", "update", "create",
          "record", "insert", "verify", "complete"}

Publication == [at : Steps, id : 0..MaxStart, note : Note \cup {None}, fresh : BOOLEAN,
                text : 0..MaxText, base : Link \cup {None}, doc : 1..MaxDoc \cup {None},
                adopt : BOOLEAN, account : Account \cup {None}, pin : Account \cup {None},
                shared : BOOLEAN, shaken : BOOLEAN]

(* The notes, the documents, the client and the publications have their types. *)
TypeOK ==
  /\ text \in [Note -> 0..MaxText] /\ link \in [Note -> Link \cup {None}]
  /\ doc \in [1..MaxDoc -> Document \cup {None}]
  /\ login \in Account /\ {cache, check} \subseteq Account \cup {None} /\ auth \in BOOLEAN
  /\ busy \in Job \cup {None}
  /\ job \in [Job -> Publication]
  /\ starts \in 0..MaxStart /\ switches \in 0..MaxSwitch

(* A note that says it was published says so truly, wherever a publication   *)
(* stopped: its document holds that text and all images, unless the last    *)
(* one to write the document was the publication of another note.           *)
SyncedMeansEqual ==
  \A n \in Note :
    LET l == link[n] IN
    l # None /\ l.hash # Pending /\ doc[l.doc].by = n
      => doc[l.doc].text = l.hash /\ doc[l.doc].whole

(* The document a link makes the note's own.                                *)
Ownership(l) == IF l = None \/ l.sig = None THEN None ELSE [doc |-> l.doc, sig |-> l.sig]

(* What is sent is what the user confirmed and the note still says: an update *)
(* goes to the document the note is linked to, under its signed mark; a      *)
(* document is created only for a note that has none, or that shared its     *)
(* document with another note when the panel, or the publication, read it.  *)
SendsAsConfirmed ==
  [][\A j \in Job :
       LET now == link[job[j].note] IN
       job'[j].at \in {"update", "create"} /\ ~At(j, job'[j].at)
         => /\ text[job[j].note] = job[j].text
            /\ job'[j].at = "update" => Ownership(now) = [doc |-> job[j].doc,
                                           sig |-> Signature(job[j].note, job[j].account)]
            /\ job'[j].at = "create" => now = None \/ job[j].fresh \/ job[j].shared]_vars

(* A note comes to be the signed owner of a document only by creating it, or *)
(* after its link was found not to be its own (it is a copy, or not signed,  *)
(* or of another account) and the user confirmed to take the document over:  *)
(* no copy of a note overwrites the document of the original by itself.      *)
OwnsByConsent ==
  [][\A n \in Note :
       LET own == Ownership(link'[n]) IN
       own \notin {None, Ownership(link[n])} /\ own.sig.note = n
         => \E j \in Job :
              /\ job[j].note = n /\ job[j].doc = own.doc
              /\ At(j, "adopt") \/ (At(j, "record") /\ doc[own.doc].by = n)]_vars

(* Commands run under the account that was confirmed, although the client's  *)
(* account may change at any time; unless another check or an authorization  *)
(* moved what the pin is compared with.                                     *)
PinnedIsConfirmed ==
  \A j \in Job : job[j].pin # None => job[j].pin = job[j].account \/ job[j].shaken

(* Publications wait for each other, but never all of them, and none for     *)
(* itself.                                                                 *)
WorkGoesOn ==
  (\E j \in Job : job[j].at \notin {"idle", "confirm"}) => check # None \/ \E j \in Job : ENABLED Step(j)

=============================================================================
