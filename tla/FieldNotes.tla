----------------------------- MODULE FieldNotes -----------------------------
(***************************************************************************)
(* Field notes: a worker captures observations in a browser that may be    *)
(* offline, keeps them in the storage its tabs share, and sends them when  *)
(* asked to.  Requests and answers get lost, late or repeated; tabs close; *)
(* the linked task changes meanwhile.                                      *)
(*                                                                         *)
(* A request of the API is one atomic step here: it is a transaction that  *)
(* holds the organisation row from before its first read (OrgAuthority and *)
(* its theorem AuthorityInvariant).                                        *)
(***************************************************************************)
EXTENDS Naturals, Sequences, FiniteSets

CONSTANTS
  Notes,        \* client operation ids
  Texts,        \* what a note says
  SpareKeys,    \* transport keys of clients other than this browser
  Tabs,
  MaxRequests,  \* bound: requests sent
  MaxVersion    \* bound: versions of the linked task

ASSUME NotesAssumption == Notes # {}
ASSUME BoundAssumption == MaxRequests \in Nat /\ MaxVersion \in Nat \ {0}

VARIABLES
  task,      \* the linked task_instances row
  granted,   \* the worker's editor grant on the project
  observed,  \* field_observations, with their audit and outbox rows, in order
  receipt,   \* idempotency_records: the payload each key was used for
  network,   \* requests the API has not handled yet
  sent,      \* requests so far
  capture,   \* what each note said when it was captured
  stored,    \* localStorage, by note
  tab        \* the browser's tabs

server == <<task, granted, observed, receipt>>
device == <<capture, stored, tab>>
vars == <<server, device, network, sent>>

Keys == Notes \cup SpareKeys
Task == [version: 1..MaxVersion, done: BOOLEAN, forecast: Nat]

\* What the payload hash covers.  base is the task as the worker saw it: the
\* payload holds its version, the rest is there for the properties.
Payload  == [op: Notes, text: Texts, linked: BOOLEAN, base: Task]
Nothing  == [used |-> FALSE]
Used(p)  == [used |-> TRUE, payload |-> p]
Use      == {Nothing} \cup [used: {TRUE}, payload: Payload]
Request  == [id: Nat, key: Keys, payload: Payload]
Observed == [payload: Payload, found: Task, conflict: BOOLEAN]
Item     == [state: {"absent", "pending", "received"}, receipt: Nat]
Tab == [view: Task, at: {"idle", "ready", "waiting", "answered"}, queue: SUBSET Notes,
        note: Notes, id: Nat, answer: Nat]

TypeOK ==
  /\ task \in Task /\ granted \in BOOLEAN
  /\ observed \in Seq(Observed)
  /\ receipt \in [Keys -> Use]
  /\ network \subseteq Request
  /\ sent \in Nat
  /\ capture \in [Notes -> Use]
  /\ stored \in [Notes -> Item]
  /\ tab \in [Tabs -> Tab]
  /\ \A r \in network : r.id <= sent
  /\ \A t \in Tabs : tab[t].id <= sent

Created == [version |-> 1, done |-> FALSE, forecast |-> 0]
Absent  == [state |-> "absent", receipt |-> 0]
Pending == [state |-> "pending", receipt |-> 0]
Closed  == [view |-> Created, at |-> "idle", queue |-> {},
            note |-> CHOOSE n \in Notes : TRUE, id |-> 0, answer |-> 0]

Init ==
  /\ task = Created /\ granted = TRUE
  /\ observed = <<>>
  /\ receipt = [k \in Keys |-> Nothing]
  /\ network = {} /\ sent = 0
  /\ capture = [n \in Notes |-> Nothing]
  /\ stored = [n \in Notes |-> Absent]
  /\ tab = [t \in Tabs |-> Closed]

-----------------------------------------------------------------------------
\* The project goes on.

\* Broken variant: a new forecast leaves the task's version alone.
ReforecastSilently ==
  /\ ~task.done /\ task.version < MaxVersion
  /\ task' = [task EXCEPT !.forecast = @ + 1]

Reforecast ==
  /\ ~task.done /\ task.version < MaxVersion
  /\ task' = [task EXCEPT !.forecast = @ + 1, !.version = @ + 1]

Complete ==
  /\ ~task.done /\ task.version < MaxVersion
  /\ task' = [task EXCEPT !.done = TRUE, !.version = @ + 1]

ChangeTask ==
  /\ Reforecast \/ Complete
  /\ UNCHANGED <<granted, observed, receipt, device, network, sent>>

ChangeGrant ==
  /\ granted' = ~granted
  /\ UNCHANGED <<task, observed, receipt, device, network, sent>>

-----------------------------------------------------------------------------
\* The browser.

\* The page loads the tasks a note can be linked to.
Load(t) ==
  /\ granted /\ tab[t].at = "idle"
  /\ tab' = [tab EXCEPT ![t].view = task]
  /\ UNCHANGED <<server, capture, stored, network, sent>>

Capture(t, n, text, linked) ==
  /\ capture[n] = Nothing /\ tab[t].at = "idle"
  /\ capture' = [capture EXCEPT ![n] =
       Used([op |-> n, text |-> text, linked |-> linked, base |-> tab[t].view])]
  /\ stored' = [stored EXCEPT ![n] = Pending]
  /\ UNCHANGED <<server, tab, network, sent>>

\* Broken variant: what is saved last wins.
SavedBlindly(n, item) == [stored EXCEPT ![n] = item]

\* A late error does not take a receipt away again.
Saved(n, item) ==
  IF item = Pending /\ stored[n].state = "received" THEN stored
  ELSE [stored EXCEPT ![n] = item]

\* The notes to send are read once, when the sync starts.
Sync(t) ==
  /\ tab[t].at = "idle"
  /\ \E n \in Notes : stored[n].state = "pending"
  /\ tab' = [tab EXCEPT ![t].at = "ready",
               ![t].queue = {n \in Notes : stored[n].state = "pending"}]
  /\ UNCHANGED <<server, capture, stored, network, sent>>

\* Broken variant: requests are not told apart.
SendUnnumbered(t, n) ==
  /\ tab[t].at = "ready" /\ n \in tab[t].queue /\ sent < MaxRequests
  /\ network' = network \cup {[id |-> sent + 1, key |-> n, payload |-> capture[n].payload]}
  /\ sent' = sent
  /\ tab' = [tab EXCEPT ![t].at = "waiting", ![t].note = n, ![t].id = sent + 1]
  /\ UNCHANGED <<server, capture, stored>>

\* Broken variant: the request carries another note of the queue.
SendAnother(t, n) ==
  /\ tab[t].at = "ready" /\ n \in tab[t].queue /\ sent < MaxRequests
  /\ sent' = sent + 1
  /\ \E m \in tab[t].queue : network' = network \cup
       {[id |-> sent', key |-> n, payload |-> capture[m].payload]}
  /\ tab' = [tab EXCEPT ![t].at = "waiting", ![t].note = n, ![t].id = sent']
  /\ UNCHANGED <<server, capture, stored>>

Send(t, n) ==
  /\ tab[t].at = "ready" /\ n \in tab[t].queue /\ sent < MaxRequests
  /\ sent' = sent + 1
  /\ network' = network \cup {[id |-> sent', key |-> n, payload |-> capture[n].payload]}
  /\ tab' = [tab EXCEPT ![t].at = "waiting", ![t].note = n, ![t].id = sent']
  /\ UNCHANGED <<server, capture, stored>>

\* The tab turns to its next note, or is done.
Advance(t) == [tab EXCEPT ![t].queue = @ \ {tab[t].note}, ![t].answer = 0,
               ![t].at = IF tab[t].queue = {tab[t].note} THEN "idle" ELSE "ready"]

\* A receipt counts only if it describes this very note.
Confirms(n, i) == i # 0 /\ observed[i].payload = capture[n].payload

Settle(t) ==
  LET n == tab[t].note i == tab[t].answer IN
  /\ tab[t].at = "answered"
  /\ stored' = Saved(n, IF Confirms(n, i) THEN [state |-> "received", receipt |-> i]
                        ELSE Pending)
  /\ tab' = Advance(t)
  /\ UNCHANGED <<server, capture, network, sent>>

\* The connection breaks: the request or its answer may still be on its way.
LoseAnswer(t) ==
  /\ tab[t].at \in {"waiting", "answered"}
  /\ stored' = Saved(tab[t].note, Pending)
  /\ tab' = Advance(t)
  /\ UNCHANGED <<server, capture, network, sent>>

Close(t) ==
  /\ tab[t].at # "idle"
  /\ tab' = [tab EXCEPT ![t] = [Closed EXCEPT !.view = tab[t].view]]
  /\ UNCHANGED <<server, capture, stored, network, sent>>

\* Broken variant: a note that was sent counts as received.
Dispatched(n) == \E t \in Tabs : tab[t].at = "waiting" /\ tab[t].note = n

Received(n) == stored[n].state = "received"

ClearReceived ==
  /\ \E n \in Notes : Received(n)
  /\ stored' = [n \in Notes |-> IF Received(n) THEN Absent ELSE stored[n]]
  /\ UNCHANGED <<server, capture, tab, network, sent>>

\* Another client of the worker repeats a note, changed or under another key.
Repeat(n, text, k) ==
  /\ capture[n] # Nothing /\ sent < MaxRequests
  /\ sent' = sent + 1
  /\ network' = network \cup {[id |-> sent', key |-> k,
                               payload |-> [capture[n].payload EXCEPT !.text = text]]}
  /\ UNCHANGED <<server, device>>

-----------------------------------------------------------------------------
\* The API.

Prior(op) == {i \in DOMAIN observed : observed[i].payload.op = op}

\* The request is handled, and the tab that still waits for it gets the answer.
Answer(r, i) ==
  /\ network' = network \ {r}
  /\ tab' = [t \in Tabs |-> IF tab[t].at = "waiting" /\ tab[t].id = r.id
                              THEN [tab[t] EXCEPT !.at = "answered", !.answer = i]
                              ELSE tab[t]]
  /\ UNCHANGED <<task, granted, capture, stored, sent>>

KeyFits(r) == receipt[r.key] \in {Nothing, Used(r.payload)}

Refuse(r) ==
  /\ \/ ~granted
     \/ ~KeyFits(r)
     \/ \E i \in Prior(r.payload.op) : observed[i].payload # r.payload
     \/ Prior(r.payload.op) = {} /\ receipt[r.key] # Nothing
  /\ Answer(r, 0)
  /\ UNCHANGED <<observed, receipt>>

\* Broken variant: an operation id is taken to mean the same payload.
ReplayAnyPayload(r) ==
  /\ granted /\ KeyFits(r)
  /\ \E i \in Prior(r.payload.op) : Answer(r, i)
  /\ receipt' = [receipt EXCEPT ![r.key] = Used(r.payload)]
  /\ UNCHANGED observed

\* A repeated operation gets the original receipt, and its key is noted.
Replay(r) ==
  /\ granted /\ KeyFits(r)
  /\ \E i \in Prior(r.payload.op) : observed[i].payload = r.payload /\ Answer(r, i)
  /\ receipt' = [receipt EXCEPT ![r.key] = Used(r.payload)]
  /\ UNCHANGED observed

\* Broken variant: only the transport key tells a repetition.
FreshKey(r) == receipt[r.key] = Nothing

Fresh(r) == Prior(r.payload.op) = {} /\ receipt[r.key] = Nothing

Record(r) ==
  /\ granted /\ Fresh(r)
  /\ observed' = Append(observed,
       [payload |-> r.payload, found |-> task,
        conflict |-> r.payload.linked /\ r.payload.base.version # task.version])
  /\ receipt' = [receipt EXCEPT ![r.key] = Used(r.payload)]
  /\ Answer(r, Len(observed) + 1)

Serve(r) == Refuse(r) \/ Replay(r) \/ Record(r)

Next ==
  \/ ChangeTask \/ ChangeGrant \/ ClearReceived
  \/ \E t \in Tabs : Load(t) \/ Sync(t) \/ Settle(t) \/ LoseAnswer(t) \/ Close(t)
  \/ \E t \in Tabs, n \in Notes : Send(t, n)
  \/ \E t \in Tabs, n \in Notes, text \in Texts, linked \in BOOLEAN :
       Capture(t, n, text, linked)
  \/ \E n \in Notes, text \in Texts, k \in Keys : Repeat(n, text, k)
  \/ \E r \in network : Serve(r)

Spec == Init /\ [][Next]_vars

-----------------------------------------------------------------------------
\* Properties.

\* A captured note is on the device or, word for word, with the server: closing
\* tabs, clearing the list and losing answers destroy none.
NoNoteLost ==
  \A n \in Notes : capture[n] # Nothing =>
    \/ stored[n].state # "absent"
    \/ \E i \in Prior(n) : observed[i].payload = capture[n].payload

\* However often, from whichever tab, with whichever key and however late a note
\* is sent, it is observed once ("Client operation deduplication is independent
\* of the transport retry key").
RecordedOnce ==
  \A i, j \in DOMAIN observed : observed[i].payload.op = observed[j].payload.op => i = j

\* Every receipt, on the device, under a key or about to be read by a tab, is
\* backed by the observation it describes; the server never meets a receipt
\* without one (FIELD_RECEIPT_INCONSISTENT).
ReceiptsBacked ==
  /\ \A k \in Keys : receipt[k] # Nothing =>
       \E i \in DOMAIN observed : observed[i].payload = receipt[k].payload
  /\ \A n \in Notes : Received(n) =>
       observed[stored[n].receipt].payload = capture[n].payload
  /\ \A t \in Tabs : tab[t].at = "answered" /\ tab[t].answer # 0 =>
       Confirms(tab[t].note, tab[t].answer)

\* An observation of a task carries no conflict exactly if nothing about the task
\* changed between the page the worker looked at and the receipt.
ConflictTold ==
  \A i \in DOMAIN observed : observed[i].payload.linked =>
    (observed[i].conflict <=> observed[i].payload.base # observed[i].found)

\* A received note never goes back to awaiting its receipt while it is kept,
\* whatever other tabs learn late ("never ... downgrades a receipt after a late
\* network error").
NeverDowngraded ==
  [][\A n \in Notes : Received(n) => stored'[n] \in {stored[n], Absent}]_vars

\* What the worker sees of the notes, and what is recorded of them.
Custodian == INSTANCE NoteCustody WITH
  Payloads <- Payload,
  words    <- capture,
  records  <- [i \in DOMAIN observed |-> observed[i].payload],
  shown    <- stored

\* The tabs, requests and keys keep what the worker is promised of each note: it is
\* waiting, received as it was captured, or left out once it is recorded.
PromiseKept == Custodian!Spec

=============================================================================
