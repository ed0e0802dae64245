-------------------------- MODULE FieldNotesProofs --------------------------
(***************************************************************************)
(* Field notes keep their custody for any notes, tabs, keys and requests.  *)
(***************************************************************************)
EXTENDS FieldNotes, TLAPS

\* A tab waits for the request it sent, and everything the browser handles was
\* captured before.
Bookkeeping ==
  /\ \A n \in Notes : stored[n].state # "absent" => capture[n] # Nothing
  /\ \A n \in Notes : capture[n] # Nothing => capture[n].payload.op = n
  /\ \A n \in Notes : Received(n) => stored[n].receipt \in DOMAIN observed
  /\ \A t \in Tabs : \A n \in tab[t].queue : capture[n] # Nothing
  /\ \A t \in Tabs : tab[t].at \in {"waiting", "answered"} => capture[tab[t].note] # Nothing
  /\ \A t \in Tabs : tab[t].at = "answered" => tab[t].answer \in 0..Len(observed)
  /\ \A t \in Tabs : tab[t].at = "waiting" =>
       \A r \in network : r.id = tab[t].id => r.payload = capture[tab[t].note].payload

Custody == TypeOK /\ Bookkeeping /\ NoNoteLost /\ RecordedOnce /\ ReceiptsBacked

\* Initially nothing is captured, sent or observed.
LEMMA InitCustody == Init => Custody
  <1> SUFFICES ASSUME Init PROVE Custody
    OBVIOUS
  <1>0. (CHOOSE n \in Notes : TRUE) \in Notes
    BY NotesAssumption
  <1>1. TypeOK
    BY <1>0, BoundAssumption DEF Init, TypeOK, Task, Created, Use, Absent, Item, Closed, Tab
  <1>2. Bookkeeping
    BY DEF Init, Bookkeeping, Absent, Closed, Received
  <1>3. NoNoteLost /\ RecordedOnce /\ ReceiptsBacked
    BY DEF Init, NoNoteLost, RecordedOnce, ReceiptsBacked, Received, Absent, Closed
  <1> QED BY <1>1, <1>2, <1>3 DEF Custody

\* A tab that turns to its next note, and what it saves about this one, are typed.
LEMMA TabTypes ==
  ASSUME TypeOK, NEW t \in Tabs
  PROVE  /\ Advance(t) \in [Tabs -> Tab]
         /\ \A s \in Tabs : Advance(t)[s].id = tab[s].id
         /\ \A item \in Item : Saved(tab[t].note, item) \in [Notes -> Item]
  <1>1. tab[t] \in Tab
    BY DEF TypeOK
  <1>2. tab[t].queue \ {tab[t].note} \in SUBSET Notes
    BY <1>1 DEF Tab
  <1>3. [tab[t] EXCEPT !.queue = @ \ {tab[t].note}, !.answer = 0,
           !.at = IF tab[t].queue = {tab[t].note} THEN "idle" ELSE "ready"] \in Tab
    BY <1>1, <1>2 DEF Tab
  <1>4. Advance(t) \in [Tabs -> Tab]
    BY <1>3 DEF Advance, TypeOK
  <1>5. \A s \in Tabs : Advance(t)[s].id = tab[s].id
    BY <1>1 DEF Advance, TypeOK, Tab
  <1>6. \A item \in Item : Saved(tab[t].note, item) \in [Notes -> Item]
    BY DEF Saved, TypeOK
  <1> QED BY <1>4, <1>5, <1>6

\* Every step keeps the types.
LEMMA TypeStep == TypeOK /\ [Next]_vars => TypeOK'
  <1> SUFFICES ASSUME TypeOK, [Next]_vars PROVE TypeOK'
    OBVIOUS
  <1> USE DEF TypeOK
  <1>1. CASE ChangeTask
    <2>1. task' \in Task
      <3>1. task.version + 1 \in 1..MaxVersion /\ task.forecast + 1 \in Nat
        BY <1>1, BoundAssumption DEF ChangeTask, Reforecast, Complete, Task
      <3>2. CASE Reforecast
        BY <3>1, <3>2 DEF Reforecast, Task
      <3>3. CASE Complete
        BY <3>1, <3>3 DEF Complete, Task
      <3> QED BY <1>1, <3>2, <3>3 DEF ChangeTask
    <2> QED BY <2>1, <1>1 DEF ChangeTask, device
  <1>2. CASE ChangeGrant
    BY <1>2 DEF ChangeGrant, device
  <1>3. CASE ClearReceived
    BY <1>3 DEF ClearReceived, server, Absent, Item
  <1>4. ASSUME NEW t \in Tabs, Load(t) PROVE TypeOK'
    BY <1>4 DEF Load, server, Tab
  <1>5. ASSUME NEW t \in Tabs, Sync(t) PROVE TypeOK'
    <2> DEFINE row == [tab[t] EXCEPT !.at = "ready",
                                     !.queue = {n \in Notes : stored[n].state = "pending"}]
    <2>1. row \in Tab /\ row.id = tab[t].id
      BY DEF Tab
    <2>2. tab' = [tab EXCEPT ![t] = row]
      BY <1>5 DEF Sync
    <2> HIDE DEF row
    <2>3. tab' \in [Tabs -> Tab] /\ \A s \in Tabs : tab'[s].id = tab[s].id
      BY <2>1, <2>2
    <2> QED BY <1>5, <2>3 DEF Sync, server
  <1>6. ASSUME NEW t \in Tabs, Settle(t) PROVE TypeOK'
    <2>1. PICK item \in Item : stored' = Saved(tab[t].note, item)
      <3>1. tab[t].answer \in Nat /\ Pending \in Item
        BY DEF Tab, Pending, Item
      <3>2. [state |-> "received", receipt |-> tab[t].answer] \in Item
        BY <3>1 DEF Item
      <3> QED BY <1>6, <3>1, <3>2 DEF Settle
    <2> QED BY <2>1, <1>6, TabTypes DEF Settle, server
  <1>7. ASSUME NEW t \in Tabs, LoseAnswer(t) PROVE TypeOK'
    <2>1. Pending \in Item
      BY DEF Pending, Item
    <2> QED BY <2>1, <1>7, TabTypes DEF LoseAnswer, server
  <1>8. ASSUME NEW t \in Tabs, Close(t) PROVE TypeOK'
    <2>1. (CHOOSE n \in Notes : TRUE) \in Notes
      BY NotesAssumption
    <2>2. tab[t].view \in Task
      BY DEF Tab
    <2>3. [Closed EXCEPT !.view = tab[t].view] \in Tab /\ Closed.id = 0
      BY <2>1, <2>2 DEF Closed, Tab
    <2>4. tab' \in [Tabs -> Tab]
      BY <2>3, <1>8 DEF Close
    <2>5. \A s \in Tabs : tab'[s].id <= sent'
      BY <2>3, <1>8 DEF Close, Closed
    <2> QED BY <2>4, <2>5, <1>8 DEF Close, server
  <1>9. ASSUME NEW t \in Tabs, NEW n \in Notes, Send(t, n) PROVE TypeOK'
    BY <1>9 DEF Send, server, Tab, Request, Keys, Use
  <1>10. ASSUME NEW t \in Tabs, NEW n \in Notes, NEW text \in Texts, NEW linked \in BOOLEAN,
                Capture(t, n, text, linked) PROVE TypeOK'
    BY <1>10 DEF Capture, server, Tab, Use, Used, Payload, Pending, Item
  <1>11. ASSUME NEW n \in Notes, NEW text \in Texts, NEW k \in Keys, Repeat(n, text, k)
         PROVE TypeOK'
    <2>1. capture[n].payload \in Payload
      BY <1>11 DEF Repeat, Use
    <2>2. [capture[n].payload EXCEPT !.text = text] \in Payload
      BY <2>1 DEF Payload
    <2>3. network' \subseteq Request /\ sent' = sent + 1
      BY <2>2, <1>11 DEF Repeat, Request
    <2>4. \A r \in network' : r.id <= sent'
      <3>1. \A r \in network : r.id \in Nat /\ r.id <= sent
        BY DEF Request
      <3>2. \A r \in network' : r \in network \/ r.id = sent'
        BY <1>11 DEF Repeat
      <3> QED BY <2>3, <3>1, <3>2
    <2>5. \A t \in Tabs : tab[t].id <= sent'
      BY <2>3 DEF Tab
    <2> QED BY <2>3, <2>4, <2>5, <1>11 DEF Repeat, server, device
  <1>12. ASSUME NEW r \in network, Serve(r) PROVE TypeOK'
    <2>1. ASSUME NEW i \in Nat, Answer(r, i)
          PROVE /\ network' \subseteq Request /\ tab' \in [Tabs -> Tab]
                /\ UNCHANGED <<task, granted, capture, stored, sent>>
                /\ \A q \in network' : q.id <= sent'
                /\ \A t \in Tabs : tab'[t].id <= sent'
      BY <2>1 DEF Answer, Tab
    <2>2. CASE Refuse(r)
      BY <2>1, <2>2 DEF Refuse
    <2>3. CASE Replay(r)
      <3>1. PICK i \in Prior(r.payload.op) : Answer(r, i)
        BY <2>3 DEF Replay
      <3>2. i \in Nat
        BY DEF Prior
      <3>3. receipt' \in [Keys -> Use]
        BY <2>3 DEF Replay, Use, Used, Request
      <3>4. observed' = observed
        BY <2>3 DEF Replay
      <3> QED BY <2>1, <3>1, <3>2, <3>3, <3>4
    <2>4. CASE Record(r)
      <3>1. observed' \in Seq(Observed)
        BY <2>4 DEF Record, Observed, Request, Payload, Task
      <3>2. receipt' \in [Keys -> Use]
        BY <2>4 DEF Record, Use, Used, Request
      <3>3. Len(observed) + 1 \in Nat /\ Answer(r, Len(observed) + 1)
        BY <2>4 DEF Record
      <3> QED BY <2>1, <3>1, <3>2, <3>3
    <2> QED BY <1>12, <2>2, <2>3, <2>4 DEF Serve
  <1>13. CASE UNCHANGED vars
    BY <1>13 DEF vars, server, device
  <1> QED
    BY <1>1, <1>2, <1>3, <1>4, <1>5, <1>6, <1>7, <1>8, <1>9, <1>10, <1>11, <1>12, <1>13
    DEF Next

-----------------------------------------------------------------------------
\* The parts of Custody that speak about recorded observations and receipts.
Backed == NoNoteLost /\ RecordedOnce /\ ReceiptsBacked

\* Saving a pending note or a receipt that describes it keeps custody, and the
\* tab goes on with captured notes.
LEMMA SaveStep ==
  ASSUME Custody, TypeOK', NEW t \in Tabs, tab[t].at \in {"waiting", "answered"},
         NEW item \in Item, stored' = Saved(tab[t].note, item), tab' = Advance(t),
         \/ item = Pending
         \/ /\ item.state = "received" /\ item.receipt \in DOMAIN observed
            /\ Confirms(tab[t].note, item.receipt),
         UNCHANGED <<server, capture, network, sent>>
  PROVE  Bookkeeping' /\ Backed'
  <1> USE DEF Custody
  <1>1. tab[t].note \in Notes /\ capture[tab[t].note] # Nothing
    BY DEF Bookkeeping, TypeOK, Tab
  <1>2. \A n \in Notes : \/ stored'[n] = stored[n]
                         \/ n = tab[t].note /\ stored'[n] = item
    <2>1. CASE stored' = stored
      BY <2>1
    <2>2. CASE stored' = [stored EXCEPT ![tab[t].note] = item]
      BY <2>2 DEF TypeOK
    <2> QED BY <2>1, <2>2 DEF Saved
  <1>3. item.state # "absent"
    BY DEF Pending
  <1>4. \A n \in Notes : stored[n].state # "absent" => stored'[n].state # "absent"
    BY <1>2, <1>3
  <1>5. \A s \in Tabs : s # t => tab'[s] = tab[s]
    BY DEF Advance, TypeOK
  <1>6. tab'[t].at \in {"idle", "ready"} /\ tab'[t].queue \subseteq tab[t].queue
    <2>1. tab[t] \in Tab
      BY DEF TypeOK
    <2>2. tab'[t] = [tab[t] EXCEPT !.queue = @ \ {tab[t].note}, !.answer = 0,
             !.at = IF tab[t].queue = {tab[t].note} THEN "idle" ELSE "ready"]
      BY DEF Advance, TypeOK
    <2> QED BY <2>1, <2>2 DEF Tab
  <1>7. \A n \in Notes : Received(n)' =>
           \/ Received(n) /\ stored'[n] = stored[n]
           \/ stored'[n].receipt \in DOMAIN observed /\ Confirms(n, stored'[n].receipt)
    BY <1>2 DEF Received, Pending
  <1>8. Bookkeeping'
    BY <1>1, <1>2, <1>5, <1>6, <1>7 DEF Bookkeeping, Received, server
  <1>9. NoNoteLost'
    BY <1>4 DEF NoNoteLost, Prior, server
  <1>10. RecordedOnce'
    BY DEF RecordedOnce, server
  <1>11. ReceiptsBacked'
    BY <1>5, <1>6, <1>7 DEF ReceiptsBacked, Received, Confirms, server
  <1> QED BY <1>8, <1>9, <1>10, <1>11 DEF Backed

\* An answer that is a refusal or the index of the observation of the request's
\* payload keeps the books: whoever waits for it sent that payload.
LEMMA AnswerStep ==
  ASSUME Custody, NEW r \in network, NEW i \in Nat, Answer(r, i),
         \A j \in DOMAIN observed : j \in DOMAIN observed' /\ observed'[j] = observed[j],
         observed' \in Seq(Observed),
         i # 0 => i \in DOMAIN observed' /\ observed'[i].payload = r.payload
  PROVE  /\ Bookkeeping'
         /\ NoNoteLost'
         /\ \A n \in Notes : Received(n)' =>
              observed'[stored'[n].receipt].payload = capture'[n].payload
         /\ \A t \in Tabs : tab'[t].at = "answered" /\ tab'[t].answer # 0 =>
              observed'[tab'[t].answer].payload = capture'[tab'[t].note].payload
  <1> USE DEF Custody
  <1>1. UNCHANGED <<capture, stored>> /\ network' \subseteq network
    BY DEF Answer
  <1>2. \A t \in Tabs : \/ tab'[t] = tab[t]
                        \/ /\ tab[t].at = "waiting" /\ tab[t].id = r.id
                           /\ tab'[t].at = "answered" /\ tab'[t].answer = i
                           /\ tab'[t].note = tab[t].note /\ tab'[t].queue = tab[t].queue
                           /\ tab'[t].id = tab[t].id
    BY DEF Answer, TypeOK, Tab
  <1>3. Len(observed) <= Len(observed')
    BY DEF TypeOK
  <1>4. i \in 0..Len(observed')
    OBVIOUS
  <1>5. Bookkeeping'
    <2>1. \A n \in Notes : Received(n)' => stored'[n].receipt \in DOMAIN observed'
      BY <1>1 DEF Bookkeeping, Received
    <2>2. \A t \in Tabs : tab'[t].at = "answered" => tab'[t].answer \in 0..Len(observed')
      <3> SUFFICES ASSUME NEW t \in Tabs, tab'[t].at = "answered"
                   PROVE  tab'[t].answer \in 0..Len(observed')
        OBVIOUS
      <3>1. CASE tab'[t] = tab[t]
        BY <3>1, <1>3 DEF Bookkeeping, TypeOK
      <3>2. CASE tab'[t].answer = i
        BY <3>2, <1>4
      <3> QED BY <1>2, <3>1, <3>2
    <2>3. \A t \in Tabs : /\ \A n \in tab'[t].queue : capture'[n] # Nothing
                          /\ tab'[t].at \in {"waiting", "answered"} =>
                             capture'[tab'[t].note] # Nothing
      BY <1>1, <1>2 DEF Bookkeeping
    <2>4. \A t \in Tabs : tab'[t].at = "waiting" =>
            \A q \in network' : q.id = tab'[t].id => q.payload = capture'[tab'[t].note].payload
      BY <1>1, <1>2 DEF Bookkeeping
    <2>5. \A n \in Notes : /\ stored'[n].state # "absent" => capture'[n] # Nothing
                           /\ capture'[n] # Nothing => capture'[n].payload.op = n
      BY <1>1 DEF Bookkeeping
    <2> QED BY <2>1, <2>2, <2>3, <2>4, <2>5 DEF Bookkeeping
  <1>6. NoNoteLost'
    BY <1>1 DEF NoNoteLost, Prior
  <1>7. \A n \in Notes : Received(n)' =>
          observed'[stored'[n].receipt].payload = capture'[n].payload
    BY <1>1 DEF ReceiptsBacked, Bookkeeping, Received
  <1>8. \A t \in Tabs : tab'[t].at = "answered" /\ tab'[t].answer # 0 =>
          observed'[tab'[t].answer].payload = capture'[tab'[t].note].payload
    <2> SUFFICES ASSUME NEW t \in Tabs, tab'[t].at = "answered", tab'[t].answer # 0
                 PROVE  observed'[tab'[t].answer].payload = capture'[tab'[t].note].payload
      OBVIOUS
    <2>1. CASE tab'[t] = tab[t]
      <3>1. tab[t].answer \in DOMAIN observed
        BY <2>1 DEF Bookkeeping, TypeOK
      <3> QED BY <2>1, <3>1, <1>1 DEF ReceiptsBacked, Confirms
    <2>2. CASE tab[t].at = "waiting" /\ tab[t].id = r.id /\ tab'[t].answer = i
               /\ tab'[t].note = tab[t].note
      BY <2>2, <1>1 DEF Bookkeeping, Confirms
    <2> QED BY <1>2, <2>1, <2>2
  <1> QED BY <1>5, <1>6, <1>7, <1>8

-----------------------------------------------------------------------------
\* Every step keeps custody.
LEMMA CustodyStep == Custody /\ [Next]_vars => Custody'
  <1> SUFFICES ASSUME Custody, [Next]_vars PROVE Custody'
    OBVIOUS
  <1> USE DEF Custody
  <1>0. TypeOK'
    BY TypeStep
  <1>1. CASE ChangeTask \/ ChangeGrant \/ UNCHANGED vars
    <2>1. UNCHANGED <<observed, receipt, device, network, sent>>
      BY <1>1 DEF ChangeTask, ChangeGrant, vars, server
    <2> QED BY <1>0, <2>1 DEF device, Bookkeeping, NoNoteLost, RecordedOnce, ReceiptsBacked,
                               Received, Confirms, Prior
  <1>2. CASE ClearReceived
    <2>1. UNCHANGED <<server, capture, tab, network, sent>>
      BY <1>2 DEF ClearReceived
    <2>2. \A n \in Notes : ~Received(n)' /\ (~Received(n) => stored'[n] = stored[n])
      BY <1>2 DEF ClearReceived, Received, Absent
    <2>3. Bookkeeping'
      BY <2>1, <2>2 DEF Bookkeeping, Received, server
    <2>4. NoNoteLost'
      <3> SUFFICES ASSUME NEW n \in Notes, capture[n] # Nothing, stored'[n].state = "absent"
                   PROVE  \E i \in Prior(n) : observed[i].payload = capture[n].payload
        BY <2>1 DEF NoNoteLost, Prior, server
      <3>1. CASE Received(n)
        BY <3>1 DEF Bookkeeping, ReceiptsBacked, Prior
      <3>2. CASE ~Received(n)
        BY <3>2, <2>2 DEF NoNoteLost
      <3> QED BY <3>1, <3>2
    <2>5. RecordedOnce' /\ ReceiptsBacked'
      BY <2>1, <2>2 DEF RecordedOnce, ReceiptsBacked, Confirms, server
    <2> QED BY <1>0, <2>3, <2>4, <2>5
  <1>3. ASSUME NEW t \in Tabs, Load(t) \/ Sync(t) \/ Close(t) PROVE Custody'
    <2>1. UNCHANGED <<server, capture, stored, network, sent>>
      BY <1>3 DEF Load, Sync, Close
    <2>2. \A s \in Tabs : /\ s # t => tab'[s] = tab[s]
                          /\ tab'[t].at \in {"idle", "ready"}
                         /\ \A n \in tab'[t].queue : capture[n] # Nothing
      <3>1. \A s \in Tabs : s # t => tab'[s] = tab[s]
        BY <1>3 DEF Load, Sync, Close, TypeOK
      <3>2. tab'[t].at \in {"idle", "ready"} /\ \A n \in tab'[t].queue : capture[n] # Nothing
        <4>1. CASE Load(t)
          BY <4>1 DEF Load, TypeOK, Tab, Bookkeeping
        <4>2. CASE Sync(t)
          BY <4>2 DEF Sync, TypeOK, Tab, Bookkeeping
        <4>3. CASE Close(t)
          BY <4>3 DEF Close, Closed, TypeOK
        <4> QED BY <1>3, <4>1, <4>2, <4>3
      <3> QED BY <3>1, <3>2
    <2> QED BY <1>0, <2>1, <2>2 DEF Bookkeeping, NoNoteLost, RecordedOnce, ReceiptsBacked,
                                     Received, Confirms, Prior, server
  <1>4. ASSUME NEW t \in Tabs, Settle(t) PROVE Custody'
    <2>1. tab[t].note \in Notes /\ tab[t].answer \in Nat /\ tab[t].answer \in 0..Len(observed)
      BY <1>4 DEF Settle, TypeOK, Tab, Bookkeeping
    <2>2. Pending \in Item /\ [state |-> "received", receipt |-> tab[t].answer] \in Item
      BY <2>1 DEF Pending, Item
    <2>3. CASE Confirms(tab[t].note, tab[t].answer)
      <3>1. tab[t].answer \in DOMAIN observed
        BY <2>1, <2>3 DEF Confirms, TypeOK
      <3> QED BY <1>0, <1>4, <2>2, <2>3, <3>1, SaveStep DEF Settle, Backed
    <2>4. CASE ~Confirms(tab[t].note, tab[t].answer)
      BY <1>0, <1>4, <2>2, <2>4, SaveStep DEF Settle, Backed
    <2> QED BY <2>3, <2>4
  <1>5. ASSUME NEW t \in Tabs, LoseAnswer(t) PROVE Custody'
    <2>1. Pending \in Item
      BY DEF Pending, Item
    <2> QED BY <1>0, <1>5, <2>1, SaveStep DEF LoseAnswer, Backed
  <1>6. ASSUME NEW t \in Tabs, NEW n \in Notes, Send(t, n) PROVE Custody'
    <2>1. UNCHANGED <<server, capture, stored>>
      BY <1>6 DEF Send
    <2>2. \A s \in Tabs : s # t => tab'[s] = tab[s] /\ tab[s].id # sent + 1
      BY <1>6 DEF Send, TypeOK, Tab
    <2>3. /\ tab'[t].at = "waiting" /\ tab'[t].note = n /\ tab'[t].id = sent + 1
          /\ tab'[t].queue = tab[t].queue /\ capture[n] # Nothing
      BY <1>6 DEF Send, TypeOK, Tab, Bookkeeping
    <2>4. \A r \in network' : \/ r \in network /\ r.id # sent + 1
                              \/ r.id = sent + 1 /\ r.payload = capture[n].payload
      <3>1. \A r \in network : r.id \in Nat /\ r.id <= sent /\ sent \in Nat
        BY DEF TypeOK, Request
      <3>2. network' = network \cup {[id |-> sent + 1, key |-> n, payload |-> capture[n].payload]}
        BY <1>6 DEF Send
      <3> QED BY <3>1, <3>2
    <2>5. Bookkeeping'
      BY <2>1, <2>2, <2>3, <2>4 DEF Bookkeeping, Received, server
    <2> QED BY <1>0, <2>1, <2>2, <2>3, <2>5
            DEF NoNoteLost, RecordedOnce, ReceiptsBacked, Received, Confirms, Prior, server
  <1>7. ASSUME NEW n \in Notes, NEW text \in Texts, NEW k \in Keys, Repeat(n, text, k)
        PROVE Custody'
    <2>1. UNCHANGED <<server, device>>
      BY <1>7 DEF Repeat
    <2>2. \A r \in network' : r \in network \/ r.id = sent + 1
      BY <1>7 DEF Repeat
    <2>3. \A t \in Tabs : tab[t].id # sent + 1
      BY DEF TypeOK, Tab
    <2>4. Bookkeeping'
      BY <2>1, <2>2, <2>3 DEF Bookkeeping, Received, server, device
    <2> QED BY <1>0, <2>1, <2>4
            DEF NoNoteLost, RecordedOnce, ReceiptsBacked, Received, Confirms, Prior, server, device
  <1>8. ASSUME NEW t \in Tabs, NEW n \in Notes, NEW text \in Texts, NEW linked \in BOOLEAN,
               Capture(t, n, text, linked) PROVE Custody'
    <2>1. UNCHANGED <<server, tab, network, sent>>
      BY <1>8 DEF Capture
    <2>2. capture[n] = Nothing /\ stored[n].state = "absent"
      BY <1>8 DEF Capture, Bookkeeping
    <2>3. capture'[n] # Nothing /\ capture'[n].payload.op = n /\ stored'[n].state = "pending"
      BY <1>8 DEF Capture, TypeOK, Used, Nothing, Pending
    <2>4. \A m \in Notes : m # n => capture'[m] = capture[m] /\ stored'[m] = stored[m]
      BY <1>8 DEF Capture, TypeOK
    <2>5. tab \in [Tabs -> Tab]
      BY DEF TypeOK
    <2>6. tab' = tab /\ network' = network /\ observed' = observed /\ receipt' = receipt
      BY <2>1 DEF server
    <2>7. \A u \in Tabs : tab[u].at \in {"waiting", "answered"} => capture[tab[u].note] # Nothing
      BY DEF Bookkeeping
    <2>8. \A u \in Tabs : tab[u].at \in {"waiting", "answered"} =>
            capture'[tab[u].note] = capture[tab[u].note]
      <3>1. \A u \in Tabs : tab[u].note \in Notes
        BY <2>5 DEF Tab
      <3> QED BY <2>2, <2>4, <2>7, <3>1
    <2>9. Bookkeeping'
      <3>1. \A m \in Notes : stored'[m].state # "absent" => capture'[m] # Nothing
        BY <2>3, <2>4 DEF Bookkeeping
      <3>2. \A m \in Notes : capture'[m] # Nothing => capture'[m].payload.op = m
        BY <2>3, <2>4 DEF Bookkeeping
      <3>3. \A m \in Notes : Received(m)' => stored'[m].receipt \in DOMAIN observed'
        BY <2>3, <2>4, <2>6 DEF Bookkeeping, Received
      <3>4. \A u \in Tabs : \A m \in tab[u].queue : m \in Notes /\ capture[m] # Nothing
        BY <2>5 DEF Bookkeeping, Tab
      <3>5. \A u \in Tabs : \A m \in tab'[u].queue : capture'[m] # Nothing
        BY <2>3, <2>4, <2>6, <3>4
      <3>6. \A u \in Tabs : tab'[u].at \in {"waiting", "answered"} => capture'[tab'[u].note] # Nothing
        BY <2>6, <2>7, <2>8
      <3>7. \A u \in Tabs : tab'[u].at = "answered" => tab'[u].answer \in 0..Len(observed')
        BY <2>6 DEF Bookkeeping
      <3>8. \A u \in Tabs : tab'[u].at = "waiting" =>
              \A r \in network' : r.id = tab'[u].id => r.payload = capture'[tab'[u].note].payload
        BY <2>6, <2>8 DEF Bookkeeping
      <3> QED BY <3>1, <3>2, <3>3, <3>5, <3>6, <3>7, <3>8 DEF Bookkeeping
    <2>10. NoNoteLost' /\ RecordedOnce'
      BY <2>1, <2>3, <2>4 DEF NoNoteLost, RecordedOnce, Prior, server
    <2>11. ReceiptsBacked'
      <3>1. \A m \in Notes : Received(m)' => observed'[stored'[m].receipt].payload = capture'[m].payload
        BY <2>3, <2>4, <2>6 DEF ReceiptsBacked, Received
      <3>2. \A u \in Tabs : tab[u].at = "answered" /\ tab[u].answer # 0 =>
              observed[tab[u].answer].payload = capture[tab[u].note].payload
        BY DEF ReceiptsBacked, Confirms
      <3>3. \A u \in Tabs : tab'[u].at = "answered" /\ tab'[u].answer # 0 =>
              observed'[tab'[u].answer].payload = capture'[tab'[u].note].payload
        BY <2>6, <2>8, <3>2
      <3>4. \A k \in Keys : receipt'[k] # Nothing =>
              \E i \in DOMAIN observed' : observed'[i].payload = receipt'[k].payload
        BY <2>6 DEF ReceiptsBacked
      <3> QED BY <3>1, <3>3, <3>4 DEF ReceiptsBacked, Confirms
    <2> QED BY <1>0, <2>9, <2>10, <2>11
  <1>9. ASSUME NEW r \in network, Serve(r) PROVE Custody'
    <2>1. r \in Request /\ r.key \in Keys /\ r.payload \in Payload
      BY DEF TypeOK, Request
    <2>2. CASE Refuse(r)
      <3>1. UNCHANGED <<observed, receipt>> /\ Answer(r, 0)
        BY <2>2 DEF Refuse
      <3>2. observed \in Seq(Observed)
        BY DEF TypeOK
      <3> QED BY <1>0, <3>1, <3>2, AnswerStep
              DEF RecordedOnce, ReceiptsBacked, Confirms
    <2>3. CASE Replay(r)
      <3>1. PICK i \in Prior(r.payload.op) : observed[i].payload = r.payload /\ Answer(r, i)
        BY <2>3 DEF Replay
      <3>2. observed' = observed /\ receipt' = [receipt EXCEPT ![r.key] = Used(r.payload)]
        BY <2>3 DEF Replay
      <3>3. i \in Nat /\ i \in DOMAIN observed /\ observed \in Seq(Observed)
        BY DEF Prior, TypeOK
      <3>4. \A k \in Keys : receipt'[k] = receipt[k] \/ receipt'[k].payload = observed[i].payload
        BY <3>1, <3>2 DEF TypeOK, Used
      <3> QED BY <1>0, <3>1, <3>2, <3>3, <3>4, AnswerStep
              DEF RecordedOnce, ReceiptsBacked, Confirms
    <2>4. CASE Record(r)
      <3> DEFINE i == Len(observed) + 1
      <3>1. Answer(r, i) /\ i \in Nat /\ Prior(r.payload.op) = {}
        BY <2>4 DEF Record, Fresh, TypeOK
      <3>2. /\ DOMAIN observed' = 1..i
            /\ \A j \in DOMAIN observed : observed'[j] = observed[j]
            /\ observed'[i].payload = r.payload
        BY <2>4 DEF Record, TypeOK
      <3>3. observed' \in Seq(Observed)
        BY <1>0 DEF TypeOK
      <3>4. receipt' = [receipt EXCEPT ![r.key] = Used(r.payload)]
        BY <2>4 DEF Record
      <3>5. \A k \in Keys : receipt'[k] = receipt[k] \/ receipt'[k].payload = r.payload
        BY <3>4 DEF TypeOK, Used
      <3>6. \A j \in DOMAIN observed : j \in DOMAIN observed' /\ observed'[j] = observed[j]
        BY <3>2 DEF TypeOK
      <3>7. RecordedOnce'
        BY <3>1, <3>2, <3>6 DEF RecordedOnce, Prior, TypeOK
      <3>8. i # 0 => i \in DOMAIN observed' /\ observed'[i].payload = r.payload
        BY <3>1, <3>2
      <3>9. i \in DOMAIN observed' /\ observed'[i].payload = r.payload
        BY <3>1, <3>2
      <3> HIDE DEF i
      <3>10. /\ Bookkeeping' /\ NoNoteLost'
             /\ \A n \in Notes : Received(n)' =>
                  observed'[stored'[n].receipt].payload = capture'[n].payload
             /\ \A t \in Tabs : tab'[t].at = "answered" /\ tab'[t].answer # 0 =>
                  observed'[tab'[t].answer].payload = capture'[tab'[t].note].payload
        BY <3>1, <3>3, <3>6, <3>8, AnswerStep
      <3>11. \A k \in Keys : receipt'[k] # Nothing =>
               \E j \in DOMAIN observed' : observed'[j].payload = receipt'[k].payload
        BY <3>5, <3>6, <3>9 DEF ReceiptsBacked
      <3>12. ReceiptsBacked'
        BY <3>10, <3>11, <3>9 DEF ReceiptsBacked, Confirms
      <3> QED BY <1>0, <3>7, <3>10, <3>12
    <2> QED BY <1>9, <2>2, <2>3, <2>4 DEF Serve
  <1> QED BY <1>1, <1>2, <1>3, <1>4, <1>5, <1>6, <1>7, <1>8, <1>9 DEF Next

\* For any notes, tabs, keys and requests: a captured note is on the device or
\* with the server (field-note-queue.ts).
THEOREM NotesStaySafe == Spec => []NoNoteLost
  <1>1. Init => Custody
    BY InitCustody
  <1>2. Custody /\ [Next]_vars => Custody'
    BY CustodyStep
  <1>3. Custody => NoNoteLost
    BY DEF Custody
  <1> QED BY <1>1, <1>2, <1>3, PTL DEF Spec

\* For any clients and keys, an operation id is observed once
\* (field-observations.service.ts create).
THEOREM NotesRecordedOnce == Spec => []RecordedOnce
  <1>1. Init => Custody
    BY InitCustody
  <1>2. Custody /\ [Next]_vars => Custody'
    BY CustodyStep
  <1>3. Custody => RecordedOnce
    BY DEF Custody
  <1> QED BY <1>1, <1>2, <1>3, PTL DEF Spec

\* Every receipt is backed by the observation it describes
\* (FIELD_RECEIPT_INCONSISTENT never happens).
THEOREM ReceiptsStayBacked == Spec => []ReceiptsBacked
  <1>1. Init => Custody
    BY InitCustody
  <1>2. Custody /\ [Next]_vars => Custody'
    BY CustodyStep
  <1>3. Custody => ReceiptsBacked
    BY DEF Custody
  <1> QED BY <1>1, <1>2, <1>3, PTL DEF Spec

\* Nothing the browser and the server exchange loses its shape.
THEOREM NotesTyped == Spec => []TypeOK
  <1>1. Init => Custody
    BY InitCustody
  <1>2. Custody /\ [Next]_vars => Custody'
    BY CustodyStep
  <1>3. Custody => TypeOK
    BY DEF Custody
  <1> QED BY <1>1, <1>2, <1>3, PTL DEF Spec

-----------------------------------------------------------------------------
\* Late errors and late answers.  A tab that learns late what became of a note
\* confirms the one observation the note's receipt already names.
THEOREM ReceiptsNeverDowngraded == Spec => NeverDowngraded
  <1> DEFINE Kept == \A n \in Notes : Received(n) => stored'[n] \in {stored[n], Absent}
  <1>1. Init => Custody
    BY InitCustody
  <1>2. Custody /\ [Next]_vars => Custody'
    BY CustodyStep
  <1>3. Custody /\ [Next]_vars => [Kept]_vars
    <2> SUFFICES ASSUME Custody, [Next]_vars, NEW n \in Notes, Received(n)
                 PROVE  stored'[n] \in {stored[n], Absent}
      OBVIOUS
    <2> USE DEF Custody
    <2>1. CASE UNCHANGED stored
      BY <2>1
    <2>2. CASE ClearReceived
      BY <2>2 DEF ClearReceived
    <2>3. ASSUME NEW t \in Tabs, LoseAnswer(t)
          PROVE  stored'[n] \in {stored[n], Absent}
      BY <2>3 DEF LoseAnswer, Saved, Received, TypeOK
    <2>4. ASSUME NEW t \in Tabs, Settle(t)
          PROVE  stored'[n] \in {stored[n], Absent}
      <3> DEFINE i == tab[t].answer
      <3>1. tab[t] \in Tab
        BY DEF TypeOK
      <3>2. CASE n # tab[t].note \/ ~Confirms(tab[t].note, i)
        BY <2>4, <3>2 DEF Settle, Saved, Received, TypeOK
      <3>3. CASE n = tab[t].note /\ Confirms(n, i)
        <4>1. i \in DOMAIN observed /\ observed[i].payload = capture[n].payload
          <5>1. i \in 0..Len(observed)
            BY <2>4 DEF Settle, Bookkeeping
          <5>2. i # 0 /\ observed[i].payload = capture[n].payload
            BY <3>3 DEF Confirms
          <5>3. QED
            BY <5>1, <5>2 DEF TypeOK
        <4>2. /\ stored[n].receipt \in DOMAIN observed
              /\ observed[stored[n].receipt].payload = capture[n].payload
          BY DEF Bookkeeping, ReceiptsBacked
        <4>3. stored[n].receipt = i
          BY <4>1, <4>2 DEF RecordedOnce
        <4>4. stored[n] = [state |-> "received", receipt |-> i]
          <5>1. stored[n] \in Item /\ stored[n].state = "received"
            BY DEF TypeOK, Received
          <5>2. QED
            BY <4>3, <5>1 DEF Item
        <4>5. stored' = Saved(n, [state |-> "received", receipt |-> i])
          BY <2>4, <3>3 DEF Settle
        <4>6. stored'[n] = stored[n]
          BY <4>4, <4>5 DEF Saved, TypeOK
        <4>7. QED
          BY <4>6
      <3>4. QED
        BY <3>2, <3>3
    <2>5. ASSUME NEW t \in Tabs, NEW m \in Notes, NEW text \in Texts,
                 NEW linked \in BOOLEAN, Capture(t, m, text, linked)
          PROVE  stored'[n] \in {stored[n], Absent}
      <3>1. capture[n] # Nothing
        BY DEF Bookkeeping, Received
      <3>2. m # n
        BY <2>5, <3>1 DEF Capture
      <3>3. QED
        BY <2>5, <3>2 DEF Capture, TypeOK
    <2>6. ASSUME NEW r \in network, Serve(r) PROVE UNCHANGED stored
      BY <2>6 DEF Serve, Refuse, Replay, Record, Answer
    <2>7. QED
      BY <2>1, <2>2, <2>3, <2>4, <2>5, <2>6
         DEF Next, ChangeTask, ChangeGrant, Load, Sync, Close, Send, Repeat, device, vars
  <1>4. QED
    BY <1>1, <1>2, <1>3, PTL DEF Spec, NeverDowngraded

-----------------------------------------------------------------------------
\* Conflicts.  A task as it was seen once is older than the task there is, or it
\* is that task, since each change of it makes a version.
Seen(base) == base.version <= task.version /\ (base.version = task.version => base = task)

TasksSeen ==
  /\ \A t \in Tabs : Seen(tab[t].view)
  /\ \A n \in Notes : capture[n] # Nothing => Seen(capture[n].payload.base)
  /\ \A r \in network : Seen(r.payload.base)

ConflictInv == Custody /\ TasksSeen /\ ConflictTold

\* What was seen of the task stays seen when the task changes.
StillSeen(base) ==
  base.version <= task'.version /\ (base.version = task'.version => base = task')

LEMMA StaysSeen ==
  ASSUME TypeOK, NEW base \in Task, Seen(base),
         task' = task \/ task'.version = task.version + 1
  PROVE  StillSeen(base)
  <1>1. base.version \in Nat /\ task.version \in Nat
    BY BoundAssumption DEF TypeOK, Task
  <1> QED BY <1>1 DEF Seen, StillSeen

LEMMA StepSeen ==
  ASSUME Custody, TasksSeen, [Next]_vars
  PROVE  TasksSeen'
  <1> USE DEF Custody
  <1>1. task' = task \/ task'.version = task.version + 1
    <2>1. CASE Reforecast
      BY <2>1 DEF Reforecast, TypeOK, Task
    <2>2. CASE Complete
      BY <2>2 DEF Complete, TypeOK, Task
    <2>3. CASE UNCHANGED task
      BY <2>3
    <2> QED BY <2>1, <2>2, <2>3 DEF Next, ChangeTask, ChangeGrant, ClearReceived, Load, Sync,
            Settle, LoseAnswer, Close, Send, Capture, Repeat, Serve, Refuse, Replay, Record,
            Answer, server, vars
  <1>2. /\ task \in Task /\ Seen(task)
        /\ \A t \in Tabs : tab[t].view \in Task /\ Seen(tab[t].view)
        /\ \A n \in Notes : capture[n] # Nothing =>
             capture[n].payload.base \in Task /\ Seen(capture[n].payload.base)
        /\ \A r \in network : r.payload.base \in Task /\ Seen(r.payload.base)
    <2>1. task \in Task /\ Seen(task)
      BY BoundAssumption DEF TypeOK, Task, Seen
    <2>2. \A t \in Tabs : tab[t].view \in Task
      BY DEF TypeOK, Tab
    <2>3. \A n \in Notes : capture[n] # Nothing => capture[n].payload.base \in Task
      BY DEF TypeOK, Use, Payload
    <2>4. \A r \in network : r.payload.base \in Task
      BY DEF TypeOK, Request, Payload
    <2> QED BY <2>1, <2>2, <2>3, <2>4 DEF TasksSeen
  <1>3. \A t \in Tabs : StillSeen(tab'[t].view)
    <2> SUFFICES ASSUME NEW t \in Tabs PROVE StillSeen(tab'[t].view)
      OBVIOUS
    <2>1. tab'[t].view \in {tab[t].view, task}
      <3>1. tab[t] \in Tab
        BY DEF TypeOK
      <3>2. CASE UNCHANGED tab
        BY <3>2
      <3>3. ASSUME NEW s \in Tabs, Load(s) PROVE tab'[t].view \in {tab[t].view, task}
        BY <3>1, <3>3 DEF Load, TypeOK, Tab
      <3>4. ASSUME NEW s \in Tabs, Sync(s) PROVE tab'[t].view = tab[t].view
        BY <3>1, <3>4 DEF Sync, TypeOK, Tab
      <3>5. ASSUME NEW s \in Tabs, tab' = Advance(s) PROVE tab'[t].view = tab[t].view
        BY <3>1, <3>5 DEF Advance, TypeOK, Tab
      <3>6. ASSUME NEW s \in Tabs, Close(s) PROVE tab'[t].view = tab[t].view
        BY <3>1, <3>6 DEF Close, Closed, TypeOK, Tab
      <3>7. ASSUME NEW s \in Tabs, NEW n \in Notes, Send(s, n) PROVE tab'[t].view = tab[t].view
        BY <3>1, <3>7 DEF Send, TypeOK, Tab
      <3>8. ASSUME NEW r \in network, Serve(r) PROVE tab'[t].view = tab[t].view
        <4>1. \E i : Answer(r, i)
          BY <3>8 DEF Serve, Refuse, Replay, Record
        <4> QED BY <3>1, <4>1 DEF Answer, Tab
      <3> QED BY <3>2, <3>3, <3>4, <3>5, <3>6, <3>7, <3>8 DEF Next, ChangeTask, ChangeGrant,
              ClearReceived, Settle, LoseAnswer, Capture, Repeat, device, vars
    <2>2. PICK base \in Task : base = tab'[t].view /\ Seen(base)
      BY <1>2, <2>1
    <2>3. StillSeen(base)
      BY <1>1, <2>2, StaysSeen
    <2> QED BY <2>2, <2>3
  <1>4. \A n \in Notes : capture'[n] # Nothing => StillSeen(capture'[n].payload.base)
    <2> SUFFICES ASSUME NEW n \in Notes, capture'[n] # Nothing
                 PROVE  StillSeen(capture'[n].payload.base)
      OBVIOUS
    <2>1. \/ capture'[n] = capture[n]
          \/ \E t \in Tabs : capture'[n].payload.base = tab[t].view
      <3>1. CASE UNCHANGED capture
        BY <3>1
      <3>2. ASSUME NEW t \in Tabs, NEW m \in Notes, NEW text \in Texts,
                   NEW linked \in BOOLEAN, Capture(t, m, text, linked)
            PROVE  \/ capture'[n] = capture[n]
                   \/ capture'[n].payload.base = tab[t].view
        BY <3>2 DEF Capture, TypeOK, Used
      <3> QED BY <3>1, <3>2 DEF Next, ChangeTask, ChangeGrant, ClearReceived, Load, Sync,
              Settle, LoseAnswer, Close, Send, Repeat, Serve, Refuse, Replay, Record,
              Answer, device, vars
    <2>2. PICK base \in Task : base = capture'[n].payload.base /\ Seen(base)
      BY <1>2, <2>1
    <2>3. StillSeen(base)
      BY <1>1, <2>2, StaysSeen
    <2> QED BY <2>2, <2>3
  <1>5. \A r \in network' : StillSeen(r.payload.base)
    <2> SUFFICES ASSUME NEW r \in network' PROVE StillSeen(r.payload.base)
      OBVIOUS
    <2>1. \/ r \in network
          \/ \E n \in Notes : capture[n] # Nothing /\ r.payload.base = capture[n].payload.base
      <3>1. CASE network' \subseteq network
        BY <3>1
      <3>2. ASSUME NEW t \in Tabs, NEW n \in Notes, Send(t, n)
            PROVE  \/ r \in network
                   \/ capture[n] # Nothing /\ r.payload.base = capture[n].payload.base
        BY <3>2 DEF Send, Bookkeeping
      <3>3. ASSUME NEW n \in Notes, NEW text \in Texts, NEW k \in Keys, Repeat(n, text, k)
            PROVE  \/ r \in network
                   \/ capture[n] # Nothing /\ r.payload.base = capture[n].payload.base
        <4>1. capture[n] # Nothing /\ capture[n].payload \in Payload
          BY <3>3 DEF Repeat, TypeOK, Use
        <4> DEFINE p == [capture[n].payload EXCEPT !.text = text]
        <4>2. p.base = capture[n].payload.base
          BY <4>1 DEF Payload
        <4>3. network' = network \cup {[id |-> sent', key |-> k, payload |-> p]}
          BY <3>3 DEF Repeat
        <4> HIDE DEF p
        <4> QED BY <4>1, <4>2, <4>3
      <3>4. ASSUME NEW q \in network, Serve(q) PROVE network' \subseteq network
        BY <3>4 DEF Serve, Refuse, Replay, Record, Answer
      <3>5. \/ network' \subseteq network
            \/ \E t \in Tabs, n \in Notes : Send(t, n)
            \/ \E n \in Notes, text \in Texts, k \in Keys : Repeat(n, text, k)
        BY <3>4 DEF Next, ChangeTask, ChangeGrant, ClearReceived, Load, Sync, Settle,
                    LoseAnswer, Close, Capture, vars
      <3> QED BY <3>1, <3>2, <3>3, <3>5
    <2>2. PICK base \in Task : base = r.payload.base /\ Seen(base)
      BY <1>2, <2>1
    <2>3. StillSeen(base)
      BY <1>1, <2>2, StaysSeen
    <2> QED BY <2>2, <2>3
  <1> QED BY <1>3, <1>4, <1>5 DEF TasksSeen, Seen, StillSeen

LEMMA StepConflict ==
  ASSUME ConflictInv, [Next]_vars
  PROVE  ConflictTold'
  <1> USE DEF ConflictInv, Custody
  <1>1. CASE UNCHANGED observed
    BY <1>1 DEF ConflictTold
  <1>2. ASSUME NEW r \in network, Record(r)
        PROVE  ConflictTold'
    <2> DEFINE row == [payload |-> r.payload, found |-> task,
                       conflict |-> r.payload.linked /\ r.payload.base.version # task.version]
    <2>1. observed' = Append(observed, row)
      BY <1>2 DEF Record
    <2>2. Seen(r.payload.base)
      BY DEF TasksSeen
    <2>3. row.payload.linked => (row.conflict <=> row.payload.base # row.found)
      BY <2>2 DEF Seen
    <2> HIDE DEF row
    <2>4. \A i \in DOMAIN observed' : \/ i \in DOMAIN observed /\ observed'[i] = observed[i]
                                      \/ observed'[i] = row
      BY <2>1 DEF TypeOK
    <2> QED BY <2>3, <2>4 DEF ConflictTold
  <1> QED BY <1>1, <1>2 DEF Next, ChangeTask, ChangeGrant, ClearReceived, Load, Sync,
          Settle, LoseAnswer, Close, Send, Capture, Repeat, Serve, Refuse, Replay, server, vars

\* An observation of a linked task is marked as a conflict exactly if the task
\* is not the one the worker looked at.
THEOREM ConflictsAreTold == Spec => []ConflictTold
  <1>1. Init => ConflictInv
    <2> SUFFICES ASSUME Init PROVE TasksSeen /\ ConflictTold
      BY InitCustody DEF ConflictInv
    <2>1. TasksSeen
      <3>1. Seen(Created)
        BY DEF Init, Seen, Created
      <3>2. \A t \in Tabs : tab[t].view = Created
        BY DEF Init, Closed
      <3>3. (\A n \in Notes : capture[n] = Nothing) /\ network = {}
        BY DEF Init
      <3> QED BY <3>1, <3>2, <3>3 DEF TasksSeen
    <2>2. ConflictTold
      BY DEF Init, ConflictTold
    <2> QED BY <2>1, <2>2
  <1>2. ConflictInv /\ [Next]_vars => ConflictInv'
    BY CustodyStep, StepSeen, StepConflict DEF ConflictInv
  <1>3. ConflictInv => ConflictTold
    BY DEF ConflictInv
  <1> QED BY <1>1, <1>2, <1>3, PTL DEF Spec

-----------------------------------------------------------------------------
(* The browser, the network and the API together keep the custody of notes. *)

\* What is on its way is a note as it was captured, or in another client's words.
Reworded(p) ==
  /\ capture[p.op] # Nothing
  /\ \E text \in Texts : p = [capture[p.op].payload EXCEPT !.text = text]

Requested == \A r \in network : Reworded(r.payload)

\* Only a received note names a receipt.
Plain == \A n \in Notes : stored[n].state # "received" => stored[n] \in {Absent, Pending}

CustodyInv == Custody /\ Requested /\ Plain

\* A captured note is worded as it was captured, and can be reworded.
LEMMA CapturedIsReworded ==
  ASSUME Custody, NEW n \in Notes, capture[n] # Nothing, NEW text \in Texts
  PROVE  /\ capture[n].payload \in Payload
         /\ Reworded(capture[n].payload)
         /\ Reworded([capture[n].payload EXCEPT !.text = text])
  <1>1. capture[n].payload \in Payload /\ capture[n].payload.op = n
    BY DEF Custody, TypeOK, Bookkeeping, Use
  <1>2. PICK p : p = capture[n].payload
    OBVIOUS
  <1>3. p \in Payload /\ p.op = n /\ p.text \in Texts
    BY <1>1, <1>2 DEF Payload
  <1>4. p = [p EXCEPT !.text = p.text]
    BY <1>3 DEF Payload
  <1>5. [p EXCEPT !.text = text].op = n
    BY <1>3 DEF Payload
  <1>6. Reworded(p)
    BY <1>2, <1>3, <1>4 DEF Reworded
  <1>7. Reworded([p EXCEPT !.text = text])
    BY <1>2, <1>5 DEF Reworded
  <1> QED BY <1>1, <1>2, <1>6, <1>7

\* Only senders put requests on the network, and captured words stay.
LEMMA RequestedStep ==
  ASSUME CustodyInv, [Next]_vars
  PROVE  Requested'
  <1>1. ASSUME UNCHANGED capture, \A r \in network' : r \in network \/ Reworded(r.payload)
        PROVE  Requested'
    BY <1>1 DEF CustodyInv, Requested, Reworded
  <1>2. ASSUME NEW t \in Tabs, NEW n \in Notes, Send(t, n) PROVE Requested'
    <2>1. capture[n] # Nothing
      BY <1>2 DEF Send, CustodyInv, Custody, Bookkeeping
    <2>2. PICK r : r = [id |-> sent', key |-> n, payload |-> capture[n].payload]
      OBVIOUS
    <2>3. network' = network \cup {r} /\ UNCHANGED capture
      BY <1>2, <2>2 DEF Send
    <2>4. capture[n].payload.text \in Texts
      BY <2>1 DEF CustodyInv, Custody, TypeOK, Use, Payload
    <2>5. Reworded(capture[n].payload)
      BY <2>1, <2>4, CapturedIsReworded DEF CustodyInv
    <2>6. Reworded(r.payload)
      BY <2>2, <2>5
    <2> QED BY <1>1, <2>3, <2>6
  <1>3. ASSUME NEW n \in Notes, NEW text \in Texts, NEW k \in Keys, Repeat(n, text, k)
        PROVE  Requested'
    <2>1. PICK p : p = [capture[n].payload EXCEPT !.text = text]
      OBVIOUS
    <2>2. PICK r : r = [id |-> sent', key |-> k, payload |-> p]
      OBVIOUS
    <2>3. network' = network \cup {r} /\ UNCHANGED capture
      BY <1>3, <2>1, <2>2 DEF Repeat, device
    <2>4. Reworded(p)
      BY <1>3, <2>1, CapturedIsReworded DEF Repeat, CustodyInv
    <2>5. Reworded(r.payload)
      BY <2>2, <2>4
    <2> QED BY <1>1, <2>3, <2>5
  <1>4. ASSUME NEW t \in Tabs, NEW n \in Notes, NEW text \in Texts, NEW linked \in BOOLEAN,
               Capture(t, n, text, linked)
        PROVE  Requested'
    <2>1. capture[n] = Nothing /\ network' = network
      BY <1>4 DEF Capture
    <2>2. \A m \in Notes : capture[m] # Nothing => capture'[m] = capture[m]
      BY <1>4, <2>1 DEF Capture, CustodyInv, Custody, TypeOK
    <2>3. \A r \in network : r.payload.op \in Notes
      BY DEF CustodyInv, Custody, TypeOK, Request, Payload
    <2> QED BY <2>1, <2>2, <2>3 DEF CustodyInv, Requested, Reworded
  <1>5. ASSUME NEW r \in network, Serve(r) PROVE Requested'
    <2>1. network' \subseteq network /\ UNCHANGED capture
      BY <1>5 DEF Serve, Refuse, Replay, Record, Answer
    <2> QED BY <1>1, <2>1
  <1>6. ASSUME UNCHANGED <<capture, network>> PROVE Requested'
    BY <1>1, <1>6
  <1>7. ASSUME NEW t \in Tabs, Load(t) \/ Sync(t) \/ Settle(t) \/ LoseAnswer(t) \/ Close(t)
        PROVE  Requested'
    BY <1>6, <1>7 DEF Load, Sync, Settle, LoseAnswer, Close
  <1>8. CASE ChangeTask \/ ChangeGrant \/ ClearReceived \/ UNCHANGED vars
    BY <1>6, <1>8 DEF ChangeTask, ChangeGrant, ClearReceived, vars, device
  <1> QED BY <1>2, <1>3, <1>4, <1>5, <1>7, <1>8 DEF Next

LEMMA PlainStep ==
  ASSUME CustodyInv, [Next]_vars
  PROVE  Plain'
  <1> USE DEF CustodyInv, Custody, TypeOK
  <1>1. ASSUME UNCHANGED stored PROVE Plain'
    BY <1>1 DEF Plain
  <1>2. ASSUME NEW n \in Notes, NEW item, stored' = Saved(n, item),
               item = Pending \/ item.state = "received"
        PROVE  Plain'
    <2>1. \A m \in Notes : stored'[m] = stored[m] \/ stored'[m] = item
      <3>1. CASE stored' = stored
        BY <3>1
      <3>2. CASE stored' = [stored EXCEPT ![n] = item]
        BY <3>2
      <3> QED BY <1>2, <3>1, <3>2 DEF Saved
    <2> QED BY <1>2, <2>1 DEF Plain
  <1>3. ASSUME NEW t \in Tabs, Settle(t) PROVE Plain'
    <2>1. PICK item : /\ stored' = Saved(tab[t].note, item)
                      /\ item = Pending \/ item.state = "received"
      BY <1>3 DEF Settle
    <2>2. tab[t].note \in Notes
      BY DEF Tab
    <2> QED BY <1>2, <2>1, <2>2
  <1>4. ASSUME NEW t \in Tabs, LoseAnswer(t) PROVE Plain'
    <2>1. tab[t].note \in Notes
      BY DEF Tab
    <2> QED BY <1>2, <1>4, <2>1 DEF LoseAnswer
  <1>5. ASSUME NEW t \in Tabs, NEW n \in Notes, NEW text \in Texts, NEW linked \in BOOLEAN,
               Capture(t, n, text, linked)
        PROVE  Plain'
    BY <1>5 DEF Capture, Plain
  <1>6. CASE ClearReceived
    BY <1>6 DEF ClearReceived, Received, Plain
  <1>7. ASSUME NEW r \in network, Serve(r) PROVE UNCHANGED stored
    BY <1>7 DEF Serve, Refuse, Replay, Record, Answer
  <1>8. ASSUME NEW t \in Tabs, Load(t) \/ Sync(t) \/ Close(t) PROVE UNCHANGED stored
    BY <1>8 DEF Load, Sync, Close
  <1>9. ASSUME NEW t \in Tabs, NEW n \in Notes, Send(t, n) PROVE UNCHANGED stored
    BY <1>9 DEF Send
  <1>10. ASSUME NEW n \in Notes, NEW text \in Texts, NEW k \in Keys, Repeat(n, text, k)
         PROVE  UNCHANGED stored
    BY <1>10 DEF Repeat, device
  <1>11. CASE ChangeTask \/ ChangeGrant \/ UNCHANGED vars
    BY <1>11 DEF ChangeTask, ChangeGrant, vars, device, Plain
  <1> QED BY <1>1, <1>3, <1>4, <1>5, <1>6, <1>7, <1>8, <1>9, <1>10, <1>11 DEF Next

LEMMA InitCustodyInv == Init => CustodyInv
BY InitCustody DEF CustodyInv, Init, Requested, Plain

LEMMA CustodyInvStep == CustodyInv /\ [Next]_vars => CustodyInv'
BY CustodyStep, RequestedStep, PlainStep DEF CustodyInv

\* The records in the order in which they were made.
Records == [i \in DOMAIN observed |-> observed[i].payload]

LEMMA RecordsAre ==
  ASSUME TypeOK
  PROVE  /\ Records \in Seq(Payload) /\ Len(Records) = Len(observed) /\ Len(observed) \in Nat
         /\ DOMAIN Records = 1..Len(observed) /\ DOMAIN observed = 1..Len(observed)
         /\ \A i \in DOMAIN observed : Records[i] = observed[i].payload
  <1>1. observed \in Seq(Observed) /\ Len(observed) \in Nat /\ DOMAIN observed = 1..Len(observed)
    BY DEF TypeOK
  <1>2. \A i \in 1..Len(observed) : observed[i] \in Observed
    BY <1>1
  <1>3. \A i \in 1..Len(observed) : observed[i].payload \in Payload
    BY <1>2 DEF Observed
  <1>4. Records \in [1..Len(observed) -> Payload]
    BY <1>1, <1>3 DEF Records
  <1>5. Records \in Seq(Payload) /\ Len(Records) = Len(observed)
    BY <1>1, <1>4
  <1>6. \A i \in DOMAIN observed : Records[i] = observed[i].payload
    BY DEF Records
  <1> QED BY <1>1, <1>4, <1>5, <1>6

\* A recorded note is one the abstract custody calls recorded.
LEMMA RecordedThere ==
  ASSUME NEW n \in Notes, capture[n] # Nothing,
         NEW i \in DOMAIN observed, observed[i].payload = capture[n].payload
  PROVE  Custodian!Recorded(n)
BY DEF Custodian!Recorded, Custodian!Unwritten, Nothing

LEMMA WriteStep ==
  ASSUME CustodyInv, NEW t \in Tabs, NEW n \in Notes, NEW text \in Texts, NEW linked \in BOOLEAN,
         Capture(t, n, text, linked)
  PROVE  Custodian!Write(n)
  <1>1. PICK p : p = [op |-> n, text |-> text, linked |-> linked, base |-> tab[t].view]
    OBVIOUS
  <1>2. /\ capture[n] = Nothing /\ UNCHANGED observed
        /\ capture' = [capture EXCEPT ![n] = Used(p)]
        /\ stored' = [stored EXCEPT ![n] = Pending]
    BY <1>1 DEF Capture, server
  <1>3. tab[t].view \in Task
    BY DEF CustodyInv, Custody, TypeOK, Tab
  <1>4. p \in Payload
    BY <1>1, <1>3 DEF Payload
  <1>5. Used(p) \in [used: {TRUE}, payload: Payload]
    BY <1>4 DEF Used
  <1>6. capture'[n] = Used(p)
    BY <1>2 DEF CustodyInv, Custody, TypeOK
  <1> QED BY <1>2, <1>5, <1>6 DEF Custodian!Write, Custodian!Unwritten, Custodian!Waiting, Nothing, Pending

LEMMA KeepStep ==
  ASSUME CustodyInv, NEW r \in network, Record(r)
  PROVE  Custodian!Keep(r.payload.op)
  <1>1. PICK p \in Payload : p = r.payload
    BY DEF CustodyInv, Custody, TypeOK, Request
  <1>2. PICK n \in Notes : n = p.op
    BY DEF Payload
  <1>3. capture[n] # Nothing /\ \E text \in Texts : p = [capture[n].payload EXCEPT !.text = text]
    BY <1>1, <1>2 DEF CustodyInv, Requested, Reworded
  <1>4. UNCHANGED <<capture, stored>> /\ Prior(n) = {}
    BY <1>1, <1>2 DEF Record, Answer, Fresh
  <1>5. PICK row : row = [payload |-> r.payload, found |-> task,
                          conflict |-> r.payload.linked /\ r.payload.base.version # task.version]
    OBVIOUS
  <1>6. observed' = Append(observed, row) /\ row.payload = p
    BY <1>1, <1>5 DEF Record
  <1>7. /\ Records \in Seq(Payload) /\ Len(Records) = Len(observed) /\ Len(observed) \in Nat
        /\ observed \in Seq(Observed)
        /\ DOMAIN Records = 1..Len(observed) /\ DOMAIN observed = 1..Len(observed)
        /\ \A i \in DOMAIN observed : Records[i] = observed[i].payload
    BY RecordsAre DEF CustodyInv, Custody, TypeOK
  <1>8. /\ DOMAIN observed' = 1..(Len(observed) + 1)
        /\ \A i \in 1..(Len(observed) + 1) :
             observed'[i] = IF i = Len(observed) + 1 THEN row ELSE observed[i]
    BY <1>6, <1>7
  <1>9. PICK longer : longer = Append(Records, p)
    OBVIOUS
  <1>10. /\ longer \in Seq(Payload) /\ Len(longer) = Len(observed) + 1
         /\ \A i \in 1..(Len(observed) + 1) :
              longer[i] = IF i = Len(observed) + 1 THEN p ELSE Records[i]
    BY <1>7, <1>9
  <1>11. \A i \in 1..(Len(observed) + 1) : observed'[i].payload = longer[i]
    <2> SUFFICES ASSUME NEW i \in 1..(Len(observed) + 1)
                 PROVE  observed'[i].payload = longer[i]
      OBVIOUS
    <2>1. CASE i = Len(observed) + 1
      BY <1>6, <1>8, <1>10, <2>1
    <2>2. CASE i # Len(observed) + 1
      <3>1. i \in DOMAIN observed
        BY <1>7, <2>2
      <3> QED BY <1>7, <1>8, <1>10, <2>2, <3>1
    <2> QED BY <2>1, <2>2
  <1>12. longer = [i \in 1..(Len(observed) + 1) |-> longer[i]]
    BY <1>7, <1>10
  <1>13. Records' = [i \in 1..(Len(observed) + 1) |-> observed'[i].payload]
    BY <1>8 DEF Records
  <1>14. Records' = Append(Records, p)
    BY <1>9, <1>11, <1>12, <1>13
  <1>15. \A i \in DOMAIN Records : Records[i].op # n
    BY <1>4, <1>7 DEF Prior
  <1>16. Custodian!Keep(n)
    BY <1>3, <1>4, <1>14, <1>15 DEF Custodian!Keep, Custodian!Unwritten, Nothing, Records
  <1> QED BY <1>1, <1>2, <1>16

\* A tab that learns what became of a note shows it as received, or as waiting if it
\* was left out meanwhile; a receipt that is there stays the one it is.
LEMMA SettledStep ==
  ASSUME CustodyInv, NEW n \in Notes, capture[n] # Nothing,
         UNCHANGED <<observed, capture>>,
         \/ stored' = Saved(n, Pending)
         \/ \E i \in DOMAIN observed : /\ observed[i].payload = capture[n].payload
                                       /\ stored' = Saved(n, [state |-> "received", receipt |-> i])
  PROVE  \/ Custodian!Receive(n) \/ Custodian!Await(n)
         \/ UNCHANGED <<capture, Records, stored>>
  <1>1. Records' = Records /\ capture' = capture
    BY DEF Records
  <1>2. capture[n] # Custodian!Unwritten
    BY DEF Custodian!Unwritten, Nothing
  <1>3. stored \in [Notes -> Item]
    BY DEF CustodyInv, Custody, TypeOK
  <1>4. CASE stored' = Saved(n, Pending)
    <2>1. CASE stored[n].state = "received"
      BY <1>1, <1>4, <2>1 DEF Saved
    <2>2. CASE stored[n] = Pending
      BY <1>1, <1>3, <1>4, <2>2 DEF Saved
    <2>3. CASE stored[n] = Absent
      <3>1. stored' = [stored EXCEPT ![n] = Pending]
        BY <1>4, <2>3 DEF Saved, Absent
      <3>2. \E i \in Prior(n) : observed[i].payload = capture[n].payload
        BY <2>3 DEF CustodyInv, Custody, NoNoteLost, Absent
      <3>3. Custodian!Recorded(n)
        BY <3>2, RecordedThere DEF Prior
      <3> QED BY <1>1, <2>3, <3>1, <3>3
              DEF Custodian!Await, Custodian!Left, Custodian!Waiting, Absent, Pending, Records
    <2> QED BY <2>1, <2>2, <2>3 DEF CustodyInv, Plain
  <1>5. ASSUME NEW i \in DOMAIN observed, observed[i].payload = capture[n].payload,
               stored' = Saved(n, [state |-> "received", receipt |-> i])
        PROVE  Custodian!Receive(n)
    <2>1. stored' = [stored EXCEPT ![n] = [state |-> "received", receipt |-> i]]
      BY <1>5 DEF Saved, Pending
    <2> QED BY <1>1, <1>2, <1>5, <2>1 DEF Custodian!Receive, Custodian!Receipt, Records
  <1> QED BY <1>4, <1>5

LEMMA ClearStep ==
  ASSUME CustodyInv, ClearReceived
  PROVE  Custodian!Clear
  <1>1. /\ stored' = [n \in Notes |-> IF stored[n].state = "received" THEN Absent ELSE stored[n]]
        /\ UNCHANGED <<capture, observed>>
    BY DEF ClearReceived, Received, server
  <1>2. ASSUME NEW n \in Notes, stored'[n] # stored[n]
        PROVE  Custodian!Recorded(n)
    <2>1. Received(n)
      BY <1>1, <1>2 DEF Received
    <2>2. /\ capture[n] # Nothing /\ stored[n].receipt \in DOMAIN observed
          /\ observed[stored[n].receipt].payload = capture[n].payload
      BY <2>1 DEF CustodyInv, Custody, Bookkeeping, ReceiptsBacked, Received
    <2> QED BY <2>2, RecordedThere
  <1> QED BY <1>1, <1>2 DEF Custodian!Clear, Custodian!Left, Absent, Records

\* Tabs, requests, keys and answers that are lost or late implement NoteCustody: a
\* note is recorded at most once and for good, and the device shows it as received
\* with its own record only, or leaves it out once it is recorded.
THEOREM NotesPromised == Spec => PromiseKept
  <1>1. Init => Custodian!Init
    BY DEF Init, Custodian!Init, Custodian!Unwritten, Custodian!Left, Nothing, Absent
  <1>2. CustodyInv /\ [Next]_vars => [Custodian!Next]_<<capture, Records, stored>>
    <2> SUFFICES ASSUME CustodyInv, [Next]_vars
                 PROVE  Custodian!Next \/ UNCHANGED <<capture, Records, stored>>
      OBVIOUS
    <2>1. CASE UNCHANGED <<capture, observed, stored>>
      BY <2>1 DEF Records
    <2>2. ASSUME NEW t \in Tabs, NEW n \in Notes, NEW text \in Texts, NEW linked \in BOOLEAN,
                 Capture(t, n, text, linked)
          PROVE  Custodian!Next
      BY <2>2, WriteStep DEF Custodian!Next
    <2>3. ASSUME NEW r \in network, Record(r) PROVE Custodian!Next
      <3>1. r.payload.op \in Notes
        BY DEF CustodyInv, Custody, TypeOK, Request, Payload
      <3> QED BY <2>3, <3>1, KeepStep DEF Custodian!Next
    <2>4. ASSUME NEW t \in Tabs, Settle(t) \/ LoseAnswer(t)
          PROVE  Custodian!Next \/ UNCHANGED <<capture, Records, stored>>
      <3>1. PICK n \in Notes : n = tab[t].note
        BY DEF CustodyInv, Custody, TypeOK, Tab
      <3>2. capture[n] # Nothing /\ UNCHANGED <<observed, capture>>
        BY <2>4, <3>1 DEF Settle, LoseAnswer, server, CustodyInv, Custody, Bookkeeping
      <3>3. CASE stored' = Saved(n, Pending)
        BY <3>2, <3>3, SettledStep DEF Custodian!Next
      <3>4. CASE stored' # Saved(n, Pending)
        <4>1. PICK i : i = tab[t].answer
          OBVIOUS
        <4>2. /\ tab[t].at = "answered" /\ Confirms(n, i)
              /\ stored' = Saved(n, [state |-> "received", receipt |-> i])
          BY <2>4, <3>1, <3>4, <4>1 DEF Settle, LoseAnswer
        <4>3. i \in 0..Len(observed) /\ i # 0 /\ observed[i].payload = capture[n].payload
          BY <4>1, <4>2 DEF Confirms, CustodyInv, Custody, Bookkeeping
        <4>4. i \in DOMAIN observed
          BY <4>3 DEF CustodyInv, Custody, TypeOK
        <4> QED BY <3>2, <4>2, <4>3, <4>4, SettledStep DEF Custodian!Next
      <3> QED BY <3>3, <3>4
    <2>5. CASE ClearReceived
      BY <2>5, ClearStep DEF Custodian!Next
    <2>6. ASSUME NEW r \in network, Refuse(r) \/ Replay(r)
          PROVE  UNCHANGED <<capture, observed, stored>>
      BY <2>6 DEF Refuse, Replay, Answer
    <2>7. ASSUME NEW t \in Tabs, Load(t) \/ Sync(t) \/ Close(t)
          PROVE  UNCHANGED <<capture, observed, stored>>
      BY <2>7 DEF Load, Sync, Close, server
    <2>8. ASSUME NEW t \in Tabs, NEW n \in Notes, Send(t, n)
          PROVE  UNCHANGED <<capture, observed, stored>>
      BY <2>8 DEF Send, server
    <2>9. ASSUME NEW n \in Notes, NEW text \in Texts, NEW k \in Keys, Repeat(n, text, k)
          PROVE  UNCHANGED <<capture, observed, stored>>
      BY <2>9 DEF Repeat, server, device
    <2>10. ChangeTask \/ ChangeGrant \/ UNCHANGED vars => UNCHANGED <<capture, observed, stored>>
      BY DEF ChangeTask, ChangeGrant, vars, server, device
    <2> QED BY <2>1, <2>2, <2>3, <2>4, <2>5, <2>6, <2>7, <2>8, <2>9, <2>10 DEF Next, Serve
  <1> QED BY <1>1, <1>2, InitCustodyInv, CustodyInvStep, PTL
          DEF Spec, PromiseKept, Custodian!Spec, Records

=============================================================================
