----------------------------- MODULE NoteCustody -----------------------------
(***************************************************************************)
(* What a worker is promised about captured notes, without tabs, requests  *)
(* and keys: a note keeps its words; each note is recorded at most once,   *)
(* for good, and only as it was captured or in another client's words; the *)
(* device shows a note as received only with the record of its own words,  *)
(* leaves it out only once it is recorded, and takes no receipt back.      *)
(***************************************************************************)
EXTENDS Naturals, Sequences

CONSTANTS Notes, Texts, Payloads

VARIABLES
  words,    \* what each note said when it was captured
  records,  \* what is recorded, in order
  shown     \* what the device shows of each note

Unwritten   == [used |-> FALSE]
Left        == [state |-> "absent", receipt |-> 0]
Waiting     == [state |-> "pending", receipt |-> 0]
Receipt(i)  == [state |-> "received", receipt |-> i]
Recorded(n) == words[n] # Unwritten /\ \E i \in DOMAIN records : records[i] = words[n].payload

Init ==
  /\ words = [n \in Notes |-> Unwritten]
  /\ records = <<>>
  /\ shown = [n \in Notes |-> Left]

Write(n) ==
  /\ words[n] = Unwritten
  /\ words'[n] \in [used: {TRUE}, payload: Payloads]
  /\ words' = [words EXCEPT ![n] = words'[n]]
  /\ shown' = [shown EXCEPT ![n] = Waiting]
  /\ UNCHANGED records

Keep(n) ==
  /\ words[n] # Unwritten
  /\ \A i \in DOMAIN records : records[i].op # n
  /\ \E text \in Texts : records' = Append(records, [words[n].payload EXCEPT !.text = text])
  /\ UNCHANGED <<words, shown>>

Receive(n) ==
  /\ words[n] # Unwritten
  /\ \E i \in DOMAIN records :
       /\ records[i] = words[n].payload
       /\ shown' = [shown EXCEPT ![n] = Receipt(i)]
  /\ UNCHANGED <<words, records>>

\* A note that was cleared elsewhere may be sent once more.
Await(n) ==
  /\ shown[n] = Left /\ Recorded(n)
  /\ shown' = [shown EXCEPT ![n] = Waiting]
  /\ UNCHANGED <<words, records>>

Clear ==
  /\ shown' = [n \in Notes |-> IF shown[n].state = "received" THEN Left ELSE shown[n]]
  /\ \A n \in Notes : shown'[n] # shown[n] => Recorded(n)
  /\ UNCHANGED <<words, records>>

Next == Clear \/ \E n \in Notes : Write(n) \/ Keep(n) \/ Receive(n) \/ Await(n)

Spec == Init /\ [][Next]_<<words, records, shown>>
=============================================================================
