---------------------------- MODULE MCFieldNotes ----------------------------
(***************************************************************************)
(* One note, two tabs of one browser and a second client of the worker     *)
(* that repeats the note under a key of its own; or two notes of one text, *)
(* one tab and no such client.  Both are explored side by side.            *)
(***************************************************************************)
EXTENDS FieldNotes, TLC

CONSTANTS t1, t2, x, y, n1, n2, k1

MCNotes == {n1, n2}

\* The access of the worker comes and goes before the last request is sent.
OneNote == capture[n2] = Nothing /\ (sent = MaxRequests => granted)

OneTab ==
  /\ granted
  /\ Cardinality({t \in Tabs : tab[t] # Closed}) <= 1
  /\ ~receipt[k1].used /\ \A r \in network : r.key # k1
  /\ \A n, m \in Notes : capture[n].used /\ capture[m].used =>
       capture[n].payload.text = capture[m].payload.text
  /\ \A r \in network : capture[r.payload.op].used
                           => r.payload.text = capture[r.payload.op].payload.text

OneScenario == OneNote \/ OneTab

MCSymmetry == Permutations({t1, t2}) \cup Permutations({x, y})
=============================================================================
