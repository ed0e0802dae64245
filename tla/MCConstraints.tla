---------------------------- MODULE MCConstraints ----------------------------
(***************************************************************************)
(* A constraint or three, two document revisions and few deliveries.       *)
(***************************************************************************)
EXTENDS Constraints, TLC

CONSTANTS c1, c2, c3, c4, d1, d2, k1, k2, a1, a2, a3, a4

Req(op, id, doc, key) == [op |-> op, id |-> id, doc |-> doc, key |-> key]

\* The life of one constraint, with two reviewers and a source.
Life ==
  {Req("attach", c1, d1, k1), Req("submit", c1, None, k1),
   Req("verify", c1, None, k1), Req("verify", c1, None, k2), Req("supersede", c1, None, k1)}

\* Requests that clients repeat, and a key used again for another payload.
Retries ==
  {Req("create", None, None, k1), Req("attach", c1, d1, k1), Req("attach", c1, d2, k1)}

\* Explored side by side: the life of one constraint in quiet times, and three
\* deliveries of repeated requests with a failure and a restart.
Both == Life \cup Retries
Sent == {attempt[a].req : a \in {b \in Attempts : attempt[b] # None}}
OneScenario ==
  \/ Sent \subseteq Life /\ failures = 0 /\ restarts = 0
  \/ Sent \subseteq Retries /\ Cardinality({a \in Attempts : attempt[a] # None}) <= 3

MCSymmetry == Permutations(Attempts)
=============================================================================
