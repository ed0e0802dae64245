--------------------------- MODULE ConstraintsProofs ---------------------------
(***************************************************************************)
(* Whatever is delivered, repeated, interrupted or restarted, and however  *)
(* many reviewers there are, the row lock makes every change of a          *)
(* constraint count once, and a verification uses up one submission.       *)
(***************************************************************************)
EXTENDS Constraints, FiniteSetTheorems, WellFoundedInduction, TLAPS

\* What the tables and the requests under way hold.
Shapes ==
  /\ rows \in [Ids -> Row \cup {None}]
  /\ links \subseteq [id: Ids, doc: Docs, at: Nat]
  /\ audited \subseteq [id: Ids, version: Nat]
  /\ holder \in [Ids -> Attempts \cup {None}]
  /\ attempt \in [Attempts -> Delivery \cup {None}]
  /\ now \in Nat
  /\ \A k \in kept : k.reply \in Answer
  /\ changes \subseteq Ids \X Attempts /\ IsFiniteSet(changes)

\* A request for a constraint is for one that exists, only such requests read
\* rows, and a concluded handler has its answer.
Addressed ==
  \A a \in Attempts : attempt[a] # None =>
    /\ Op(a) # "create" => rows[Id(a)] # None
    /\ attempt[a].at \in {"begun", "locked"} => Op(a) # "create"
    /\ attempt[a].at = "answer" => attempt[a].reply \in Answer

\* Who has the row's lock knows the row as it is.
LockHeld ==
  \A a \in Attempts : attempt[a] # None /\ attempt[a].at = "locked" =>
    holder[Id(a)] = a /\ attempt[a].seen = rows[Id(a)]

\* Nobody changes anything after a change, and what is verified is a change.
OneChangeEach ==
  /\ \A c \in changes : attempt[c[2]] # None /\ attempt[c[2]].at \in {"answer", "done", "replayed", "lost"}
  /\ \A v \in verified : <<v.id, v.by>> \in changes
  /\ IsFiniteSet(verified)

VerifiedOf(id) == {v \in verified : v.id = id}

Submissions(id) == {c \in ChangesOf(id) : Op(c[2]) = "submit"}

\* A version counts the changes, and each verification is preceded by a submission
\* that no other verification used up: a submitted constraint has one to spare.
CountedFor(id) ==
  /\ id \in Existing => rows[id] # None
  /\ rows[id] = None => ChangesOf(id) = {}
  /\ rows[id] # None => rows[id].version = Cardinality(ChangesOf(id)) + Earlier(id)
  /\ Cardinality(VerifiedOf(id)) <= Cardinality(Submissions(id))
  /\ rows[id] # None /\ rows[id].status = "Under Review"
       => Cardinality(VerifiedOf(id)) < Cardinality(Submissions(id))

Counted == \A id \in Ids : CountedFor(id)

ReviewInvariant == Shapes /\ Addressed /\ LockHeld /\ OneChangeEach /\ Counted

-----------------------------------------------------------------------------
(* Requests. *)

LEMMA RequestsName ==
  ASSUME NEW r \in Requests
  PROVE  /\ r.op \in {"create", "attach", "submit", "verify", "supersede"}
         /\ r.op # "create" => r.id \in Ids
         /\ r.op = "attach" => r.doc \in Docs
BY RequestsAssumption DEF Request

\* One request moves on and the others stay where they are.
LEMMA MovedOn ==
  ASSUME attempt \in [Attempts -> Delivery \cup {None}], NEW a \in Attempts,
         NEW d \in Delivery, attempt' = [attempt EXCEPT ![a] = d]
  PROVE  /\ attempt' \in [Attempts -> Delivery \cup {None}]
         /\ attempt'[a] # None /\ attempt'[a] = d
         /\ \A b \in Attempts \ {a} : attempt'[b] = attempt[b]
<1>1. d # None
  BY NoneAssumption
<1> QED
  BY <1>1

LEMMA Concluded ==
  ASSUME attempt \in [Attempts -> Delivery \cup {None}], NEW a \in Attempts, attempt[a] # None,
         NEW reply \in Answer, Conclude(a, reply)
  PROVE  /\ attempt' \in [Attempts -> Delivery \cup {None}]
         /\ attempt'[a] # None /\ attempt'[a].req = attempt[a].req
         /\ attempt'[a].at = "answer" /\ attempt'[a].reply = reply
         /\ \A b \in Attempts \ {a} : attempt'[b] = attempt[b]
<1> DEFINE d == [attempt[a] EXCEPT !.at = "answer", !.reply = reply]
<1>1. attempt[a] \in Delivery
  OBVIOUS
<1>2. d \in Delivery /\ d.req = attempt[a].req /\ d.at = "answer" /\ d.reply = reply
  BY <1>1 DEF Delivery
<1>3. attempt' = [attempt EXCEPT ![a] = d]
  BY DEF Conclude
<1> HIDE DEF d
<1> QED
  BY <1>2, <1>3, MovedOn

-----------------------------------------------------------------------------
(* Steps that change no row. *)

\* No step forgets a request or takes it for another.
RequestsKept ==
  \A a \in Attempts : attempt[a] # None => attempt'[a] # None /\ attempt'[a].req = attempt[a].req

\* As long as nothing is stored, and who concluded stays so, counts stay.
LEMMA StoreKept ==
  ASSUME ReviewInvariant, UNCHANGED store, RequestsKept,
         \A a \in Attempts : attempt[a] # None /\ attempt[a].at \in {"answer", "done", "replayed", "lost"}
           => attempt'[a].at \in {"answer", "done", "replayed", "lost"}
  PROVE  OneChangeEach' /\ Counted'
<1>1. \A c \in changes : c[2] \in Attempts /\ attempt[c[2]] # None
  BY DEF ReviewInvariant, Shapes, OneChangeEach
<1>2. OneChangeEach'
  BY <1>1 DEF ReviewInvariant, OneChangeEach, RequestsKept, store
<1>3. \A id \in Ids : ChangesOf(id)' = ChangesOf(id) /\ VerifiedOf(id)' = VerifiedOf(id)
  BY DEF ChangesOf, VerifiedOf, store
<1>4. \A id \in Ids : Submissions(id)' = Submissions(id)
  BY <1>1, <1>3 DEF Submissions, ChangesOf, RequestsKept, Op
<1>5. Counted'
  BY <1>3, <1>4 DEF ReviewInvariant, Counted, CountedFor, store
<1> QED
  BY <1>2, <1>5

LEMMA DeliverKeeps ==
  ASSUME ReviewInvariant, NEW a \in Attempts, Deliver(a)
  PROVE  ReviewInvariant'
<1>1. PICK r \in Requests : /\ r.id \in Ids => rows[r.id] # None
                           /\ attempt' = [attempt EXCEPT ![a] = Admit(r)]
  BY DEF Deliver
<1>2. attempt[a] = None /\ attempt \in [Attempts -> Delivery \cup {None}]
  BY DEF Deliver, ReviewInvariant, Shapes
<1>3. UNCHANGED <<store, holder, kept, now>> /\ UNCHANGED rows
  BY DEF Deliver, store
<1>4. /\ Admit(r) \in Delivery
      /\ Admit(r).req = r /\ Admit(r).at \in {"handler", "done", "replayed"}
  <2>1. Fresh(r) \in Delivery /\ Fresh(r).req = r /\ Fresh(r).at = "handler"
    BY DEF Fresh, Delivery
  <2>2. \A at \in {"done", "replayed"}, reply \in Answer :
          /\ Replying(r, at, reply) \in Delivery
          /\ Replying(r, at, reply).req = r /\ Replying(r, at, reply).at = at
    BY DEF Replying, Delivery
  <2> DEFINE found == {k \in kept : k.slot = Slot(r)}
  <2>3. CASE found = {}
    BY <2>1, <2>3 DEF Admit
  <2>4. CASE found # {}
    <3>1. (CHOOSE k \in found : TRUE) \in found
      BY <2>4
    <3>2. (CHOOSE k \in found : TRUE).reply \in Answer
      BY <3>1 DEF ReviewInvariant, Shapes
    <3>3. "refused" \in Answer
      BY DEF Answer
    <3>4. Admit(r) = Replying(r, "replayed", (CHOOSE k \in found : TRUE).reply)
            \/ Admit(r) = Replying(r, "done", "refused")
      BY <2>4 DEF Admit
    <3> QED
      BY <3>2, <3>3, <3>4, <2>2
  <2> QED
    BY <2>3, <2>4
<1>5. attempt'[a] = Admit(r) /\ \A b \in Attempts \ {a} : attempt'[b] = attempt[b]
  BY <1>1, <1>2
<1>6. Shapes'
  BY <1>1, <1>2, <1>3, <1>4 DEF ReviewInvariant, Shapes, store
<1>7. Addressed'
  BY <1>1, <1>3, <1>4, <1>5, RequestsName DEF ReviewInvariant, Addressed, Op, Id
<1>8. LockHeld'
  BY <1>3, <1>4, <1>5 DEF ReviewInvariant, LockHeld, Id
<1>9. RequestsKept
  BY <1>2, <1>5 DEF RequestsKept
<1>10. OneChangeEach' /\ Counted'
  BY <1>2, <1>3, <1>5, <1>9, StoreKept
<1> QED
  BY <1>6, <1>7, <1>8, <1>10 DEF ReviewInvariant

\* A request that moves on, without a change, to where it holds no lock.
LEMMA MovingKeeps ==
  ASSUME ReviewInvariant, NEW a \in Attempts, attempt[a] # None, UNCHANGED store,
         holder' = holder \/ Unlock(a), now' \in Nat, \A k \in kept' : k.reply \in Answer,
         attempt' \in [Attempts -> Delivery \cup {None}],
         attempt'[a] # None, attempt'[a].req = attempt[a].req,
         attempt'[a].at \notin {"handler", "locked"},
         attempt'[a].at = "begun" => Op(a) # "create",
         attempt'[a].at = "answer" => attempt'[a].reply \in Answer,
         attempt[a].at \in {"answer", "done", "replayed", "lost"} => attempt'[a].at \in {"answer", "done", "replayed", "lost"},
         \A b \in Attempts \ {a} : attempt'[b] = attempt[b]
  PROVE  ReviewInvariant'
<1>1. UNCHANGED <<rows, links, verified, audited, changes>>
  BY DEF store
<1>2. RequestsKept
  BY DEF RequestsKept
<1>3. holder' \in [Ids -> Attempts \cup {None}]
  BY DEF ReviewInvariant, Shapes, Unlock
<1>4. Shapes'
  BY <1>1, <1>3 DEF ReviewInvariant, Shapes
<1>5. Addressed'
  BY <1>1 DEF ReviewInvariant, Addressed, Op, Id
<1>6. LockHeld'
  <2> SUFFICES ASSUME NEW b \in Attempts, attempt'[b] # None, attempt'[b].at = "locked"
               PROVE  holder'[Id(b)'] = b /\ attempt'[b].seen = rows'[Id(b)']
    BY DEF LockHeld
  <2>1. b # a /\ attempt'[b] = attempt[b] /\ Id(b)' = Id(b)
    BY DEF Id
  <2>2. holder[Id(b)] = b /\ attempt[b].seen = rows[Id(b)]
    BY <2>1 DEF ReviewInvariant, LockHeld
  <2>3. Id(b) \in Ids
    <3>1. attempt[b] \in Delivery /\ Op(b) # "create"
      BY <2>1 DEF ReviewInvariant, Shapes, Addressed
    <3> QED
      BY <3>1, RequestsName DEF Delivery, Op, Id
  <2>4. holder'[Id(b)] = b
    BY <2>1, <2>2, <2>3 DEF Unlock, ReviewInvariant, Shapes
  <2> QED
    BY <1>1, <2>1, <2>2, <2>4
<1>7. OneChangeEach' /\ Counted'
  BY <1>2, StoreKept
<1> QED
  BY <1>4, <1>5, <1>6, <1>7 DEF ReviewInvariant

LEMMA BeginKeeps ==
  ASSUME ReviewInvariant, NEW a \in Attempts, Begin(a)
  PROVE  ReviewInvariant'
<1>1. /\ attempt[a] # None /\ attempt[a] \in Delivery /\ attempt[a].at = "handler"
      /\ attempt \in [Attempts -> Delivery \cup {None}] /\ Op(a) # "create"
  BY DEF Begin, Running, ReviewInvariant, Shapes
<1>2. now + 1 \in Nat /\ now' = now + 1 /\ UNCHANGED <<store, holder, kept>>
  BY DEF Begin, ReviewInvariant, Shapes
<1> DEFINE d == [attempt[a] EXCEPT !.at = "begun", !.began = now + 1]
<1>3. d \in Delivery /\ d.req = attempt[a].req /\ d.at = "begun"
  BY <1>1, <1>2 DEF Delivery
<1>4. attempt' = [attempt EXCEPT ![a] = d]
  BY DEF Begin
<1> HIDE DEF d
<1>5. /\ attempt' \in [Attempts -> Delivery \cup {None}]
      /\ attempt'[a] # None /\ attempt'[a].req = attempt[a].req /\ attempt'[a].at = "begun"
      /\ \A b \in Attempts \ {a} : attempt'[b] = attempt[b]
  BY <1>1, <1>3, <1>4, MovedOn
<1> QED
  BY <1>1, <1>2, <1>5, MovingKeeps DEF ReviewInvariant, Shapes

LEMMA RefuseKeeps ==
  ASSUME ReviewInvariant, NEW a \in Attempts, Refuse(a)
  PROVE  ReviewInvariant'
<1>1. attempt[a] # None /\ attempt[a].at = "locked" /\ attempt \in [Attempts -> Delivery \cup {None}]
  BY DEF Refuse, Running, ReviewInvariant, Shapes
<1>2. /\ UNCHANGED <<store, kept, now>> /\ Unlock(a)
      /\ Conclude(a, "refused") /\ "refused" \in Answer
  BY DEF Refuse, Answer
<1>3. /\ attempt' \in [Attempts -> Delivery \cup {None}]
      /\ attempt'[a] # None /\ attempt'[a].req = attempt[a].req /\ attempt'[a].at = "answer"
      /\ attempt'[a].reply \in Answer
      /\ \A b \in Attempts \ {a} : attempt'[b] = attempt[b]
  BY <1>1, <1>2, Concluded
<1> QED
  BY <1>1, <1>2, <1>3, MovingKeeps DEF ReviewInvariant, Shapes

LEMMA FailKeeps ==
  ASSUME ReviewInvariant, NEW a \in Attempts, Fail(a)
  PROVE  ReviewInvariant'
<1>1. /\ attempt[a] # None /\ attempt[a].at \in {"handler", "begun", "locked"}
      /\ attempt \in [Attempts -> Delivery \cup {None}]
  BY DEF Fail, Running, ReviewInvariant, Shapes
<1>2. /\ UNCHANGED <<store, kept, now>> /\ Unlock(a)
      /\ Conclude(a, "failed") /\ "failed" \in Answer
  BY DEF Fail, Answer
<1>3. /\ attempt' \in [Attempts -> Delivery \cup {None}]
      /\ attempt'[a] # None /\ attempt'[a].req = attempt[a].req /\ attempt'[a].at = "answer"
      /\ attempt'[a].reply \in Answer
      /\ \A b \in Attempts \ {a} : attempt'[b] = attempt[b]
  BY <1>1, <1>2, Concluded
<1> QED
  BY <1>1, <1>2, <1>3, MovingKeeps DEF ReviewInvariant, Shapes

LEMMA RespondMoves ==
  ASSUME Shapes, NEW a \in Attempts, Respond(a)
  PROVE  /\ attempt[a] # None /\ attempt[a] \in Delivery /\ attempt[a].at = "answer"
         /\ attempt' \in [Attempts -> Delivery \cup {None}]
         /\ attempt'[a] # None /\ attempt'[a].at = "done"
         /\ attempt'[a].req = attempt[a].req /\ attempt'[a].reply = attempt[a].reply
         /\ \A b \in Attempts \ {a} : attempt'[b] = attempt[b]
<1>1. /\ attempt[a] # None /\ attempt[a].at = "answer" /\ attempt[a] \in Delivery
      /\ attempt \in [Attempts -> Delivery \cup {None}]
  BY DEF Respond, Running, Shapes
<1> DEFINE d == [attempt[a] EXCEPT !.at = "done"]
<1>2. /\ d \in Delivery /\ d.at = "done"
      /\ d.req = attempt[a].req /\ d.reply = attempt[a].reply
  BY <1>1 DEF Delivery
<1>3. attempt' = [attempt EXCEPT ![a] = d]
  BY DEF Respond
<1> HIDE DEF d
<1> QED
  BY <1>1, <1>2, <1>3, MovedOn

LEMMA RespondKeeps ==
  ASSUME ReviewInvariant, NEW a \in Attempts, Respond(a)
  PROVE  ReviewInvariant'
<1>1. UNCHANGED <<store, holder, now>> /\ now \in Nat /\ Shapes
  BY DEF Respond, ReviewInvariant, Shapes
<1>2. /\ attempt[a] # None /\ attempt[a].at = "answer"
      /\ attempt' \in [Attempts -> Delivery \cup {None}]
      /\ attempt'[a] # None /\ attempt'[a].req = attempt[a].req /\ attempt'[a].at = "done"
      /\ \A b \in Attempts \ {a} : attempt'[b] = attempt[b]
  BY <1>1, RespondMoves
<1>3. attempt[a].reply \in Answer
  BY <1>2 DEF ReviewInvariant, Addressed
<1>4. \A k \in kept' : k.reply \in Answer
  BY <1>3 DEF Respond, ReviewInvariant, Shapes
<1> QED
  BY <1>1, <1>2, <1>4, MovingKeeps

LEMMA LockKeeps ==
  ASSUME ReviewInvariant, NEW a \in Attempts, Lock(a)
  PROVE  ReviewInvariant'
<1>1. /\ attempt[a] # None /\ attempt[a] \in Delivery /\ attempt[a].at = "begun"
      /\ attempt \in [Attempts -> Delivery \cup {None}] /\ Op(a) # "create"
      /\ holder \in [Ids -> Attempts \cup {None}]
  BY DEF Lock, Running, ReviewInvariant, Shapes, Addressed
<1>2. Id(a) \in Ids
  BY <1>1, RequestsName DEF Delivery, Op, Id
<1>3. rows[Id(a)] \in Row \cup {None}
  BY <1>2 DEF ReviewInvariant, Shapes
<1> DEFINE d == [attempt[a] EXCEPT !.at = "locked", !.seen = rows[Id(a)]]
<1>4. d \in Delivery /\ d.req = attempt[a].req /\ d.at = "locked" /\ d.seen = rows[Id(a)]
  BY <1>1, <1>3 DEF Delivery
<1>5. attempt' = [attempt EXCEPT ![a] = d]
  BY DEF Lock
<1> HIDE DEF d
<1>6. /\ attempt' \in [Attempts -> Delivery \cup {None}]
      /\ attempt'[a] # None /\ attempt'[a].req = attempt[a].req
      /\ attempt'[a].at = "locked" /\ attempt'[a].seen = rows[Id(a)]
      /\ \A b \in Attempts \ {a} : attempt'[b] = attempt[b]
  BY <1>1, <1>4, <1>5, MovedOn
<1>7. /\ holder[Id(a)] = None /\ holder' = [holder EXCEPT ![Id(a)] = a]
      /\ UNCHANGED <<rows, links, verified, audited, changes, kept, now>> /\ UNCHANGED store
  BY DEF Lock, store
<1>8. Shapes'
  BY <1>1, <1>2, <1>6, <1>7 DEF ReviewInvariant, Shapes
<1>9. Addressed'
  BY <1>1, <1>6, <1>7 DEF ReviewInvariant, Addressed, Op, Id
<1>10. LockHeld'
  <2> SUFFICES ASSUME NEW b \in Attempts, attempt'[b] # None, attempt'[b].at = "locked"
               PROVE  holder'[Id(b)'] = b /\ attempt'[b].seen = rows'[Id(b)']
    BY DEF LockHeld
  <2>1. CASE b = a
    BY <1>1, <1>2, <1>6, <1>7, <2>1 DEF Id
  <2>2. CASE b # a
    <3>1. attempt'[b] = attempt[b] /\ Id(b)' = Id(b)
      BY <1>6, <2>2 DEF Id
    <3>2. holder[Id(b)] = b /\ attempt[b].seen = rows[Id(b)]
      BY <3>1 DEF ReviewInvariant, LockHeld
    <3>3. Id(b) # Id(a)
      BY <1>7, <3>2, NoneAssumption
    <3> QED
      BY <1>1, <1>7, <3>1, <3>2, <3>3
  <2> QED
    BY <2>1, <2>2
<1>11. RequestsKept
  BY <1>6 DEF RequestsKept
<1>12. OneChangeEach' /\ Counted'
  BY <1>1, <1>6, <1>7, <1>11, StoreKept
<1> QED
  BY <1>8, <1>9, <1>10, <1>12 DEF ReviewInvariant

\* A restart loses what is under way and what is kept, and stores nothing.
LEMMA RestartKeeps ==
  ASSUME ReviewInvariant, Restart
  PROVE  ReviewInvariant'
<1>1. UNCHANGED <<rows, links, verified, audited, changes, now>> /\ UNCHANGED store /\ kept' = {}
  BY DEF Restart, store
<1>2. holder' \in [Ids -> Attempts \cup {None}]
  BY DEF Restart
<1>3. \A a \in Attempts :
        /\ attempt[a] = None => attempt'[a] = None
        /\ attempt[a] # None =>
             /\ attempt'[a] \in Delivery /\ attempt'[a].req = attempt[a].req
             /\ attempt'[a].at \in {"done", "replayed", "lost"}
  <2> SUFFICES ASSUME NEW a \in Attempts
               PROVE  /\ attempt[a] = None => attempt'[a] = None
                      /\ attempt[a] # None =>
                           /\ attempt'[a] \in Delivery /\ attempt'[a].req = attempt[a].req
                           /\ attempt'[a].at \in {"done", "replayed", "lost"}
    OBVIOUS
  <2>1. attempt'[a] = IF Running(a) THEN [attempt[a] EXCEPT !.at = "lost"] ELSE attempt[a]
    BY DEF Restart
  <2>2. attempt[a] \in Delivery \cup {None}
    BY DEF ReviewInvariant, Shapes
  <2>3. CASE Running(a)
    <3>1. attempt[a] \in Delivery
      BY <2>2, <2>3 DEF Running
    <3>2. attempt'[a] = [attempt[a] EXCEPT !.at = "lost"]
      BY <2>1, <2>3
    <3> QED
      BY <2>3, <3>1, <3>2 DEF Delivery, Running
  <2>4. CASE ~Running(a)
    BY <2>1, <2>2, <2>4 DEF Running, Delivery
  <2> QED
    BY <2>3, <2>4
<1>4. attempt' \in [Attempts -> Delivery \cup {None}]
  <2>1. attempt' = [a \in Attempts |-> attempt'[a]]
    BY DEF Restart
  <2> QED
    BY <1>3, <2>1
<1>5. \A a \in Attempts : attempt'[a] # None => attempt[a] # None
  BY <1>3
<1>6. RequestsKept
  BY <1>3, NoneAssumption DEF RequestsKept
<1>7. Shapes'
  BY <1>1, <1>2, <1>4 DEF ReviewInvariant, Shapes
<1>8. Addressed'
  BY <1>1, <1>3, <1>5 DEF ReviewInvariant, Addressed, Op, Id
<1>9. LockHeld'
  BY <1>3, <1>5 DEF LockHeld
<1>10. OneChangeEach' /\ Counted'
  BY <1>1, <1>3, <1>6, StoreKept
<1> QED
  BY <1>7, <1>8, <1>9, <1>10 DEF ReviewInvariant

-----------------------------------------------------------------------------
(* Steps that change a row. *)

LEMMA OneToSpare ==
  ASSUME NEW v \in Nat, NEW n \in Nat
  PROVE  /\ v <= n => v <= n + 1 /\ v < n + 1
         /\ v < n => v + 1 <= n /\ v + 1 <= n + 1
OBVIOUS

LEMMA RowWritten ==
  ASSUME rows \in [Ids -> Row \cup {None}], NEW id \in Ids,
         NEW r \in Row, rows' = [rows EXCEPT ![id] = r]
  PROVE  /\ rows' \in [Ids -> Row \cup {None}] /\ rows'[id] = r /\ rows'[id] # None
         /\ \A j \in Ids \ {id} : rows'[j] = rows[j]
         /\ \A j \in Ids : rows[j] # None => rows'[j] # None
BY NoneAssumption

LEMMA FiniteCounts ==
  ASSUME ReviewInvariant, NEW id
  PROVE  /\ IsFiniteSet(ChangesOf(id)) /\ Cardinality(ChangesOf(id)) \in Nat
         /\ IsFiniteSet(Submissions(id)) /\ Cardinality(Submissions(id)) \in Nat
         /\ IsFiniteSet(VerifiedOf(id)) /\ Cardinality(VerifiedOf(id)) \in Nat
<1>1. IsFiniteSet(ChangesOf(id)) /\ IsFiniteSet(Submissions(id))
  BY FS_Subset DEF ReviewInvariant, Shapes, ChangesOf, Submissions
<1>2. IsFiniteSet(VerifiedOf(id))
  BY FS_Subset DEF ReviewInvariant, OneChangeEach, VerifiedOf
<1> QED
  BY <1>1, <1>2, FS_CardinalityType

\* One change of one constraint: its version follows, and a verification takes the
\* submission that was to spare.
LEMMA ChangeCounted ==
  ASSUME ReviewInvariant, NEW a \in Attempts, attempt[a] # None, NEW id \in Ids,
         rows'[id] # None, rows'[id].version = Cardinality(ChangesOf(id)) + 1 + Earlier(id),
         \A j \in Ids \ {id} : rows'[j] = rows[j],
         <<id, a>> \notin changes, changes' = changes \cup {<<id, a>>}, RequestsKept, NEW row,
         \/ verified' = verified /\ (rows'[id].status = "Under Review" => Op(a) = "submit")
         \/ /\ verified' = verified \cup {row} /\ row \notin verified /\ row.id = id
            /\ rows'[id].status # "Under Review"
            /\ rows[id] # None /\ rows[id].status = "Under Review"
  PROVE  Counted' /\ IsFiniteSet(verified')
<1> DEFINE c == <<id, a>>
<1>3. \A j \in Ids \ {id} : ChangesOf(j)' = ChangesOf(j)
  <2> SUFFICES ASSUME NEW j \in Ids, j # id
               PROVE  ChangesOf(j)' = ChangesOf(j)
    OBVIOUS
  <2>1. ChangesOf(j)' = {d \in changes \cup {c} : d[1] = j}
    BY DEF ChangesOf
  <2>2. c[1] # j
    OBVIOUS
  <2> HIDE DEF c
  <2> QED
    BY <2>1, <2>2 DEF ChangesOf
<1>4. ChangesOf(id)' = ChangesOf(id) \cup {c} /\ c \notin ChangesOf(id)
  <2>1. ChangesOf(id)' = {d \in changes \cup {c} : d[1] = id}
    BY DEF ChangesOf
  <2>2. c[1] = id /\ c \notin changes
    OBVIOUS
  <2> HIDE DEF c
  <2> QED
    BY <2>1, <2>2 DEF ChangesOf
<1>5. Cardinality(ChangesOf(id)') = Cardinality(ChangesOf(id)) + 1
  <2>1. IsFiniteSet(ChangesOf(id))
    BY FiniteCounts
  <2> HIDE DEF c
  <2>2. Cardinality(ChangesOf(id) \cup {c}) = Cardinality(ChangesOf(id)) + 1
    BY <1>4, <2>1, FS_AddElement
  <2> QED
    BY <1>4, <2>2
<1>6. \A d \in changes : d[2] \in Attempts /\ Op(d[2])' = Op(d[2])
  <2> SUFFICES ASSUME NEW d \in changes
               PROVE  d[2] \in Attempts /\ Op(d[2])' = Op(d[2])
    OBVIOUS
  <2>1. d[2] \in Attempts /\ attempt[d[2]] # None
    BY DEF ReviewInvariant, Shapes, OneChangeEach
  <2> QED
    BY <2>1 DEF RequestsKept, Op
<1>7. \A j \in Ids \ {id} : Submissions(j)' = Submissions(j)
  BY <1>3, <1>6 DEF Submissions, ChangesOf
<1>8. Op(a)' = Op(a)
  BY DEF RequestsKept, Op
<1>9. Submissions(id)' = IF Op(a) = "submit" THEN Submissions(id) \cup {c} ELSE Submissions(id)
  <2>1. \A d \in ChangesOf(id) : Op(d[2])' = Op(d[2])
    BY <1>6 DEF ChangesOf
  <2>2. c[2] = a
    OBVIOUS
  <2> HIDE DEF c
  <2>3. Submissions(id)' = {d \in ChangesOf(id) : Op(d[2])' = "submit"}
                            \cup {d \in {c} : Op(d[2])' = "submit"}
    BY <1>4 DEF Submissions
  <2>4. {d \in ChangesOf(id) : Op(d[2])' = "submit"} = Submissions(id)
    BY <2>1 DEF Submissions
  <2>5. {d \in {c} : Op(d[2])' = "submit"} = IF Op(a) = "submit" THEN {c} ELSE {}
    BY <1>8, <2>2
  <2> QED
    BY <2>3, <2>4, <2>5
<1>10. c \notin Submissions(id)
  BY <1>4 DEF Submissions
<1>11. /\ Op(a) = "submit" => Cardinality(Submissions(id)') = Cardinality(Submissions(id)) + 1
       /\ Op(a) # "submit" => Submissions(id)' = Submissions(id)
  <2>1. IsFiniteSet(Submissions(id))
    BY FiniteCounts
  <2>2. Cardinality(Submissions(id) \cup {c}) = Cardinality(Submissions(id)) + 1
    BY <1>10, <2>1, FS_AddElement
  <2> HIDE DEF c
  <2> QED
    BY <1>9, <2>2
<1>12. \A j \in Ids \ {id} : VerifiedOf(j)' = VerifiedOf(j)
  BY DEF VerifiedOf
<1>13. \A j \in Ids \ {id} : CountedFor(j)'
  BY <1>3, <1>7, <1>12 DEF ReviewInvariant, Counted, CountedFor
<1>14. rows'[id].version = Cardinality(ChangesOf(id)') + Earlier(id)
  <2>1. Cardinality(ChangesOf(id)) \in Nat /\ Earlier(id) \in Nat
    BY FiniteCounts DEF Earlier
  <2> QED
    BY <1>5, <2>1
<1>15. /\ Cardinality(VerifiedOf(id)) \in Nat /\ Cardinality(Submissions(id)) \in Nat
       /\ Cardinality(VerifiedOf(id)) <= Cardinality(Submissions(id))
       /\ IsFiniteSet(VerifiedOf(id)) /\ IsFiniteSet(verified)
  BY FiniteCounts DEF ReviewInvariant, OneChangeEach, Counted, CountedFor
<1>16. CASE verified' = verified /\ (rows'[id].status = "Under Review" => Op(a) = "submit")
  <2>1. VerifiedOf(id)' = VerifiedOf(id)
    BY <1>16 DEF VerifiedOf
  <2>2. /\ Cardinality(VerifiedOf(id)') <= Cardinality(Submissions(id)')
        /\ rows'[id].status = "Under Review" => Cardinality(VerifiedOf(id)') < Cardinality(Submissions(id)')
    <3>1. CASE Op(a) = "submit"
      BY <1>11, <1>15, <2>1, <3>1, OneToSpare
    <3>2. CASE Op(a) # "submit"
      BY <1>11, <1>15, <1>16, <2>1, <3>2
    <3> QED
      BY <3>1, <3>2
  <2>3. CountedFor(id)'
    BY <1>14, <2>2 DEF CountedFor, Earlier
  <2> QED
    BY <1>13, <1>15, <1>16, <2>3 DEF Counted
<1>17. CASE /\ verified' = verified \cup {row} /\ row \notin verified /\ row.id = id
            /\ rows'[id].status # "Under Review"
            /\ rows[id] # None /\ rows[id].status = "Under Review"
  <2>1. VerifiedOf(id)' = VerifiedOf(id) \cup {row} /\ row \notin VerifiedOf(id)
    BY <1>17 DEF VerifiedOf
  <2>2. Cardinality(VerifiedOf(id)') = Cardinality(VerifiedOf(id)) + 1
    BY <1>15, <2>1, FS_AddElement
  <2>3. Cardinality(VerifiedOf(id)) < Cardinality(Submissions(id))
    BY <1>17 DEF ReviewInvariant, Counted, CountedFor
  <2>4. Cardinality(VerifiedOf(id)') <= Cardinality(Submissions(id)')
    <3>1. CASE Op(a) = "submit"
      BY <1>11, <1>15, <2>2, <2>3, <3>1, OneToSpare
    <3>2. CASE Op(a) # "submit"
      BY <1>11, <1>15, <2>2, <2>3, <3>2, OneToSpare
    <3> QED
      BY <3>1, <3>2
  <2>5. CountedFor(id)'
    BY <1>14, <1>17, <2>4 DEF CountedFor, Earlier
  <2>6. IsFiniteSet(verified')
    BY <1>15, <1>17, FS_AddElement
  <2> QED
    BY <1>13, <2>5, <2>6 DEF Counted
<1> QED
  BY <1>16, <1>17

LEMMA AddressedIds ==
  ASSUME Shapes, NEW a \in Attempts, attempt[a] # None, Op(a) # "create"
  PROVE  Id(a) \in Ids
<1>1. attempt[a].req \in Requests
  BY DEF Shapes, Delivery
<1> QED
  BY <1>1, RequestsName DEF Op, Id

\* A request that concludes, while no row disappears.
LEMMA AddressedKeeps ==
  ASSUME ReviewInvariant, NEW a \in Attempts, attempt[a] # None,
         attempt'[a].req = attempt[a].req, attempt'[a].at = "answer", attempt'[a].reply \in Answer,
         \A b \in Attempts \ {a} : attempt'[b] = attempt[b],
         \A j \in Ids : rows[j] # None => rows'[j] # None
  PROVE  Addressed'
<1> SUFFICES ASSUME NEW b \in Attempts, attempt'[b] # None
             PROVE  /\ Op(b)' # "create" => rows'[Id(b)'] # None
                    /\ attempt'[b].at \in {"begun", "locked"} => Op(b)' # "create"
                    /\ attempt'[b].at = "answer" => attempt'[b].reply \in Answer
  BY DEF Addressed
<1>1. attempt[b] # None /\ Op(b)' = Op(b) /\ Id(b)' = Id(b)
  BY DEF Op, Id
<1>2. Op(b) # "create" => Id(b) \in Ids /\ rows[Id(b)] # None
  BY <1>1, AddressedIds DEF ReviewInvariant, Addressed
<1>3. b # a => attempt'[b] = attempt[b]
  OBVIOUS
<1> QED
  BY <1>1, <1>2, <1>3 DEF ReviewInvariant, Addressed

LEMMA CreateKeeps ==
  ASSUME ReviewInvariant, NEW a \in Attempts, Create(a)
  PROVE  ReviewInvariant'
<1>1. /\ attempt[a] # None /\ attempt[a].at = "handler" /\ Op(a) = "create"
      /\ attempt \in [Attempts -> Delivery \cup {None}]
      /\ UNCHANGED <<links, verified, audited, holder, kept, now>>
      /\ Conclude(a, "ok") /\ "ok" \in Answer
  BY DEF Create, Running, ReviewInvariant, Shapes, Answer
<1>2. PICK id \in Ids : /\ rows[id] = None
                        /\ rows' = [rows EXCEPT ![id] = [status |-> "Draft", version |-> 1]]
                        /\ changes' = changes \cup {<<id, a>>}
  BY DEF Create, Changed
<1>3. /\ attempt' \in [Attempts -> Delivery \cup {None}]
      /\ attempt'[a] # None /\ attempt'[a].req = attempt[a].req /\ attempt'[a].at = "answer"
      /\ attempt'[a].reply \in Answer
      /\ \A b \in Attempts \ {a} : attempt'[b] = attempt[b]
  BY <1>1, Concluded
<1>4. <<id, a>> \notin changes
  BY <1>1 DEF ReviewInvariant, OneChangeEach
<1>5. RequestsKept
  BY <1>3 DEF RequestsKept
<1> DEFINE r == [status |-> "Draft", version |-> 1]
<1>6. r \in Row /\ r.status = "Draft" /\ r.version = 1
  BY DEF Row, Status
<1> HIDE DEF r
<1>7. /\ rows' \in [Ids -> Row \cup {None}] /\ rows'[id] = r /\ rows'[id] # None
      /\ \A j \in Ids \ {id} : rows'[j] = rows[j]
      /\ \A j \in Ids : rows[j] # None => rows'[j] # None
  BY <1>2, <1>6, RowWritten DEF r, ReviewInvariant, Shapes
<1>8. Shapes'
  <2>1. IsFiniteSet(changes) /\ changes \subseteq Ids \X Attempts
    BY DEF ReviewInvariant, Shapes
  <2>2. changes' \subseteq Ids \X Attempts /\ IsFiniteSet(changes')
    <3>1. changes' = changes \cup {<<id, a>>}
      BY <1>2
    <3>2. IsFiniteSet(changes')
      BY <2>1, <3>1, FS_AddElement
    <3> QED
      BY <2>1, <3>1, <3>2
  <2> QED
    BY <1>1, <1>3, <1>7, <2>2 DEF ReviewInvariant, Shapes
<1>10. Addressed'
  BY <1>1, <1>3, <1>7, AddressedKeeps DEF ReviewInvariant
<1>11. LockHeld'
  <2> SUFFICES ASSUME NEW b \in Attempts, attempt'[b] # None, attempt'[b].at = "locked"
               PROVE  holder'[Id(b)'] = b /\ attempt'[b].seen = rows'[Id(b)']
    BY DEF LockHeld
  <2>1. b # a /\ attempt'[b] = attempt[b] /\ Id(b)' = Id(b)
    BY <1>3 DEF Id
  <2>2. /\ holder[Id(b)] = b /\ attempt[b].seen = rows[Id(b)]
        /\ Op(b) # "create" /\ rows[Id(b)] # None
    BY <2>1 DEF ReviewInvariant, LockHeld, Addressed
  <2>3. Id(b) \in Ids
    BY <2>1, <2>2, AddressedIds DEF ReviewInvariant
  <2>4. Id(b) # id
    BY <1>2, <2>2
  <2> QED
    BY <1>1, <1>7, <2>1, <2>2, <2>3, <2>4
<1>12. Counted' /\ IsFiniteSet(verified')
  <2>1. id \notin Existing /\ ChangesOf(id) = {} /\ Cardinality(ChangesOf(id)) = 0
    BY <1>2, FS_EmptySet DEF ReviewInvariant, Counted, CountedFor
  <2>2. Earlier(id) = 0
    BY <2>1 DEF Earlier
  <2>3. rows'[id].version = Cardinality(ChangesOf(id)) + 1 + Earlier(id)
    BY <1>6, <1>7, <2>1, <2>2
  <2> QED
    BY <1>1, <1>2, <1>4, <1>5, <1>6, <1>7, <2>3, ChangeCounted
<1>13. OneChangeEach'
  BY <1>1, <1>2, <1>3, <1>5, <1>12 DEF ReviewInvariant, OneChangeEach, Shapes, RequestsKept
<1> QED
  BY <1>8, <1>10, <1>11, <1>12, <1>13 DEF ReviewInvariant

\* A transaction's UPDATE under the lock: the next version, and no other row.
RowUpdated(id) ==
  /\ rows' \in [Ids -> Row \cup {None}]
  /\ rows'[id] # None /\ rows'[id].version = rows[id].version + 1
  /\ \A j \in Ids \ {id} : rows'[j] = rows[j]
  /\ \A j \in Ids : rows[j] # None => rows'[j] # None

LEMMA UpdateWrites ==
  ASSUME ReviewInvariant, NEW a \in Attempts, Id(a) \in Ids, rows[Id(a)] \in Row,
         attempt[a].seen = rows[Id(a)], NEW status \in Status, Update(a, Id(a), status)
  PROVE  RowUpdated(Id(a)) /\ rows'[Id(a)].status = status
<1> DEFINE r == [status |-> status, version |-> NewVersion(a)]
<1>1. NewVersion(a) = rows[Id(a)].version + 1 /\ NewVersion(a) \in Nat \ {0}
  BY DEF NewVersion, Row
<1>2. r \in Row /\ r.status = status /\ r.version = NewVersion(a)
  BY <1>1 DEF Row
<1>3. rows' = [rows EXCEPT ![Id(a)] = r]
  BY DEF Update
<1>4. rows \in [Ids -> Row \cup {None}]
  BY DEF ReviewInvariant, Shapes
<1> HIDE DEF r
<1> QED
  BY <1>1, <1>2, <1>3, <1>4, RowWritten DEF RowUpdated

\* What a commit finds and does, whichever command it is of.
LEMMA CommitWrites ==
  ASSUME ReviewInvariant, NEW a \in Attempts, Commit(a)
  PROVE  /\ attempt[a] # None /\ attempt[a] \in Delivery /\ attempt[a].at = "locked"
         /\ Id(a) \in Ids /\ holder[Id(a)] = a /\ rows[Id(a)] # None /\ rows[Id(a)] \in Row
         /\ NewVersion(a) = rows[Id(a)].version + 1 /\ NewVersion(a) \in Nat \ {0}
         /\ RowUpdated(Id(a))
         /\ \/ /\ verified' = verified /\ audited' = audited /\ rows'[Id(a)].status # "Verified"
               /\ rows'[Id(a)].status = "Under Review" => Op(a) = "submit"
            \/ /\ verified' = verified \cup {VerificationRow(a, Id(a))}
               /\ audited' = audited \cup {[id |-> Id(a), version |-> NewVersion(a)]}
               /\ rows'[Id(a)].status = "Verified" /\ rows[Id(a)].status = "Under Review"
         /\ links' \subseteq [id: Ids, doc: Docs, at: Nat]
         /\ changes' = changes \cup {<<Id(a), a>>} /\ <<Id(a), a>> \notin changes
<1>1. /\ attempt[a] # None /\ attempt[a] \in Delivery /\ attempt[a].at = "locked"
      /\ attempt[a].req \in Requests /\ attempt[a].began \in Nat
  BY DEF Commit, Running, ReviewInvariant, Shapes, Delivery
<1>2. Id(a) \in Ids /\ Op(a) # "create"
  BY <1>1, RequestsName DEF ReviewInvariant, Addressed, Op, Id
<1>3. /\ holder[Id(a)] = a /\ attempt[a].seen = rows[Id(a)]
      /\ rows[Id(a)] # None /\ rows[Id(a)] \in Row
  BY <1>1, <1>2 DEF ReviewInvariant, LockHeld, Addressed, Shapes
<1>4. NewVersion(a) = rows[Id(a)].version + 1 /\ NewVersion(a) \in Nat \ {0}
  BY <1>3 DEF NewVersion, Row
<1>5. changes' = changes \cup {<<Id(a), a>>} /\ <<Id(a), a>> \notin changes
  BY <1>1 DEF Commit, Changed, ReviewInvariant, OneChangeEach
<1>6. {"Source Attached", "Under Review", "Verified", "Superseded"} \subseteq Status
  BY DEF Status
<1>7. links \subseteq [id: Ids, doc: Docs, at: Nat]
  BY DEF ReviewInvariant, Shapes
<1>8. CASE AttachSource(a, Id(a))
  <2>1. attempt[a].req.doc \in Docs
    BY <1>1, <1>8, RequestsName DEF AttachSource, Op
  <2> DEFINE l == [id |-> Id(a), doc |-> attempt[a].req.doc, at |-> attempt[a].began]
  <2>2. l \in [id: Ids, doc: Docs, at: Nat]
    BY <1>1, <1>2, <2>1
  <2>3. links' = links \cup {l} /\ UNCHANGED <<verified, audited>>
    BY <1>8 DEF AttachSource
  <2> HIDE DEF l
  <2>4. RowUpdated(Id(a)) /\ rows'[Id(a)].status = "Source Attached"
    BY <1>2, <1>3, <1>6, <1>8, UpdateWrites DEF AttachSource
  <2> QED
    BY <1>1, <1>2, <1>3, <1>4, <1>5, <1>7, <2>2, <2>3, <2>4
<1>9. CASE SubmitForReview(a, Id(a))
  <2>1. RowUpdated(Id(a)) /\ rows'[Id(a)].status = "Under Review"
    BY <1>2, <1>3, <1>6, <1>9, UpdateWrites DEF SubmitForReview
  <2>2. UNCHANGED <<links, verified, audited>> /\ Op(a) = "submit"
    BY <1>9 DEF SubmitForReview
  <2> QED
    BY <1>1, <1>2, <1>3, <1>4, <1>5, <1>7, <2>1, <2>2
<1>10. CASE VerifyConstraint(a, Id(a))
  <2>1. RowUpdated(Id(a)) /\ rows'[Id(a)].status = "Verified"
    BY <1>2, <1>3, <1>6, <1>10, UpdateWrites DEF VerifyConstraint
  <2>2. /\ verified' = verified \cup {VerificationRow(a, Id(a))} /\ UNCHANGED links
        /\ audited' = audited \cup {[id |-> Id(a), version |-> NewVersion(a)]}
        /\ rows[Id(a)].status = "Under Review"
    BY <1>3, <1>10 DEF VerifyConstraint
  <2> QED
    BY <1>1, <1>2, <1>3, <1>4, <1>5, <1>7, <2>1, <2>2
<1>11. CASE SupersedeConstraint(a, Id(a))
  <2>1. RowUpdated(Id(a)) /\ rows'[Id(a)].status = "Superseded"
    BY <1>2, <1>3, <1>6, <1>11, UpdateWrites DEF SupersedeConstraint
  <2>2. UNCHANGED <<links, verified, audited>>
    BY <1>11 DEF SupersedeConstraint
  <2> QED
    BY <1>1, <1>2, <1>3, <1>4, <1>5, <1>7, <2>1, <2>2
<1> QED
  BY <1>8, <1>9, <1>10, <1>11 DEF Commit

LEMMA CommitKeeps ==
  ASSUME ReviewInvariant, NEW a \in Attempts, Commit(a)
  PROVE  ReviewInvariant'
<1> DEFINE id == Id(a)
           row == VerificationRow(a, Id(a))
           event == [id |-> Id(a), version |-> NewVersion(a)]
<1>1. /\ attempt[a] # None /\ attempt[a].at = "locked" /\ id \in Ids /\ holder[id] = a
      /\ rows[id] # None /\ rows[id] \in Row
      /\ links' \subseteq [id: Ids, doc: Docs, at: Nat]
      /\ changes' = changes \cup {<<id, a>>} /\ <<id, a>> \notin changes
  BY CommitWrites
<1>2. /\ rows' \in [Ids -> Row \cup {None}]
      /\ rows'[id] # None /\ rows'[id].version = rows[id].version + 1
      /\ \A j \in Ids \ {id} : rows'[j] = rows[j]
      /\ \A j \in Ids : rows[j] # None => rows'[j] # None
  BY CommitWrites DEF RowUpdated
<1>3. \/ /\ verified' = verified /\ audited' = audited
         /\ rows'[id].status = "Under Review" => Op(a) = "submit"
      \/ /\ verified' = verified \cup {row} /\ audited' = audited \cup {event}
         /\ rows'[id].status # "Under Review" /\ rows[id].status = "Under Review"
  BY CommitWrites
<1>4. /\ Unlock(a) /\ Conclude(a, "ok") /\ "ok" \in Answer /\ UNCHANGED <<kept, now>>
      /\ attempt \in [Attempts -> Delivery \cup {None}]
  BY DEF Commit, Answer, ReviewInvariant, Shapes
<1>5. /\ attempt' \in [Attempts -> Delivery \cup {None}]
      /\ attempt'[a] # None /\ attempt'[a].req = attempt[a].req /\ attempt'[a].at = "answer"
      /\ attempt'[a].reply \in Answer
      /\ \A b \in Attempts \ {a} : attempt'[b] = attempt[b]
  BY <1>1, <1>4, Concluded
<1>6. RequestsKept
  BY <1>5 DEF RequestsKept
<1>7. row.id = id /\ row.by = a /\ row \notin verified
  BY <1>1 DEF VerificationRow, ReviewInvariant, OneChangeEach
<1>8. event \in [id: Ids, version: Nat]
  BY CommitWrites
<1> HIDE DEF row, event
<1>9. rows'[id].version = Cardinality(ChangesOf(id)) + 1 + Earlier(id)
  <2>1. Cardinality(ChangesOf(id)) \in Nat /\ Earlier(id) \in Nat
    BY FiniteCounts DEF Earlier
  <2>2. rows[id].version = Cardinality(ChangesOf(id)) + Earlier(id)
    BY <1>1 DEF ReviewInvariant, Counted, CountedFor
  <2> QED
    BY <1>2, <2>1, <2>2
<1>10. Shapes'
  <2>1. audited' \subseteq [id: Ids, version: Nat]
    BY <1>3, <1>8 DEF ReviewInvariant, Shapes
  <2>2. holder' \in [Ids -> Attempts \cup {None}]
    BY <1>4 DEF Unlock, ReviewInvariant, Shapes
  <2>3. changes' \subseteq Ids \X Attempts /\ IsFiniteSet(changes')
    BY <1>1, FS_AddElement DEF ReviewInvariant, Shapes
  <2> QED
    BY <1>1, <1>2, <1>4, <1>5, <2>1, <2>2, <2>3 DEF ReviewInvariant, Shapes
<1>11. Addressed'
  BY <1>1, <1>2, <1>5, AddressedKeeps DEF ReviewInvariant
<1>12. LockHeld'
  <2> SUFFICES ASSUME NEW b \in Attempts, attempt'[b] # None, attempt'[b].at = "locked"
               PROVE  holder'[Id(b)'] = b /\ attempt'[b].seen = rows'[Id(b)']
    BY DEF LockHeld
  <2>1. b # a /\ attempt'[b] = attempt[b] /\ Id(b)' = Id(b)
    BY <1>5 DEF Id
  <2>2. holder[Id(b)] = b /\ attempt[b].seen = rows[Id(b)] /\ Op(b) # "create"
    BY <2>1 DEF ReviewInvariant, LockHeld, Addressed
  <2>3. Id(b) \in Ids /\ Id(b) # id
    BY <1>1, <2>1, <2>2, AddressedIds DEF ReviewInvariant
  <2>4. holder'[Id(b)] = b
    BY <1>4, <2>1, <2>2, <2>3 DEF Unlock
  <2> QED
    BY <1>2, <2>1, <2>2, <2>3, <2>4
<1>13. Counted' /\ IsFiniteSet(verified')
  BY <1>1, <1>2, <1>3, <1>6, <1>7, <1>9, ChangeCounted
<1>14. OneChangeEach'
  <2>1. \A v \in verified' : <<v.id, v.by>> \in changes'
    BY <1>1, <1>3, <1>7 DEF ReviewInvariant, OneChangeEach
  <2>2. \A c \in changes' : attempt'[c[2]] # None /\ attempt'[c[2]].at \in {"answer", "done", "replayed", "lost"}
    <3> SUFFICES ASSUME NEW c \in changes'
                 PROVE  attempt'[c[2]] # None /\ attempt'[c[2]].at \in {"answer", "done", "replayed", "lost"}
      OBVIOUS
    <3>1. CASE c \in changes
      BY <1>1, <1>5, <3>1 DEF ReviewInvariant, OneChangeEach, Shapes
    <3>2. CASE c = <<id, a>>
      BY <1>5, <3>2
    <3> QED
      BY <1>1, <3>1, <3>2
  <2> QED
    BY <1>13, <2>1, <2>2 DEF OneChangeEach
<1> QED
  BY <1>10, <1>11, <1>12, <1>13, <1>14 DEF ReviewInvariant

-----------------------------------------------------------------------------
(* Every behaviour. *)

LEMMA InitReviews ==
  ASSUME Init
  PROVE  ReviewInvariant
<1> DEFINE draft == [status |-> "Draft", version |-> 1]
<1>1. draft \in Row /\ draft.version = 1 /\ draft.status # "Under Review"
  BY DEF Row, Status
<1>2. rows = [id \in Ids |-> IF id \in Existing THEN draft ELSE None]
  BY DEF Init
<1> HIDE DEF draft
<1>3. draft # None
  BY <1>1, NoneAssumption
<1>4. /\ links = {} /\ verified = {} /\ audited = {} /\ changes = {} /\ kept = {} /\ now = 0
      /\ holder = [id \in Ids |-> None] /\ attempt = [a \in Attempts |-> None]
  BY DEF Init
<1>5. Shapes /\ Addressed /\ LockHeld /\ OneChangeEach
  BY <1>1, <1>2, <1>3, <1>4, FS_EmptySet DEF Shapes, Addressed, LockHeld, OneChangeEach
<1>6. Counted
  <2> SUFFICES ASSUME NEW id \in Ids
               PROVE  CountedFor(id)
    BY DEF Counted
  <2>1. ChangesOf(id) = {} /\ VerifiedOf(id) = {} /\ Submissions(id) = {}
    BY <1>4 DEF ChangesOf, VerifiedOf, Submissions
  <2>2. /\ Cardinality(ChangesOf(id)) = 0
        /\ Cardinality(VerifiedOf(id)) = 0 /\ Cardinality(Submissions(id)) = 0
    BY <2>1, FS_EmptySet
  <2>3. CASE id \in Existing
    <3>1. rows[id] # None /\ rows[id].version = 1 /\ rows[id].status # "Under Review"
      BY <1>1, <1>2, <1>3, <2>3
    <3>2. Earlier(id) = 1
      BY <2>3 DEF Earlier
    <3> QED
      <4>1. 0 + 1 = 1
        OBVIOUS
      <4>2. rows[id].version = Cardinality(ChangesOf(id)) + Earlier(id)
        BY <2>2, <3>1, <3>2, <4>1, Zenon
      <4>3. Cardinality(VerifiedOf(id)) <= Cardinality(Submissions(id))
        BY <2>2
      <4> QED
        BY <3>1, <4>2, <4>3, Zenon DEF CountedFor
  <2>4. CASE id \notin Existing
    BY <1>2, <2>1, <2>2, <2>4 DEF CountedFor
  <2> QED
    BY <2>3, <2>4
<1> QED
  BY <1>5, <1>6 DEF ReviewInvariant

LEMMA ReviewStep ==
  ASSUME ReviewInvariant, [Next]_vars
  PROVE  ReviewInvariant'
<1>1. ASSUME NEW a \in Attempts, Deliver(a) PROVE ReviewInvariant'
  BY <1>1, DeliverKeeps
<1>2. ASSUME NEW a \in Attempts, Step(a) PROVE ReviewInvariant'
  BY <1>2, CreateKeeps, BeginKeeps, LockKeeps, CommitKeeps, RefuseKeeps, RespondKeeps DEF Step
<1>3. ASSUME NEW a \in Attempts, Fail(a) PROVE ReviewInvariant'
  BY <1>3, FailKeeps
<1>4. CASE Restart
  BY <1>4, RestartKeeps
<1>5. CASE UNCHANGED vars
  BY <1>5 DEF vars, store, ReviewInvariant, Shapes, Addressed, LockHeld, OneChangeEach,
    Counted, CountedFor, ChangesOf, VerifiedOf, Submissions, Op, Id
<1> QED
  BY <1>1, <1>2, <1>3, <1>4, <1>5 DEF Next

\* The invariant holds whatever is delivered, fails or is restarted.
THEOREM ReviewsSafe == Spec => []ReviewInvariant
<1>1. ReviewInvariant /\ [Next]_vars => ReviewInvariant'
  BY ReviewStep
<1> QED
  BY InitReviews, <1>1, PTL DEF Spec

\* A constraint's version counts its committed changes: none is overwritten.
THEOREM VersionsCount == Spec => []VersionCountsChanges
<1>1. ReviewInvariant => VersionCountsChanges
  BY DEF ReviewInvariant, Counted, CountedFor, VersionCountsChanges
<1> QED
  BY ReviewsSafe, <1>1, PTL

\* Each verification has a submission of its own, however many review at once.
THEOREM VerificationsAreReviewed == Spec => []OneVerificationPerReview
<1>1. ReviewInvariant => OneVerificationPerReview
  BY DEF ReviewInvariant, Counted, CountedFor, OneVerificationPerReview, VerifiedOf, Submissions
<1> QED
  BY ReviewsSafe, <1>1, PTL

-----------------------------------------------------------------------------
(* Evidence. *)

\* Nothing becomes verified, and no evidence is added.
LEMMA EvidenceKept ==
  ASSUME VerifiedHasEvidence, UNCHANGED <<verified, audited>>,
         \A id \in Ids : rows'[id] # None /\ rows'[id].status = "Verified" => rows'[id] = rows[id]
  PROVE  VerifiedHasEvidence'
BY DEF VerifiedHasEvidence

LEMMA CommitEvidence ==
  ASSUME ReviewInvariant, VerifiedHasEvidence, NEW a \in Attempts, Commit(a)
  PROVE  VerifiedHasEvidence'
<1> DEFINE id == Id(a)
           row == VerificationRow(a, Id(a))
           event == [id |-> Id(a), version |-> NewVersion(a)]
<1>1. /\ \A j \in Ids \ {id} : rows'[j] = rows[j]
      /\ rows'[id] # None /\ rows'[id].version = rows[id].version + 1
  BY CommitWrites DEF RowUpdated
<1>2. id \in Ids /\ NewVersion(a) = rows[id].version + 1
  BY CommitWrites
<1>3. CASE verified' = verified /\ audited' = audited /\ rows'[id].status # "Verified"
  BY <1>1, <1>2, <1>3, EvidenceKept
<1>4. CASE verified' = verified \cup {row} /\ audited' = audited \cup {event}
  <2>1. /\ row.id = id /\ row.version = NewVersion(a)
        /\ event.id = id /\ event.version = NewVersion(a)
    BY DEF VerificationRow
  <2> HIDE DEF row, event
  <2>2. \A j \in Ids : rows'[j] # None /\ rows'[j].status = "Verified" =>
          \E v \in verified' : v.id = j /\ v.version = rows'[j].version
    <3> SUFFICES ASSUME NEW j \in Ids, rows'[j] # None, rows'[j].status = "Verified"
                 PROVE  \E v \in verified' : v.id = j /\ v.version = rows'[j].version
      OBVIOUS
    <3>1. CASE j = id
      BY <1>1, <1>2, <1>4, <2>1, <3>1
    <3>2. CASE j # id
      BY <1>1, <1>4, <3>2 DEF VerifiedHasEvidence
    <3> QED
      BY <3>1, <3>2
  <2>3. {<<v.id, v.version>> : v \in verified'} = {<<e.id, e.version>> : e \in audited'}
    <3>1. {<<v.id, v.version>> : v \in verified'}
            = {<<v.id, v.version>> : v \in verified} \cup {<<id, NewVersion(a)>>}
      BY <1>4, <2>1
    <3>2. {<<e.id, e.version>> : e \in audited'}
            = {<<e.id, e.version>> : e \in audited} \cup {<<id, NewVersion(a)>>}
      BY <1>4, <2>1
    <3> QED
      BY <3>1, <3>2 DEF VerifiedHasEvidence
  <2> QED
    BY <2>2, <2>3 DEF VerifiedHasEvidence
<1> QED
  BY <1>3, <1>4, CommitWrites

LEMMA CreateEvidence ==
  ASSUME ReviewInvariant, VerifiedHasEvidence, NEW a \in Attempts, Create(a)
  PROVE  VerifiedHasEvidence'
<1> DEFINE r == [status |-> "Draft", version |-> 1]
<1>1. PICK id \in Ids : rows' = [rows EXCEPT ![id] = r]
  BY DEF Create
<1>2. r \in Row /\ r.status # "Verified"
  BY DEF Row, Status
<1> HIDE DEF r
<1>3. rows'[id] = r /\ \A j \in Ids \ {id} : rows'[j] = rows[j]
  BY <1>1, <1>2, RowWritten DEF ReviewInvariant, Shapes
<1>4. UNCHANGED <<verified, audited>>
  BY DEF Create
<1> QED
  BY <1>2, <1>3, <1>4, EvidenceKept

\* A verified constraint has the verification and the audit event of its version.
THEOREM EvidenceSafe == Spec => []VerifiedHasEvidence
<1>1. Init => VerifiedHasEvidence
  <2> SUFFICES ASSUME Init
               PROVE  VerifiedHasEvidence
    OBVIOUS
  <2>1. \A id \in Ids : rows[id] # None => rows[id].status = "Draft"
    BY DEF Init
  <2>2. verified = {} /\ audited = {}
    BY DEF Init
  <2> QED
    BY <2>1, <2>2 DEF VerifiedHasEvidence
<1>2. ReviewInvariant /\ VerifiedHasEvidence /\ [Next]_vars => VerifiedHasEvidence'
  <2> SUFFICES ASSUME ReviewInvariant, VerifiedHasEvidence, [Next]_vars
               PROVE  VerifiedHasEvidence'
    OBVIOUS
  <2>1. ASSUME UNCHANGED store PROVE VerifiedHasEvidence'
    BY <2>1, EvidenceKept DEF store
  <2>2. ASSUME NEW a \in Attempts, Deliver(a) \/ Fail(a) PROVE UNCHANGED store
    BY <2>2 DEF Deliver, Fail
  <2>3. ASSUME NEW a \in Attempts, Step(a) PROVE UNCHANGED store \/ Create(a) \/ Commit(a)
    BY <2>3 DEF Step, Begin, Lock, Refuse, Respond
  <2>4. CASE Restart \/ UNCHANGED vars
    BY <2>1, <2>4 DEF Restart, vars
  <2> QED
    BY <2>1, <2>2, <2>3, <2>4, CreateEvidence, CommitEvidence DEF Next
<1> QED
  BY ReviewsSafe, <1>1, <1>2, PTL DEF Spec

-----------------------------------------------------------------------------
(* Replays. *)

\* The delivery that was given an answer, by the handler and not by the guard.
Given(deliveries, b, reply) ==
  deliveries[b] # None /\ deliveries[b].at = "done" /\ deliveries[b].reply = reply

\* A kept answer is the one a delivery of its slot and payload was given.
ReplayInvariant ==
  /\ \A k \in kept : \E b \in Attempts :
       Given(attempt, b, k.reply) /\ Slot(attempt[b].req) = k.slot /\ attempt[b].req.doc = k.payload
  /\ \A k, l \in kept : k.slot = l.slot => k = l
  /\ \A a \in Attempts : attempt[a] # None /\ attempt[a].at = "replayed" =>
       \E b \in Attempts : Given(attempt, b, attempt[a].reply) /\ attempt[b].req = attempt[a].req

\* A request is its slot and its payload.
LEMMA SlotAndPayload ==
  ASSUME NEW r \in Requests, NEW q \in Requests, Slot(r) = Slot(q), r.doc = q.doc
  PROVE  r = q
<1>1. r \in Request /\ q \in Request
  BY RequestsAssumption
<1>2. r.op = q.op /\ r.id = q.id /\ r.key = q.key
  BY DEF Slot
<1>3. /\ r = [op |-> r.op, id |-> r.id, doc |-> r.doc, key |-> r.key]
      /\ q = [op |-> q.op, id |-> q.id, doc |-> q.doc, key |-> q.key]
  BY <1>1 DEF Request
<1> QED
  BY <1>2, <1>3

\* Answers given stay, nothing is kept anew and nothing is replayed.
LEMMA AnswersStay ==
  ASSUME ReplayInvariant, kept' \subseteq kept,
         \A b \in Attempts : attempt[b] # None /\ attempt[b].at = "done" => attempt'[b] = attempt[b],
         \A b \in Attempts : attempt'[b] # None /\ attempt'[b].at = "replayed" => attempt'[b] = attempt[b]
  PROVE  ReplayInvariant'
<1>1. ASSUME NEW b \in Attempts, NEW reply, Given(attempt, b, reply)
      PROVE  Given(attempt', b, reply) /\ attempt'[b] = attempt[b]
  BY <1>1 DEF Given
<1>2. \A k \in kept' : \E b \in Attempts :
        Given(attempt', b, k.reply) /\ Slot(attempt'[b].req) = k.slot /\ attempt'[b].req.doc = k.payload
  BY <1>1 DEF ReplayInvariant
<1>3. \A a \in Attempts : attempt'[a] # None /\ attempt'[a].at = "replayed" =>
        \E b \in Attempts : Given(attempt', b, attempt'[a].reply) /\ attempt'[b].req = attempt'[a].req
  BY <1>1 DEF ReplayInvariant
<1> QED
  BY <1>2, <1>3 DEF ReplayInvariant, Given

LEMMA DeliverReplays ==
  ASSUME ReviewInvariant, ReplayInvariant, NEW a \in Attempts, Deliver(a)
  PROVE  ReplayInvariant'
<1>1. attempt[a] = None /\ attempt \in [Attempts -> Delivery \cup {None}] /\ kept' = kept
  BY DEF Deliver, ReviewInvariant, Shapes
<1>2. PICK r \in Requests : attempt' = [attempt EXCEPT ![a] = Admit(r)]
  BY DEF Deliver
<1>3. attempt'[a] = Admit(r) /\ \A b \in Attempts \ {a} : attempt'[b] = attempt[b]
  BY <1>1, <1>2
<1> DEFINE found == {k \in kept : k.slot = Slot(r)}
<1>4. CASE found # {} /\ \E k \in found : k.payload = r.doc
  <2>1. PICK k \in kept : k.slot = Slot(r) /\ k.payload = r.doc
    BY <1>4
  <2>2. (CHOOSE l \in found : TRUE) \in found
    BY <1>4
  <2>3. (CHOOSE l \in found : TRUE) = k
    BY <2>1, <2>2 DEF ReplayInvariant
  <2>4. Admit(r) = Replying(r, "replayed", k.reply)
    BY <1>4, <2>3 DEF Admit
  <2>5. PICK b \in Attempts : /\ Given(attempt, b, k.reply) /\ Slot(attempt[b].req) = k.slot
                              /\ attempt[b].req.doc = k.payload
    BY DEF ReplayInvariant
  <2>6. attempt[b].req \in Requests /\ b # a
    BY <1>1, <2>5 DEF Given, Delivery
  <2>7. attempt[b].req = r
    BY <2>1, <2>5, <2>6, SlotAndPayload
  <2>8. attempt'[a].reply = k.reply /\ attempt'[a].req = r
    BY <1>3, <2>4 DEF Replying
  <2>9. \A reply : \A c \in Attempts : Given(attempt, c, reply) => Given(attempt', c, reply) /\ attempt'[c] = attempt[c]
    BY <1>1, <1>3 DEF Given
  <2>10. \A l \in kept' : \E c \in Attempts :
          Given(attempt', c, l.reply) /\ Slot(attempt'[c].req) = l.slot /\ attempt'[c].req.doc = l.payload
    BY <1>1, <2>9 DEF ReplayInvariant
  <2>11. \A c \in Attempts : attempt'[c] # None /\ attempt'[c].at = "replayed" =>
          \E d \in Attempts : Given(attempt', d, attempt'[c].reply) /\ attempt'[d].req = attempt'[c].req
    <3> SUFFICES ASSUME NEW c \in Attempts, attempt'[c] # None, attempt'[c].at = "replayed"
                 PROVE  \E d \in Attempts : Given(attempt', d, attempt'[c].reply) /\ attempt'[d].req = attempt'[c].req
      OBVIOUS
    <3>1. CASE c = a
      BY <2>5, <2>7, <2>8, <2>9, <3>1
    <3>2. CASE c # a
      BY <1>3, <2>9, <3>2 DEF ReplayInvariant
    <3> QED
      BY <3>1, <3>2
  <2> QED
    BY <1>1, <2>10, <2>11 DEF ReplayInvariant, Given
<1>5. CASE ~(found # {} /\ \E k \in found : k.payload = r.doc)
  <2>1. Admit(r) = Fresh(r) \/ Admit(r) = Replying(r, "done", "refused")
    BY <1>5 DEF Admit
  <2>2. Admit(r).at \in {"handler", "done"}
    BY <2>1 DEF Fresh, Replying
  <2> QED
    BY <1>1, <1>3, <2>2, AnswersStay
<1> QED
  BY <1>4, <1>5

\* What is kept is the answer the delivery is given.
LEMMA RespondReplays ==
  ASSUME ReviewInvariant, ReplayInvariant, NEW a \in Attempts, Respond(a)
  PROVE  ReplayInvariant'
<1>1. /\ attempt[a] # None /\ attempt[a].at = "answer"
      /\ attempt'[a] # None /\ attempt'[a].at = "done"
      /\ attempt'[a].req = attempt[a].req /\ attempt'[a].reply = attempt[a].reply
      /\ \A b \in Attempts \ {a} : attempt'[b] = attempt[b]
  BY RespondMoves DEF ReviewInvariant
<1> DEFINE r == attempt[a].req
           new == [slot |-> Slot(r), payload |-> r.doc, reply |-> attempt[a].reply]
<1>2. kept' = {k \in kept : k.slot # Slot(r)} \cup {new}
  BY DEF Respond
<1>3. new.slot = Slot(r) /\ new.payload = r.doc /\ new.reply = attempt[a].reply
  OBVIOUS
<1> HIDE DEF new
<1>4. \A reply : \A c \in Attempts : Given(attempt, c, reply) => Given(attempt', c, reply) /\ attempt'[c] = attempt[c]
  BY <1>1 DEF Given
<1>5. Given(attempt', a, new.reply)
  BY <1>1, <1>3 DEF Given
<1>6. \A k \in kept' : \E b \in Attempts :
        Given(attempt', b, k.reply) /\ Slot(attempt'[b].req) = k.slot /\ attempt'[b].req.doc = k.payload
  <2> SUFFICES ASSUME NEW k \in kept'
               PROVE  \E b \in Attempts :
                        Given(attempt', b, k.reply) /\ Slot(attempt'[b].req) = k.slot /\ attempt'[b].req.doc = k.payload
    OBVIOUS
  <2>1. CASE k = new
    BY <1>1, <1>3, <1>5, <2>1
  <2>2. CASE k # new
    BY <1>2, <1>4, <2>2 DEF ReplayInvariant
  <2> QED
    BY <2>1, <2>2
<1>7. \A k, l \in kept' : k.slot = l.slot => k = l
  BY <1>2, <1>3 DEF ReplayInvariant
<1>8. \A c \in Attempts : attempt'[c] # None /\ attempt'[c].at = "replayed" =>
        \E d \in Attempts : Given(attempt', d, attempt'[c].reply) /\ attempt'[d].req = attempt'[c].req
  BY <1>1, <1>4 DEF ReplayInvariant
<1> QED
  BY <1>6, <1>7, <1>8 DEF ReplayInvariant, Given

\* A replayed answer is the one another delivery of the same request was given.
THEOREM ReplaysSafe == Spec => []ReplayIsTheAnswer
<1>1. Init => ReplayInvariant
  BY DEF Init, ReplayInvariant
<1>2. ReviewInvariant /\ ReplayInvariant /\ [Next]_vars => ReplayInvariant'
  <2> SUFFICES ASSUME ReviewInvariant, ReplayInvariant, [Next]_vars
               PROVE  ReplayInvariant'
    OBVIOUS
  <2>1. attempt \in [Attempts -> Delivery \cup {None}]
    BY DEF ReviewInvariant, Shapes
  <2>2. ASSUME NEW a \in Attempts, attempt[a] # None, attempt[a].at # "done", kept' = kept,
               attempt'[a].at # "replayed", \A b \in Attempts \ {a} : attempt'[b] = attempt[b]
        PROVE  ReplayInvariant'
    BY <2>2, AnswersStay
  <2>3. ASSUME NEW a \in Attempts, Create(a) \/ Commit(a) \/ Refuse(a) \/ Fail(a)
        PROVE  ReplayInvariant'
    <3>1. /\ attempt[a] # None /\ attempt[a].at # "done" /\ kept' = kept
          /\ \E reply \in Answer : Conclude(a, reply)
      BY <2>3 DEF Create, Commit, Refuse, Fail, Running, Answer
    <3>2. attempt'[a].at = "answer" /\ \A b \in Attempts \ {a} : attempt'[b] = attempt[b]
      BY <2>1, <3>1, Concluded
    <3> QED
      BY <2>2, <3>1, <3>2
  <2>4. ASSUME NEW a \in Attempts, Begin(a) \/ Lock(a)
        PROVE  ReplayInvariant'
    <3>1. /\ attempt[a] # None /\ attempt[a] \in Delivery /\ attempt[a].at # "done" /\ kept' = kept
      BY <2>1, <2>4 DEF Begin, Lock, Running
    <3>2. /\ attempt'[a].at \in {"begun", "locked"}
          /\ \A b \in Attempts \ {a} : attempt'[b] = attempt[b]
      BY <2>1, <2>4, <3>1 DEF Begin, Lock, Delivery
    <3> QED
      BY <2>2, <3>1, <3>2
  <2>5. CASE Restart
    <3>1. kept' = {}
      BY <2>5 DEF Restart
    <3>2. \A b \in Attempts : attempt'[b] = IF Running(b) THEN [attempt[b] EXCEPT !.at = "lost"] ELSE attempt[b]
      BY <2>5 DEF Restart
    <3>3. \A b \in Attempts : Running(b) => attempt[b].at # "done" /\ attempt'[b].at = "lost"
      BY <2>1, <3>2 DEF Running, Delivery
    <3> QED
      BY <3>1, <3>2, <3>3, AnswersStay
  <2>6. CASE UNCHANGED vars
    BY <2>6, AnswersStay DEF vars
  <2> QED
    BY <2>3, <2>4, <2>5, <2>6, DeliverReplays, RespondReplays DEF Next, Step
<1>3. ReplayInvariant => ReplayIsTheAnswer
  BY DEF ReplayInvariant, Given, ReplayIsTheAnswer
<1> QED
  BY ReviewsSafe, <1>1, <1>2, <1>3, PTL DEF Spec

-----------------------------------------------------------------------------
(* Every variable holds what it should: a link is found whenever it is taken. *)

LEMMA SmallestNat ==
  ASSUME NEW S \in SUBSET Nat, S # {}
  PROVE  \E n \in S : \A m \in S : n <= m
<1> DEFINE T == {0..n : n \in S}
<1>1. T \subseteq FiniteSubsetsOf(Nat) /\ T # {}
  <2>1. \A n \in Nat : IsFiniteSet(0..n) /\ 0..n \in SUBSET Nat
    BY FS_Interval
  <2> QED
    BY <2>1 DEF FiniteSubsetsOf
<1>2. PICK x \in T : \A y \in T : <<y, x>> \notin StrictSubsetOrdering(Nat)
  BY <1>1, FS_StrictSubsetOrderingWellFounded, WFMin
<1>3. PICK n \in S : x = 0..n
  BY <1>2
<1>4. ASSUME NEW m \in S, ~(n <= m) PROVE FALSE
  <2>1. 0..m \in T /\ 0..m \in SUBSET Nat /\ 0..n \in SUBSET Nat
    OBVIOUS
  <2>2. 0..m \subseteq 0..n /\ n \in 0..n /\ n \notin 0..m
    BY <1>4
  <2>3. <<0..m, 0..n>> \in StrictSubsetOrdering(Nat)
    BY <2>1, <2>2 DEF StrictSubsetOrdering
  <2> QED
    BY <1>2, <1>3, <2>1, <2>3
<1> QED
  BY <1>4

\* No link and no transaction is of a later time than the present.
Dated ==
  /\ \A l \in links : l.at <= now
  /\ \A a \in Attempts : attempt[a] # None => attempt[a].began <= now

TypedRows == verified \subseteq [id: Ids, doc: Docs, version: Nat, by: Attempts]

TypeInvariant == ReviewInvariant /\ Dated /\ TypedRows

\* NewestLink finds, for a constraint with links, one of them, and none is newer.
LEMMA NewestIsALink ==
  ASSUME Shapes, Dated, NEW id \in Ids, LinksOf(id) # {}
  PROVE  /\ NewestLink(id) \in LinksOf(id)
         /\ \A m \in LinksOf(id) : m.at <= NewestLink(id).at
<1> DEFINE S == {now - l.at : l \in LinksOf(id)}
<1>1. \A l \in LinksOf(id) : l.at \in Nat /\ l.at <= now
  BY DEF LinksOf, Shapes, Dated
<1>2. now \in Nat
  BY DEF Shapes
<1>3. S \in SUBSET Nat /\ S # {}
  BY <1>1, <1>2
<1>4. PICK n \in S : \A m \in S : n <= m
  BY <1>3, SmallestNat
<1>5. PICK l \in LinksOf(id) : n = now - l.at
  BY <1>4
<1>6. \A m \in LinksOf(id) : m.at <= l.at
  <2> SUFFICES ASSUME NEW m \in LinksOf(id) PROVE m.at <= l.at
    OBVIOUS
  <2>1. now - l.at <= now - m.at
    BY <1>4, <1>5
  <2> QED
    BY <1>1, <1>2, <2>1
<1> QED
  BY <1>6 DEF NewestLink

\* Time does not run backwards, and only transactions under way make links.
LEMMA DatedKept ==
  ASSUME TypeInvariant, [Next]_vars
  PROVE  Dated'
<1>1. /\ now \in Nat /\ \A l \in links : l.at \in Nat /\ l.at <= now
      /\ attempt \in [Attempts -> Delivery \cup {None}]
      /\ \A a \in Attempts : attempt[a] # None =>
           attempt[a] \in Delivery /\ attempt[a].began \in Nat /\ attempt[a].began <= now
  BY DEF TypeInvariant, ReviewInvariant, Shapes, Dated, Delivery
<1>2. ASSUME NEW a \in Attempts, Deliver(a) PROVE Dated'
  <2>1. PICK r \in Requests : attempt' = [attempt EXCEPT ![a] = Admit(r)]
    BY <1>2 DEF Deliver
  <2>2. Admit(r).began = 0
    BY DEF Admit, Fresh, Replying
  <2>3. UNCHANGED <<links, now>>
    BY <1>2 DEF Deliver, store
  <2> QED
    BY <1>1, <2>1, <2>2, <2>3 DEF Dated
<1>3. ASSUME NEW a \in Attempts, Begin(a) PROVE Dated'
  <2>1. /\ attempt' = [attempt EXCEPT ![a].at = "begun", ![a].began = now + 1]
        /\ UNCHANGED links /\ now' = now + 1
    BY <1>3 DEF Begin, store
  <2>2. attempt'[a].began = now + 1 \/ attempt'[a].began = attempt[a].began
    BY <1>1, <2>1 DEF Delivery
  <2>3. attempt[a] # None
    BY <1>3 DEF Begin, Running
  <2>4. \A b \in Attempts \ {a} : attempt'[b] = attempt[b]
    BY <1>1, <2>1
  <2> QED
    BY <1>1, <2>1, <2>2, <2>3, <2>4 DEF Dated
<1>4. ASSUME UNCHANGED now,
             \A l \in links' : l \in links \/ \E a \in Attempts : attempt[a] # None /\ l.at = attempt[a].began,
             \A a \in Attempts : attempt'[a] # None =>
                attempt[a] # None /\ attempt'[a].began = attempt[a].began
      PROVE  Dated'
  BY <1>1, <1>4 DEF Dated
<1>5. ASSUME NEW a \in Attempts, Running(a),
             \/ \E reply : Conclude(a, reply)
             \/ \E row : attempt' = [attempt EXCEPT ![a].at = "locked", ![a].seen = row]
             \/ attempt' = [attempt EXCEPT ![a].at = "done"]
      PROVE  \A b \in Attempts : attempt'[b] # None =>
                attempt[b] # None /\ attempt'[b].began = attempt[b].began
  BY <1>1, <1>5 DEF Conclude, Running, Delivery
<1>6. ASSUME NEW a \in Attempts, Create(a) \/ Lock(a) \/ Refuse(a) \/ Respond(a) \/ Fail(a)
      PROVE  Dated'
  <2>1. UNCHANGED <<links, now>> /\ Running(a)
    BY <1>6 DEF Create, Lock, Refuse, Respond, Fail, store
  <2>2. \/ \E reply : Conclude(a, reply)
        \/ \E row : attempt' = [attempt EXCEPT ![a].at = "locked", ![a].seen = row]
        \/ attempt' = [attempt EXCEPT ![a].at = "done"]
    BY <1>6 DEF Create, Lock, Refuse, Respond, Fail
  <2> QED
    BY <1>4, <1>5, <2>1, <2>2
<1>7. ASSUME NEW a \in Attempts, Commit(a) PROVE Dated'
  <2>1. UNCHANGED now /\ Running(a) /\ Conclude(a, "ok") /\ attempt[a] # None
    BY <1>7 DEF Commit, Running
  <2>2. \A l \in links' : l \in links \/ l.at = attempt[a].began
    <3>1. CASE AttachSource(a, Id(a))
      <4> DEFINE l == [id |-> Id(a), doc |-> attempt[a].req.doc, at |-> attempt[a].began]
      <4>1. links' = links \cup {l}
        BY <3>1 DEF AttachSource
      <4>2. l.at = attempt[a].began
        OBVIOUS
      <4> HIDE DEF l
      <4> QED
        BY <4>1, <4>2
    <3>2. CASE UNCHANGED links
      BY <3>2
    <3> QED
      BY <1>7, <3>1, <3>2 DEF Commit, SubmitForReview, VerifyConstraint, SupersedeConstraint
  <2> QED
    BY <1>4, <1>5, <2>1, <2>2
<1>8. CASE Restart
  <2>1. UNCHANGED <<links, now>>
    BY <1>8 DEF Restart, store
  <2>2. \A b \in Attempts : attempt'[b] # None =>
          attempt[b] # None /\ attempt'[b].began = attempt[b].began
    BY <1>1, <1>8 DEF Restart, Running, Delivery
  <2> QED
    BY <1>4, <2>1, <2>2
<1>9. CASE UNCHANGED vars
  BY <1>9 DEF vars, store, TypeInvariant, Dated
<1> QED
  BY <1>2, <1>3, <1>6, <1>7, <1>8, <1>9 DEF Next, Step

LEMMA VerifiedTyped ==
  ASSUME TypeInvariant, [Next]_vars
  PROVE  TypedRows'
<1>1. CASE UNCHANGED verified
  BY <1>1 DEF TypeInvariant, TypedRows
<1>2. ASSUME NEW a \in Attempts, Commit(a) PROVE TypedRows'
  <2>1. CASE VerifyConstraint(a, Id(a))
    <3>1. LinksOf(Id(a)) # {} /\ verified' = verified \cup {VerificationRow(a, Id(a))}
      BY <2>1 DEF VerifyConstraint
    <3>2. Id(a) \in Ids /\ NewVersion(a) \in Nat
      BY <1>2, CommitWrites DEF TypeInvariant
    <3>3. NewestLink(Id(a)) \in LinksOf(Id(a))
      BY <3>1, <3>2, NewestIsALink DEF TypeInvariant, ReviewInvariant
    <3>4. NewestLink(Id(a)).doc \in Docs
      BY <3>3 DEF LinksOf, TypeInvariant, ReviewInvariant, Shapes
    <3>5. VerificationRow(a, Id(a)) \in [id: Ids, doc: Docs, version: Nat, by: Attempts]
      BY <3>2, <3>4 DEF VerificationRow
    <3> QED
      BY <3>1, <3>5 DEF TypeInvariant, TypedRows
  <2>2. CASE ~VerifyConstraint(a, Id(a))
    <3>1. UNCHANGED verified
      BY <1>2, <2>2 DEF Commit, AttachSource, SubmitForReview, SupersedeConstraint
    <3> QED
      BY <1>1, <3>1
  <2> QED
    BY <2>1, <2>2
<1>3. ASSUME NEW a \in Attempts,
             Deliver(a) \/ Create(a) \/ Begin(a) \/ Lock(a) \/ Refuse(a) \/ Respond(a) \/ Fail(a)
      PROVE  UNCHANGED verified
  BY <1>3 DEF Deliver, Create, Begin, Lock, Refuse, Respond, Fail, store
<1>4. CASE Restart
  BY <1>1, <1>4 DEF Restart, store
<1>5. CASE UNCHANGED vars
  BY <1>1, <1>5 DEF vars, store
<1> QED
  BY <1>1, <1>2, <1>3, <1>4, <1>5 DEF Next, Step

\* Tables, locks, requests and kept answers hold what they should; in particular a
\* verification names a document revision that is linked, and every lock's owner is
\* the transaction that works on the row.
THEOREM ConstraintsTyped == Spec => []TypeOK
<1>1. Init => TypeInvariant
  BY InitReviews DEF Init, TypeInvariant, Dated, TypedRows
<1>2. TypeInvariant /\ [Next]_vars => ReviewInvariant'
  BY ReviewStep DEF TypeInvariant
<1>3. TypeInvariant /\ [Next]_vars => TypeInvariant'
  BY <1>2, DatedKept, VerifiedTyped DEF TypeInvariant
<1>4. TypeInvariant => TypeOK
  BY DEF TypeInvariant, ReviewInvariant, Shapes, LockHeld, TypedRows, TypeOK
<1> QED
  BY <1>1, <1>3, <1>4, PTL DEF Spec

-----------------------------------------------------------------------------
(* The requests together implement the board that is changed by one person. *)

\* The three tables as the board shows them.
Sources  == {<<l.id, l.doc>> : l \in links}
Evidence == {<<v.id, v.doc, v.version>> : v \in verified}
Events   == {<<e.id, e.version>> : e \in audited}

\* The documents the board shows are those of the links.
LEMMA SourcesAreLinked ==
  ASSUME Shapes, NEW id \in Ids
  PROVE  Board!SourcesOf(id) = {l.doc : l \in LinksOf(id)}
<1>1. \A l \in links : l.id \in Ids /\ l.doc \in Docs
  BY DEF Shapes
<1> QED
  BY <1>1 DEF Board!SourcesOf, LinksOf

\* What a handler may rely on when it writes: its constraint is there, and the
\* version it writes follows the one the row has.
OnTheRow(a, id) ==
  /\ attempt[a].req \in Requests
  /\ rows[id] # None
  /\ NewVersion(a) = rows[id].version + 1
  /\ attempt[a].seen = rows[id]

\* An update under the lock is a change of the row as it is.
LEMMA UpdateBecomes ==
  ASSUME NEW a, NEW id, NEW status, OnTheRow(a, id), Update(a, id, status)
  PROVE  Board!Becomes(id, status)
BY DEF OnTheRow, Update, Board!Becomes

LEMMA AttachAlone ==
  ASSUME NEW a \in Attempts, NEW id \in Ids, OnTheRow(a, id), AttachSource(a, id)
  PROVE  \E doc \in Docs : Board!Attach(id, doc)
<1>1. PICK doc \in Docs : doc = attempt[a].req.doc
  BY RequestsName DEF OnTheRow, AttachSource, Op
<1>2. PICK l : l = [id |-> id, doc |-> doc, at |-> attempt[a].began]
  OBVIOUS
<1>3. /\ links' = links \cup {l} /\ verified' = verified /\ audited' = audited
  BY <1>1, <1>2 DEF AttachSource
<1>4. l.id = id /\ l.doc = doc
  BY <1>2
<1>5. {<<m.id, m.doc>> : m \in links'} = {<<m.id, m.doc>> : m \in links} \cup {<<id, doc>>}
  BY <1>3, <1>4
<1>6. Board!Becomes(id, "Source Attached")
  <2>1. Update(a, id, "Source Attached")
    BY DEF AttachSource
  <2> QED
    BY <2>1, UpdateBecomes
<1>7. Board!Attach(id, doc)
  BY <1>3, <1>5, <1>6 DEF Board!Attach
<1> QED
  BY <1>7

LEMMA SubmitAlone ==
  ASSUME Shapes, NEW a \in Attempts, NEW id \in Ids, OnTheRow(a, id), SubmitForReview(a, id)
  PROVE  Board!Submit(id)
<1>1. /\ LinksOf(id) # {} /\ links' = links /\ verified' = verified /\ audited' = audited
  BY DEF SubmitForReview
<1>2. Board!SourcesOf(id) # {}
  BY <1>1, SourcesAreLinked
<1>3. Board!Becomes(id, "Under Review")
  <2>1. Update(a, id, "Under Review")
    BY DEF SubmitForReview
  <2> QED
    BY <2>1, UpdateBecomes
<1> QED
  BY <1>1, <1>2, <1>3 DEF Board!Submit

LEMMA VerifyAlone ==
  ASSUME Shapes, Dated, NEW a \in Attempts, NEW id \in Ids, OnTheRow(a, id),
         VerifyConstraint(a, id)
  PROVE  \E doc \in Docs : Board!Verify(id, doc)
<1>1. PICK v : v = VerificationRow(a, id)
  OBVIOUS
<1>2. PICK e : e = [id |-> id, version |-> NewVersion(a)]
  OBVIOUS
<1>3. /\ rows[id].status = "Under Review" /\ LinksOf(id) # {} /\ links' = links
      /\ verified' = verified \cup {v} /\ audited' = audited \cup {e}
  BY <1>1, <1>2 DEF VerifyConstraint, OnTheRow
<1>4. PICK doc : doc = NewestLink(id).doc
  OBVIOUS
<1>5. NewestLink(id) \in LinksOf(id)
  BY <1>3, NewestIsALink
<1>6. doc \in Board!SourcesOf(id) /\ doc \in Docs
  BY <1>4, <1>5, SourcesAreLinked DEF Board!SourcesOf
<1>7. PICK n : n = rows[id].version + 1
  OBVIOUS
<1>8. v.id = id /\ v.doc = doc /\ v.version = n
  BY <1>1, <1>4, <1>7 DEF VerificationRow, OnTheRow
<1>9. e.id = id /\ e.version = n
  BY <1>2, <1>7 DEF OnTheRow
<1>10. {<<x.id, x.doc, x.version>> : x \in verified'}
         = {<<x.id, x.doc, x.version>> : x \in verified} \cup {<<id, doc, n>>}
  BY <1>3, <1>8
<1>11. {<<x.id, x.version>> : x \in audited'} = {<<x.id, x.version>> : x \in audited} \cup {<<id, n>>}
  BY <1>3, <1>9
<1>12. Board!Becomes(id, "Verified")
  <2>1. Update(a, id, "Verified")
    BY DEF VerifyConstraint
  <2> QED
    BY <2>1, UpdateBecomes
<1>13. Board!Verify(id, doc)
  BY <1>3, <1>6, <1>7, <1>10, <1>11, <1>12 DEF Board!Verify, OnTheRow
<1> QED
  BY <1>6, <1>13

LEMMA SupersedeAlone ==
  ASSUME NEW a \in Attempts, NEW id \in Ids, OnTheRow(a, id), SupersedeConstraint(a, id)
  PROVE  Board!Supersede(id)
<1>1. /\ links' = links /\ verified' = verified /\ audited' = audited
  BY DEF SupersedeConstraint
<1>2. Board!Becomes(id, "Superseded")
  <2>1. Update(a, id, "Superseded")
    BY DEF SupersedeConstraint
  <2> QED
    BY <2>1, UpdateBecomes
<1> QED
  BY <1>1, <1>2 DEF Board!Supersede

LEMMA CommitAlone ==
  ASSUME TypeInvariant, NEW a \in Attempts, Commit(a)
  PROVE  Board!Next
<1>1. ReviewInvariant /\ Shapes /\ Dated /\ LockHeld
  BY DEF TypeInvariant, ReviewInvariant
<1>2. /\ attempt[a] # None /\ attempt[a] \in Delivery /\ attempt[a].at = "locked"
      /\ Id(a) \in Ids /\ rows[Id(a)] # None
      /\ NewVersion(a) = rows[Id(a)].version + 1
  BY <1>1, CommitWrites
<1>3. attempt[a].seen = rows[Id(a)]
  BY <1>1, <1>2 DEF LockHeld
<1>4. attempt[a].req \in Requests
  BY <1>2 DEF Delivery
<1>5. PICK id \in Ids : id = Id(a)
  BY <1>2
<1>6. OnTheRow(a, id)
  BY <1>2, <1>3, <1>4, <1>5 DEF OnTheRow
<1>7. \/ AttachSource(a, id) \/ SubmitForReview(a, id)
      \/ VerifyConstraint(a, id) \/ SupersedeConstraint(a, id)
  BY <1>5 DEF Commit
<1>8. \/ Board!Submit(id) \/ Board!Supersede(id)
      \/ \E doc \in Docs : Board!Attach(id, doc) \/ Board!Verify(id, doc)
  BY <1>1, <1>6, <1>7, AttachAlone, SubmitAlone, VerifyAlone, SupersedeAlone
<1> QED
  BY <1>8 DEF Board!Next

LEMMA CreateAlone ==
  ASSUME NEW a \in Attempts, Create(a)
  PROVE  Board!Next
<1>1. PICK id \in Ids : /\ rows[id] = None
                        /\ rows' = [rows EXCEPT ![id] = [status |-> "Draft", version |-> 1]]
  BY DEF Create
<1>2. UNCHANGED <<links, verified, audited>>
  BY DEF Create
<1>3. Board!Create(id)
  BY <1>1, <1>2 DEF Board!Create
<1> QED
  BY <1>3 DEF Board!Next

\* Constraints change as if each request were handled alone and at once, whatever is
\* delivered, waits, fails or restarts: the requests implement ConstraintBoard.
THEOREM ConstraintsHandledAlone == Spec => HandledAlone
<1>1. Init => Board!Init
  BY DEF Init, Board!Init
<1>2. TypeInvariant /\ [Next]_vars => [Board!Next]_<<rows, Sources, Evidence, Events>>
  <2> SUFFICES ASSUME TypeInvariant, [Next]_vars
               PROVE  Board!Next \/ UNCHANGED <<rows, Sources, Evidence, Events>>
    OBVIOUS
  <2>1. CASE UNCHANGED <<rows, links, verified, audited>>
    BY <2>1 DEF Sources, Evidence, Events
  <2>2. ASSUME NEW a \in Attempts,
               Deliver(a) \/ Begin(a) \/ Lock(a) \/ Refuse(a) \/ Respond(a) \/ Fail(a)
        PROVE  UNCHANGED <<rows, links, verified, audited>>
    BY <2>2 DEF Deliver, Begin, Lock, Refuse, Respond, Fail, store
  <2>3. Restart \/ UNCHANGED vars => UNCHANGED <<rows, links, verified, audited>>
    BY DEF Restart, store, vars
  <2> QED
    BY <2>1, <2>2, <2>3, CommitAlone, CreateAlone DEF Next, Step
<1>3. Init => TypeInvariant
  BY InitReviews DEF Init, TypeInvariant, Dated, TypedRows
<1>4. TypeInvariant /\ [Next]_vars => TypeInvariant'
  BY ReviewStep, DatedKept, VerifiedTyped DEF TypeInvariant
<1> QED
  BY <1>1, <1>2, <1>3, <1>4, PTL DEF Spec, HandledAlone, Board!Spec, Sources, Evidence, Events

=============================================================================
