----------------------------- MODULE Constraints -----------------------------
(***************************************************************************)
(* Operational constraints behind the in-memory idempotency guard.         *)
(*                                                                         *)
(* A request passes IdempotencyGuard, which replays the answer it keeps    *)
(* for the same key or lets the request through, and then an asynchronous  *)
(* handler.  Creating a constraint is one statement.  The other handlers   *)
(* are transactions: BEGIN, which fixes NOW(), the constraint row FOR      *)
(* UPDATE, then checks and writes under that lock, COMMIT or ROLLBACK.     *)
(* The guard keeps an answer when the response is written, that is, after  *)
(* the commit, and in the memory of the process, which may be restarted.   *)
(*                                                                         *)
(* Callers are authenticated and, for a verification, authorised: the      *)
(* guards before this one refuse all others without touching this state.   *)
(***************************************************************************)
EXTENDS Naturals, FiniteSets

CONSTANTS
  Ids,         \* identifiers of operational_constraints rows
  Existing,    \* constraints created earlier, still drafts
  Docs,        \* controlled document revisions, each with its own hash
  Keys,        \* Idempotency-Key headers
  Attempts,    \* bound: deliveries of requests
  Requests,    \* the requests clients may send
  MaxFailures, \* bound: database failures
  MaxRestarts, \* bound: restarts of the API process
  None

Request ==
  [op: {"create"}, id: {None}, doc: {None}, key: Keys]
  \cup [op: {"attach"}, id: Ids, doc: Docs, key: Keys]
  \cup [op: {"submit", "verify", "supersede"}, id: Ids, doc: {None}, key: Keys]

ASSUME RequestsAssumption == Requests \subseteq Request /\ Existing \subseteq Ids

Status == {"Draft", "Source Attached", "Under Review", "Verified", "Superseded"}

Answer == {"ok", "refused", "failed"}

Row == [status: Status, version: Nat \ {0}]

\* A delivered request: where it stands, when its transaction began, the row it
\* read, and its answer.
Delivery ==
  [req: Requests,
   at: {"handler", "begun", "locked", "answer", "done", "replayed", "lost"},
   began: Nat, seen: Row \cup {None}, reply: Answer \cup {None}]

ASSUME NoneAssumption == None \notin Row \cup Delivery \cup Attempts \cup Ids

VARIABLES
  rows,     \* operational_constraints: status and version, None when absent
  links,    \* constraint_source_links: constraint, revision, linked_at
  verified, \* constraint_verifications: constraint, revision, its version
  audited,  \* audit_events of verifications
  holder,   \* the attempt that holds each row's lock
  attempt,  \* delivered requests: where each stands, when it began, its answer
  kept,     \* globalIdempotencyStore
  now,      \* number of transactions begun
  changes,  \* history: the attempts behind the committed changes
  failures, restarts

store == <<rows, links, verified, audited, changes>>
vars == <<store, holder, attempt, kept, now, failures, restarts>>

-----------------------------------------------------------------------------
(* The guard. *)

\* What an answer is kept under: the path names the operation and constraint.
Slot(r) == [op |-> r.op, id |-> r.id, key |-> r.key]

Running(a) == attempt[a] # None /\ attempt[a].at \in {"handler", "begun", "locked", "answer"}

Fresh(r) ==
  [req |-> r, at |-> "handler", began |-> 0, seen |-> None, reply |-> None]

Replying(r, at, reply) ==
  [req |-> r, at |-> at, began |-> 0, seen |-> None, reply |-> reply]

\* Broken variant: the payload is not compared.
AdmitAnyPayload(r) ==
  LET found == {k \in kept : k.slot = Slot(r)}
  IN IF found = {} THEN Fresh(r) ELSE Replying(r, "replayed", (CHOOSE k \in found : TRUE).reply)

\* A known key answers from memory, or is refused for another payload.
Admit(r) ==
  LET found == {k \in kept : k.slot = Slot(r)}
  IN IF found = {} THEN Fresh(r)
     ELSE IF \E k \in found : k.payload = r.doc
          THEN Replying(r, "replayed", (CHOOSE k \in found : TRUE).reply)
          ELSE Replying(r, "done", "refused")

Deliver(a) ==
  /\ attempt[a] = None
  /\ \E r \in Requests :
       /\ r.id \in Ids => rows[r.id] # None
       /\ attempt' = [attempt EXCEPT ![a] = Admit(r)]
  /\ UNCHANGED <<store, holder, kept, now, failures, restarts>>

-----------------------------------------------------------------------------
(* The handlers. *)

Conclude(a, reply) == attempt' = [attempt EXCEPT ![a].at = "answer", ![a].reply = reply]

Op(a) == attempt[a].req.op

Id(a) == attempt[a].req.id

Changed(a, id) == changes' = changes \cup {<<id, a>>}

\* createConstraint: one INSERT, committed by itself.
Create(a) ==
  /\ Running(a) /\ attempt[a].at = "handler" /\ Op(a) = "create"
  /\ \E id \in Ids :
       /\ rows[id] = None
       /\ rows' = [rows EXCEPT ![id] = [status |-> "Draft", version |-> 1]]
       /\ Changed(a, id)
  /\ Conclude(a, "ok")
  /\ UNCHANGED <<links, verified, audited, holder, kept, now, failures, restarts>>

\* BEGIN: from here on NOW() is the time of this statement.
Begin(a) ==
  /\ Running(a) /\ attempt[a].at = "handler" /\ Op(a) # "create"
  /\ now' = now + 1
  /\ attempt' = [attempt EXCEPT ![a].at = "begun", ![a].began = now + 1]
  /\ UNCHANGED <<store, holder, kept, failures, restarts>>

\* Broken variant: the row is read without a lock.
ReadRow(a) ==
  /\ Running(a) /\ attempt[a].at = "begun"
  /\ attempt' = [attempt EXCEPT ![a].at = "locked", ![a].seen = rows[Id(a)]]
  /\ UNCHANGED <<store, holder, kept, now, failures, restarts>>

\* SELECT ... FOR UPDATE: the row as it is once the lock is granted.
Lock(a) ==
  /\ Running(a) /\ attempt[a].at = "begun"
  /\ holder[Id(a)] = None
  /\ holder' = [holder EXCEPT ![Id(a)] = a]
  /\ attempt' = [attempt EXCEPT ![a].at = "locked", ![a].seen = rows[Id(a)]]
  /\ UNCHANGED <<store, kept, now, failures, restarts>>

\* The transaction's locks go with COMMIT and with ROLLBACK.
Unlock(a) ==
  holder' = [id \in Ids |-> IF holder[id] = a THEN None ELSE holder[id]]

LinksOf(id) == {l \in links : l.id = id}

\* ORDER BY linked_at DESC LIMIT 1
NewestLink(id) == CHOOSE l \in LinksOf(id) : \A m \in LinksOf(id) : m.at <= l.at

NewVersion(a) == attempt[a].seen.version + 1

Update(a, id, status) ==
  rows' = [rows EXCEPT ![id] = [status |-> status, version |-> NewVersion(a)]]

AttachSource(a, id) ==
  /\ Op(a) = "attach"
  /\ links' = links \cup {[id |-> id, doc |-> attempt[a].req.doc, at |-> attempt[a].began]}
  /\ Update(a, id, "Source Attached")
  /\ UNCHANGED <<verified, audited>>

SubmitForReview(a, id) ==
  /\ Op(a) = "submit"
  /\ LinksOf(id) # {}
  /\ Update(a, id, "Under Review")
  /\ UNCHANGED <<links, verified, audited>>

VerificationRow(a, id) ==
  [id |-> id, doc |-> NewestLink(id).doc, version |-> NewVersion(a), by |-> a]

\* Broken variant: the audit event is left to a statement after the transaction.
VerifyUnaudited(a, id) ==
  /\ Op(a) = "verify"
  /\ attempt[a].seen.status = "Under Review"
  /\ LinksOf(id) # {}
  /\ verified' = verified \cup {VerificationRow(a, id)}
  /\ Update(a, id, "Verified")
  /\ UNCHANGED <<links, audited>>

VerifyConstraint(a, id) ==
  /\ Op(a) = "verify"
  /\ attempt[a].seen.status = "Under Review"
  /\ LinksOf(id) # {}
  /\ verified' = verified \cup {VerificationRow(a, id)}
  /\ Update(a, id, "Verified")
  /\ audited' = audited \cup {[id |-> id, version |-> NewVersion(a)]}
  /\ UNCHANGED links

SupersedeConstraint(a, id) ==
  /\ Op(a) = "supersede"
  /\ Update(a, id, "Superseded")
  /\ UNCHANGED <<links, verified, audited>>

\* Checks, writes and COMMIT, all under the lock.
Commit(a) ==
  /\ Running(a) /\ attempt[a].at = "locked"
  /\ \/ AttachSource(a, Id(a))
     \/ SubmitForReview(a, Id(a))
     \/ VerifyConstraint(a, Id(a))
     \/ SupersedeConstraint(a, Id(a))
  /\ Changed(a, Id(a))
  /\ Unlock(a)
  /\ Conclude(a, "ok")
  /\ UNCHANGED <<kept, now, failures, restarts>>

Acceptable(a) ==
  \/ Op(a) \in {"attach", "supersede"}
  \/ Op(a) = "submit" /\ LinksOf(Id(a)) # {}
  \/ Op(a) = "verify" /\ LinksOf(Id(a)) # {} /\ attempt[a].seen.status = "Under Review"

\* A check fails: ROLLBACK, and the exception becomes the answer.
Refuse(a) ==
  /\ Running(a) /\ attempt[a].at = "locked"
  /\ ~Acceptable(a)
  /\ Unlock(a)
  /\ Conclude(a, "refused")
  /\ UNCHANGED <<store, kept, now, failures, restarts>>

\* A statement fails: ROLLBACK, and the error becomes the answer.
Fail(a) ==
  /\ Running(a) /\ attempt[a].at \in {"handler", "begun", "locked"}
  /\ failures < MaxFailures
  /\ failures' = failures + 1
  /\ Unlock(a)
  /\ Conclude(a, "failed")
  /\ UNCHANGED <<store, kept, now, restarts>>

\* response.json: the wrapped method keeps the answer, whatever it is.
Respond(a) ==
  /\ Running(a) /\ attempt[a].at = "answer"
  /\ LET r == attempt[a].req
     IN kept' = {k \in kept : k.slot # Slot(r)}
                \cup {[slot |-> Slot(r), payload |-> r.doc, reply |-> attempt[a].reply]}
  /\ attempt' = [attempt EXCEPT ![a].at = "done"]
  /\ UNCHANGED <<store, holder, now, failures, restarts>>

\* The process ends and starts anew: memory, connections and answers are gone.
Restart ==
  /\ restarts < MaxRestarts
  /\ restarts' = restarts + 1
  /\ kept' = {}
  /\ attempt' = [a \in Attempts |->
                   IF Running(a) THEN [attempt[a] EXCEPT !.at = "lost"] ELSE attempt[a]]
  /\ holder' = [id \in Ids |-> None]
  /\ UNCHANGED <<store, now, failures>>

-----------------------------------------------------------------------------
Init ==
  /\ rows = [id \in Ids |-> IF id \in Existing THEN [status |-> "Draft", version |-> 1]
                            ELSE None]
  /\ links = {} /\ verified = {} /\ audited = {} /\ changes = {}
  /\ holder = [id \in Ids |-> None]
  /\ attempt = [a \in Attempts |-> None]
  /\ kept = {}
  /\ now = 0 /\ failures = 0 /\ restarts = 0

Step(a) == Create(a) \/ Begin(a) \/ Lock(a) \/ Commit(a) \/ Refuse(a) \/ Respond(a)

Next ==
  \/ \E a \in Attempts : Deliver(a) \/ Step(a) \/ Fail(a)
  \/ Restart

Spec == Init /\ [][Next]_vars

-----------------------------------------------------------------------------
(* Properties. *)

\* Every variable holds what the tables, the guard's store and the history hold.
TypeOK ==
  /\ rows \in [Ids -> Row \cup {None}]
  /\ links \subseteq [id: Ids, doc: Docs, at: Nat]
  /\ verified \subseteq [id: Ids, doc: Docs, version: Nat, by: Attempts]
  /\ audited \subseteq [id: Ids, version: Nat]
  /\ holder \in [Ids -> Attempts \cup {None}]
  /\ attempt \in [Attempts -> Delivery \cup {None}]
  /\ \A a \in Attempts : attempt[a] # None /\ attempt[a].at = "locked" => holder[Id(a)] = a
  /\ \A k \in kept : k.reply \in Answer
  /\ changes \subseteq Ids \X Attempts

ChangesOf(id) == {c \in changes : c[1] = id}

\* Changes from before the history: the creation of an existing constraint.
Earlier(id) == IF id \in Existing THEN 1 ELSE 0

\* What reviewers see of the tables: what is attached to what, and its evidence.
Board == INSTANCE ConstraintBoard WITH
  sources  <- {<<l.id, l.doc>> : l \in links},
  evidence <- {<<v.id, v.doc, v.version>> : v \in verified},
  events   <- {<<e.id, e.version>> : e \in audited}

\* Whatever overlaps, fails or restarts, the constraints change as if each request
\* were handled alone and at once: what a handler checked and computed from the row
\* it read holds of the row it updates, a verification names an attached source, and
\* verification, row and audit event come together.
HandledAlone == Board!Spec

\* A constraint's version is the number of changes committed for it, its creation
\* included: no change overwrites another that was made from the same row.
VersionCountsChanges ==
  \A id \in Ids : rows[id] # None =>
    rows[id].version = Cardinality(ChangesOf(id)) + Earlier(id)

\* Each verification of a constraint uses up one submission for review, however
\* many reviewers verify at once (tests/constraints-concurrency.test.ts CONC-01).
OneVerificationPerReview ==
  \A id \in Ids :
    Cardinality({v \in verified : v.id = id})
      <= Cardinality({c \in ChangesOf(id) : Op(c[2]) = "submit"})

\* A verified constraint has the verification and the audit event of that very
\* version, and no verification is without its audit event.
VerifiedHasEvidence ==
  /\ \A id \in Ids : rows[id] # None /\ rows[id].status = "Verified" =>
       \E v \in verified : v.id = id /\ v.version = rows[id].version
  /\ {<<v.id, v.version>> : v \in verified} = {<<e.id, e.version>> : e \in audited}

\* A replayed answer is the one another delivery of the same request was given.
ReplayIsTheAnswer ==
  \A a \in Attempts : attempt[a] # None /\ attempt[a].at = "replayed" =>
    \E b \in Attempts :
      /\ attempt[b] # None /\ attempt[b].at # "replayed"
      /\ attempt[b].req = attempt[a].req
      /\ attempt[b].reply = attempt[a].reply

\* specs/05_API_AND_EVENT_CONTRACTS.md:15, same key and same payload return the
\* prior result: a request takes effect once, however often it is delivered.
EffectOncePerKey ==
  \A c, d \in changes : attempt[c[2]].req = attempt[d[2]].req => c = d

=============================================================================
