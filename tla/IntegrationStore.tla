---------------------------- MODULE IntegrationStore ----------------------------
(***************************************************************************)
(* Equipment reservations through the rentals connector in sandbox mode,   *)
(* and the versioned drafts of a project (its resource demand and its      *)
(* sourcing scenarios), both served by several API processes over one      *)
(* database.  Every query is a statement of its own on the pool, so that   *)
(* requests interleave between the queries.  The simulator that books      *)
(* equipment lives in the memory of each process and is lost at a restart. *)
(*                                                                         *)
(* One pool of equipment and one window: requests compete for the same     *)
(* units.  All requests concern one project.  In the other modes of the    *)
(* connector nothing is booked.                                            *)
(***************************************************************************)
EXTENDS Naturals, Sequences, FiniteSets, FiniteSetsExt, NoValue

CONSTANTS
  Instances,     \* API processes
  Requests,      \* HTTP requests for a reservation
  Keys,          \* idempotency keys
  Payloads,      \* bodies of a reservation, told apart by payloadHash
  Units,         \* the quantity that each body asks for
  Firm,          \* the bodies with requestedState confirmed
  Capacity,      \* units of the pool that are free at the start of a process
  SharedDrafts, Named,  \* the drafts, and those of them that are scenarios
  Saves,         \* HTTP requests that save a draft
  MaxRestarts    \* bound: restarts of processes

\* An operation is named after the request that made it.
Operations == [id: Requests, key: Keys, payload: Payloads, state: {"confirmed", "rejected"}]

Answers == {"accepted", "conflict", "unavailable", "lost"}

ASSUME IntegrationAssumption ==
  /\ Capacity \in Nat /\ Units \in [Payloads -> Nat]
  /\ Firm \subseteq Payloads /\ Named \subseteq SharedDrafts
  /\ None \notin Operations \cup Answers

VARIABLES
  operation,  \* integration_operations, whose idempotency_key is unique
  booked,     \* the operations in the simulator of each process
  request,    \* each reservation request: its process, body, progress and answer
  restarts,   \* number of restarts
  rows,       \* the rows of each draft; a row lists the saves it went through
  save        \* each save: its draft, expected version, progress and answer

bookingVars == <<operation, booked, request, restarts>>
draftVars == <<rows, save>>
integrationVars == <<bookingVars, draftVars>>

-----------------------------------------------------------------------------
(* Reservations. *)

Idle == [step |-> "new", at |-> None, key |-> None, payload |-> None,
         op |-> None, late |-> FALSE, told |-> None]

Answered(r, op, answer) ==
  request' = [request EXCEPT ![r].step = "answered", ![r].op = op, ![r].told = answer]

\* A request of this key has been answered with an operation.
Acknowledged(k) == \E r \in Requests : request[r].key = k /\ request[r].told = "accepted"

\* The firm bookings of a process; a tentative hold takes nothing.
FirmBookings(i) == {op \in booked[i] : op.state = "confirmed" /\ op.payload \in Firm}

\* queryAvailability: what they leave of the pool.
Available(i) ==
  LET sum == MapThenSumSet(LAMBDA op : Units[op.payload], FirmBookings(i))
  IN  IF sum > Capacity THEN 0 ELSE Capacity - sum

\* The lookup of the key in the shared table decides a replay and a conflict.
LookUpReservation(r, i, k, p) ==
  /\ request[r].step = "new"
  /\ LET begun == [Idle EXCEPT !.at = i, !.key = k, !.payload = p, !.late = Acknowledged(k)]
     IN  request' = [request EXCEPT ![r] =
           IF operation[k] = None THEN [begun EXCEPT !.step = "unknown"]
           ELSE [begun EXCEPT !.step = "answered", !.op = operation[k],
                 !.told = IF operation[k].payload = p THEN "accepted" ELSE "conflict"]]
  /\ UNCHANGED <<operation, booked, restarts, draftVars>>

\* submitReservationCommand: a replay, a conflict, a rejection or a booking, in
\* the memory of the process.
BookReservation(r) ==
  LET q == request[r]
      same == {op \in booked[q.at] : op.key = q.key}
      new == [id |-> r, key |-> q.key, payload |-> q.payload,
              state |-> IF Available(q.at) < Units[q.payload] THEN "rejected" ELSE "confirmed"]
  IN
  /\ q.step = "unknown"
  /\ \/ /\ \E op \in same :
             IF op.payload = q.payload
             THEN request' = [request EXCEPT ![r].step = "saving", ![r].op = op]
             ELSE Answered(r, op, "conflict")
        /\ UNCHANGED booked
     \/ /\ same = {}
        /\ booked' = [booked EXCEPT ![q.at] = @ \cup {new}]
        /\ request' = [request EXCEPT ![r].step = "saving", ![r].op = new]
  /\ UNCHANGED <<operation, restarts, draftVars>>

\* saveOperation keeps the operation that is there; the controller answers with
\* its own whatever the outcome.  The answer may be lost on its way.
PersistReservation(r) ==
  LET q == request[r] IN
  /\ q.step = "saving"
  /\ operation' = [operation EXCEPT ![q.key] = IF @ = None THEN q.op ELSE @]
  /\ \E answer \in {"accepted", "lost"} : Answered(r, q.op, answer)
  /\ UNCHANGED <<booked, restarts, draftVars>>

\* Broken variant: a failure to save is not told.
UnavailableUntold(r) ==
  /\ request[r].step \in {"unknown", "saving"}
  /\ Answered(r, request[r].op, IF request[r].op = None THEN "unavailable" ELSE "accepted")
  /\ UNCHANGED <<operation, booked, restarts, draftVars>>

\* The database cannot be reached: 503, and a booking made stays in memory.
DatastoreUnavailable(r) ==
  /\ request[r].step \in {"unknown", "saving"}
  /\ Answered(r, request[r].op, "unavailable")
  /\ UNCHANGED <<operation, booked, restarts, draftVars>>

\* A process is replaced, and forgets its bookings and its requests.
Restart(i) ==
  /\ restarts < MaxRestarts
  /\ booked[i] # {}
  /\ restarts' = restarts + 1
  /\ booked' = [booked EXCEPT ![i] = {}]
  /\ request' = [r \in Requests |->
       IF request[r].at = i /\ request[r].step # "answered"
       THEN [request[r] EXCEPT !.step = "answered", !.told = "lost"] ELSE request[r]]
  /\ UNCHANGED <<operation, draftVars>>

-----------------------------------------------------------------------------
(* SharedDrafts.  The version of a row is the number of saves it went through. *)

Unsaved == [step |-> "new", draft |-> None, expected |-> None, row |-> None, target |-> None]

\* The row that a read returns: of a demand one with the highest version, of a
\* scenario any.
CurrentRows(d) ==
  {n \in DOMAIN rows[d] : d \in Named \/ \A m \in DOMAIN rows[d] : Len(rows[d][m]) <= Len(rows[d][n])}

\* The first statement, and what it decides.  A save may state the version that
\* it expects, 0 for a first one.
ReadDraft(s, d, expected) ==
  LET begun == [Unsaved EXCEPT !.draft = d, !.expected = expected]
      Continue(n) ==
        IF expected \in {None, Len(rows[d][n])}
        THEN [begun EXCEPT !.step = "updating", !.row = n, !.target = Len(rows[d][n])]
        ELSE [begun EXCEPT !.step = "conflict"]
  IN
  /\ save[s].step = "new"
  /\ \/ \E n \in CurrentRows(d) : save' = [save EXCEPT ![s] = Continue(n)]
     \/ /\ rows[d] = <<>>
        /\ save' = [save EXCEPT ![s] =
             [begun EXCEPT !.step = IF expected \in {None, 0} THEN "inserting" ELSE "conflict"]]
  /\ UNCHANGED <<bookingVars, rows>>

\* Broken variant: the update names the row alone.
UpdateByRow(s) ==
  /\ save[s].step = "updating"
  /\ rows' = [rows EXCEPT ![save[s].draft][save[s].row] = Append(@, s)]
  /\ save' = [save EXCEPT ![s].step = "saved"]
  /\ UNCHANGED bookingVars

\* UPDATE ... WHERE id AND version, which may find the version changed since.
UpdateDraft(s) ==
  LET q == save[s] IN
  /\ q.step = "updating"
  /\ IF Len(rows[q.draft][q.row]) = q.target
     THEN /\ rows' = [rows EXCEPT ![q.draft][q.row] = Append(@, s)]
          /\ save' = [save EXCEPT ![s].step = "saved"]
     ELSE /\ save' = [save EXCEPT ![s].step = "conflict"]
          /\ UNCHANGED rows
  /\ UNCHANGED bookingVars

\* A first save; nothing makes the rows of a draft unique.
InsertDraft(s) ==
  /\ save[s].step = "inserting"
  /\ rows' = [rows EXCEPT ![save[s].draft] = Append(@, <<s>>)]
  /\ save' = [save EXCEPT ![s].step = "saved"]
  /\ UNCHANGED bookingVars

\* The database cannot be reached before the write: 503.
SaveUnavailable(s) ==
  /\ save[s].step \in {"updating", "inserting"}
  /\ save' = [save EXCEPT ![s].step = "unavailable"]
  /\ UNCHANGED <<bookingVars, rows>>

-----------------------------------------------------------------------------
IntegrationInit ==
  /\ operation = [k \in Keys |-> None]
  /\ booked = [i \in Instances |-> {}]
  /\ request = [r \in Requests |-> Idle]
  /\ restarts = 0
  /\ rows = [d \in SharedDrafts |-> <<>>]
  /\ save = [s \in Saves |-> Unsaved]

Expectations == {None} \cup 0..Cardinality(Saves)

IntegrationNext ==
  \/ \E r \in Requests :
       \/ \E i \in Instances, k \in Keys, p \in Payloads : LookUpReservation(r, i, k, p)
       \/ BookReservation(r) \/ PersistReservation(r) \/ DatastoreUnavailable(r)
  \/ \E i \in Instances : Restart(i)
  \/ \E s \in Saves :
       \/ \E d \in SharedDrafts, e \in Expectations : ReadDraft(s, d, e)
       \/ UpdateDraft(s) \/ InsertDraft(s) \/ SaveUnavailable(s)

IntegrationSpec == IntegrationInit /\ [][IntegrationNext]_integrationVars

-----------------------------------------------------------------------------
\* What is recorded under a key, booked and answered is an operation of that
\* key, made by a request with that body.
IntegrationTypeOK ==
  /\ \A k \in Keys : operation[k] = None \/ (operation[k] \in Operations /\ operation[k].key = k)
  /\ booked \in [Instances -> SUBSET Operations]
  /\ \A r \in Requests : request[r].op \in Operations \cup {None}
  /\ \A d \in SharedDrafts, s \in Saves :
       save[s].draft = d /\ save[s].step = "updating" => save[s].row \in DOMAIN rows[d]

\* A request that arrives after another of its key was acknowledged books
\* nothing: its answer is the recorded operation, or that the bodies differ,
\* whichever process it reaches and whatever restarts or failures of the
\* database lie between.
LateRetriesRepeat ==
  \A r \in Requests :
    /\ request[r].late /\ request[r].step = "answered" =>
         /\ request[r].op = operation[request[r].key]
         /\ request[r].told \in {"accepted", "conflict"}
    /\ request[r].late => \A i \in Instances : \A op \in booked[i] : op.id # r

\* A save that stated a version was written on the very contents it had seen:
\* it is the next one after that version in its row.
StatedVersionSeen ==
  \A s \in Saves :
    save[s].step = "saved" /\ save[s].expected # None =>
      \E n \in DOMAIN rows[save[s].draft] :
        LET contents == rows[save[s].draft][n]
        IN  Len(contents) > save[s].expected /\ contents[save[s].expected + 1] = s

\* No process promises more units firmly than its pool has, whichever requests,
\* retries, tentative holds and restarts come between.
PoolNotOverdrawn ==
  \A i \in Instances : MapThenSumSet(LAMBDA op : Units[op.payload], FirmBookings(i)) <= Capacity

\* What was acknowledged stands: a late retry repeats it, a save that states a
\* version follows the contents it has seen, and firm bookings fit the pool.
AcknowledgedKept == LateRetriesRepeat /\ StatedVersionSeen /\ PoolNotOverdrawn

\* An accepted save is not lost: what a reader gets was built on every save of
\* the draft that was accepted.
AcceptedSaveKept ==
  \A s \in Saves :
    save[s].step = "saved" =>
      \A n \in CurrentRows(save[s].draft) :
        \E v \in DOMAIN rows[save[s].draft][n] : rows[save[s].draft][n][v] = s
=============================================================================
