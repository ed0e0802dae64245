------------------------------- MODULE Approvals -------------------------------
(***************************************************************************)
(* Requests for approval and the decisions on them.  A process answers     *)
(* from its map of requests; both handlers change the map first and write  *)
(* the database afterwards: the request's row, without changing one that   *)
(* is there, and the decision's row, for which nobody waits.  A statement  *)
(* that fails is only logged.  A restart loses the map and with it every   *)
(* request that is pending.                                                *)
(*                                                                         *)
(* All requests concern one project and require one role.  A statement     *)
(* under way when its process ends took effect before or never does.  The  *)
(* audit row that follows a decision's row is left out.                    *)
(***************************************************************************)
EXTENDS Naturals, Sequences, FiniteSets, NoValue

CONSTANTS
  ApprovalIds,   \* identifiers of requests
  Sample,        \* the identifier, no UUID, of the request each process starts with
  Targets,       \* versions of records, each with its hash
  SampleTarget,  \* what that request is about
  Costly,        \* versions whose amount exceeds the ceiling of the required role
  Staff,         \* users
  Approvers,     \* those with the required role
  Unlimited,     \* those flagged as super administrators, who have no ceiling
  MaxAsked,      \* bound: requests made
  MaxEnds        \* bound: restarts

ASSUME SampleAssumption ==
  Sample \notin ApprovalIds /\ SampleTarget \in Targets /\ None \notin Nat

VARIABLES
  approval,    \* approvalRequestRepository
  asked,       \* every request there was, and where its row stands
  requestRow,  \* approval_requests: the request whose row an identifier has
  decisions,   \* every decision, and where its rows stand
  screen,      \* the request each user is looking at
  ends         \* restarts so far

approvalVars == <<approval, asked, requestRow, decisions, screen, ends>>

-----------------------------------------------------------------------------
(* Requests. *)

Pending(n) == [number |-> n, status |-> "pending"]

Numbered == {n \in DOMAIN asked : asked[n].id # Sample}

\* seedInitialGovernance: nobody is recorded to have made the sample request.
SampleRequest == [id |-> Sample, requester |-> None, target |-> SampleTarget, step |-> "seeded"]

\* A request made under the identifier of another takes its place in the map.
RequestApproval(p, id, t) ==
  /\ Cardinality(Numbered) < MaxAsked
  /\ asked' = Append(asked, [id |-> id, requester |-> p, target |-> t, step |-> "sent"])
  /\ approval' = [approval EXCEPT ![id] = Pending(Len(asked) + 1)]
  /\ UNCHANGED <<requestRow, decisions, screen, ends>>

\* The row of the request, unless its identifier has one.
StoreRequest(n) ==
  /\ asked[n].step = "sent"
  /\ asked' = [asked EXCEPT ![n].step = "answered"]
  /\ requestRow' = [requestRow EXCEPT ![asked[n].id] = IF @ = None THEN n ELSE @]
  /\ UNCHANGED <<approval, decisions, screen, ends>>

RequestNotStored(n) ==
  /\ asked[n].step = "sent"
  /\ asked' = [asked EXCEPT ![n].step = "answered"]
  /\ UNCHANGED <<approval, requestRow, decisions, screen, ends>>

-----------------------------------------------------------------------------
(* Decisions. *)

\* rejected and changes_requested are treated alike.
Outcomes == {"approved", "declined"}

\* A user opens a request of the list.
ShowApproval(p, id) ==
  /\ approval[id] # None
  /\ screen' = [screen EXCEPT ![p] = [id |-> id, target |-> asked[approval[id].number].target]]
  /\ UNCHANGED <<approval, asked, requestRow, decisions, ends>>

\* Broken variant: the version and hash reviewed are not compared.
AnyTargetOpen(p) == approval[screen[p].id] # None /\ approval[screen[p].id].status = "pending"

\* The request is pending and about the very version the user reviewed.
Open(p) ==
  /\ approval[screen[p].id] # None
  /\ approval[screen[p].id].status = "pending"
  /\ asked[approval[screen[p].id].number].target = screen[p].target

\* Separation of duties and ceilings concern approvals, the required role every decision.
MayDecide(p, outcome) ==
  /\ p \in Approvers
  /\ outcome = "approved" =>
       /\ asked[approval[screen[p].id].number].requester \notin {p, None}
       /\ screen[p].target \in Costly => p \in Unlimited

DecideApproval(p, outcome) ==
  /\ screen[p] # None /\ Open(p) /\ MayDecide(p, outcome)
  /\ approval' = [approval EXCEPT ![screen[p].id].status = outcome]
  /\ decisions' = Append(decisions,
       [number |-> approval[screen[p].id].number, target |-> screen[p].target,
        decider |-> p, outcome |-> outcome, step |-> "sent"])
  /\ screen' = [screen EXCEPT ![p] = None]
  /\ UNCHANGED <<asked, requestRow, ends>>

IdOf(d) == asked[decisions[d].number].id

To(d, step) ==
  /\ decisions' = [decisions EXCEPT ![d].step = step]
  /\ UNCHANGED <<approval, asked, requestRow, screen, ends>>

\* The row of a decision refers to a row of approval_requests.
RecordDecision(d) == decisions[d].step = "sent" /\ requestRow[IdOf(d)] # None /\ To(d, "recorded")

\* The statement fails, as it must without that row.
DecisionNotRecorded(d) == decisions[d].step = "sent" /\ To(d, "unrecorded")

\* A new process: its map has the sample request only.
RestartApprovals ==
  /\ ends < MaxEnds
  /\ ends' = ends + 1
  /\ \A n \in DOMAIN asked : asked[n].step # "sent"
  /\ \A d \in DOMAIN decisions : decisions[d].step # "sent"
  /\ asked' = Append(asked, SampleRequest)
  /\ approval' = [id \in ApprovalIds \cup {Sample} |->
                    IF id = Sample THEN Pending(Len(asked) + 1) ELSE None]
  /\ UNCHANGED <<requestRow, decisions, screen>>

ApprovalsInit ==
  /\ asked = <<SampleRequest>>
  /\ approval = [id \in ApprovalIds \cup {Sample} |-> IF id = Sample THEN Pending(1) ELSE None]
  /\ requestRow = [id \in ApprovalIds \cup {Sample} |-> None]
  /\ decisions = <<>> /\ ends = 0
  /\ screen = [p \in Staff |-> None]

ApprovalsNext ==
  \/ \E p \in Staff, id \in ApprovalIds, t \in Targets : RequestApproval(p, id, t)
  \/ \E n \in DOMAIN asked : StoreRequest(n) \/ RequestNotStored(n)
  \/ \E p \in Staff, id \in ApprovalIds \cup {Sample} : ShowApproval(p, id)
  \/ \E p \in Staff, outcome \in Outcomes : DecideApproval(p, outcome)
  \/ \E d \in DOMAIN decisions : RecordDecision(d) \/ DecisionNotRecorded(d)
  \/ RestartApprovals

ApprovalsSpec == ApprovalsInit /\ [][ApprovalsNext]_approvalVars

-----------------------------------------------------------------------------
(* Properties. *)

Request == [id: ApprovalIds \cup {Sample}, requester: Staff \cup {None}, target: Targets,
            step: {"seeded", "sent", "answered"}]
Decision == [number: Nat, target: Targets, decider: Staff, outcome: Outcomes,
             step: {"sent", "recorded", "unrecorded"}]

\* Requests and decisions are of their types; the map and the rows name requests made.
ApprovalsTypeOK ==
  /\ asked \in Seq(Request)
  /\ decisions \in Seq(Decision) /\ \A d \in DOMAIN decisions : decisions[d].number \in DOMAIN asked
  /\ approval \in [ApprovalIds \cup {Sample} ->
       {None} \cup [number: DOMAIN asked, status: Outcomes \cup {"pending"}]]
  /\ requestRow \in [ApprovalIds \cup {Sample} -> {None} \cup DOMAIN asked]
  /\ screen \in [Staff -> {None} \cup [id: ApprovalIds \cup {Sample}, target: Targets]]

DecidedOnce ==
  \A d, e \in DOMAIN decisions : decisions[d].number = decisions[e].number => d = e

DecidedAsReviewed ==
  \A d \in DOMAIN decisions : decisions[d].target = asked[decisions[d].number].target

Independent ==
  \A d \in DOMAIN decisions :
    decisions[d].outcome = "approved" =>
      asked[decisions[d].number].requester \notin {None, decisions[d].decider}

\* The map forgets a decision only for another request or with the process.
MapTellsDecision ==
  \A id \in DOMAIN approval :
    approval[id] # None /\ approval[id].status # "pending" =>
      \E d \in DOMAIN decisions :
        decisions[d].number = approval[id].number /\ decisions[d].outcome = approval[id].status

\* Another request was made under the same identifier.
Shared(n) == \E m \in DOMAIN asked : m # n /\ asked[m].id = asked[n].id

\* The rows alone tell who approved what for whom, unless an identifier was used again.
RowsTellDecision ==
  \A d \in DOMAIN decisions :
    decisions[d].step = "recorded" =>
      /\ requestRow[asked[decisions[d].number].id] # None
      /\ ~Shared(decisions[d].number) =>
           requestRow[asked[decisions[d].number].id] = decisions[d].number

\* A request, also one made again under its identifier or before a restart, is
\* decided at most once, on the version its decider reviewed; an approval is another
\* person's than the requester's.  A decision that has a row refers to the row of the
\* very request it decides, as long as no identifier is used twice.
DecisionsStand ==
  DecidedOnce /\ DecidedAsReviewed /\ Independent /\ MapTellsDecision /\ RowsTellDecision

================================================================================
