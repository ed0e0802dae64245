# E3-EOS: a specification of its commands

E3-EOS is a multi-tenant operations platform: a NestJS API over PostgreSQL, a
React application, an outbox worker, and packages of domain rules. These modules
specify first the part on which everything else stands: who may change what in an
organisation, what a retried or interrupted command does, how people join
organisations, and how observations made offline reach the server; then the
registers a project works with: constraints, sources and designs, schedule,
documents, inventory, integrations and purchasing. TLC checks each module on
small instances; TLAPS proves the main invariants for all instances.

Paths below are relative to the repository root; `api/` is `apps/api/src/`,
`domain/` is `packages/domain/src/`, `web/` is `apps/web/src/`.

## 1. The system

### 1.1 Two kinds of component

**Durable components** keep their state in PostgreSQL. Each command is one
transaction: `BEGIN`, the organisation row `FOR UPDATE`, the actor's rows, the
receipt of the idempotency key, the checks, the writes, an audit row, an outbox
row and the receipt, `COMMIT`. Their hazards are those of concurrent
transactions, of retries, and of failures between commit and answer.

**In-memory components** keep their state in maps of the process. Their handlers
are synchronous, so that requests do not interleave inside them; their hazards
are long sequences of legal calls, restarts, and the gap between the map and the
tables some of them also write.

### 1.2 Inventory

| Component | State | Operations | Correct means |
|---|---|---|---|
| Membership administration (`api/identity/identity.controller.ts`, `membership-admin.service.ts`) | `memberships`, `sessions`, `project_access_grants` | revoke, change role, restore | an administrator remains; versions exclude lost updates; a restored member gets nothing back silently; sessions end with the authority they were opened under |
| Project access (`api/projects/project-access.service.ts`) | `project_access_grants`, `projects` | grant, regrade, withdraw, create project; the check every project command makes | nothing commits without authority current at the commit |
| Durable project commands (`api/projects/durable-project-command.ts`) | `idempotency_records`, `audit_events`, `outbox` | run | once per key; audit, outbox, receipt and answer agree |
| Sessions (`api/auth/auth.controller.ts`, `api/common/tenant.guard.ts`) | `sessions`, `accounts`, `password_resets`, MFA | sign in and out, MFA, reset password | a session never outlives a change of its owner's authority; a reset token works once |
| Invitations (`api/identity/invitation.service.ts`) | `user_invitations`, `users`, `accounts`, `memberships` | invite, cancel, accept, expire | one outcome; the issuer's authority is current; an existing account is never taken over; no deadlock stays |
| Field observations (`api/field-sync/field-observations.service.ts`) | `field_observations` and the ledgers | record | once per operation id; conflicts with the linked task are told |
| Field notes (`web/services/field-note-queue.ts`, `web/views/FieldNotesRegister.tsx`) | `localStorage`, the tabs' state | capture, sync, clear | no note is lost before the server has it |
| Work (`api/work/work.service.ts`) | `work_packages`, `task_instances` | create, complete | completion once and on the version seen |
| Schedule, planning (`api/work/schedule.service.ts`, `schedule-planning.service.ts`) | forecasts and their revisions, `dependency_edges`, baseline candidates | forecast, add and archive dependencies, capture | acyclic; history matches the rows; a candidate is what was reviewed |
| Requirements, allocations, designs, impact, clarifications (`api/scope/*-register.service.ts`, `requirement-intake.service.ts`, `api/designs/design-register.service.ts`) | revisions pinned to revisions | revise, assess, answer, reopen | a pin names a revision that was current when it was made; staleness is found |
| Documents (`api/documents/document-register.service.ts`) | `controlled_documents`, revisions | register, revise, supersede | unique numbers, one current revision |
| Idempotency guard (`api/common/idempotency.guard.ts`) | answers in memory | guard | a key runs once, also when its copies overlap |
| Operational constraints (`api/operations/constraints.controller.ts`) | `operational_constraints`, links, verifications, audit events | create, attach a source, submit, verify, supersede | one verification per review, with its evidence; no change lost |
| Integrations (`api/integrations/`) | operations, demands, scenarios; a simulator in memory | reserve equipment, save demand and scenarios | what was acknowledged is neither booked again nor lost |
| Inventory (`api/inventory/inventory.controller.ts`, `domain/inventory.ts`) | resources, reservations, holds, assets | reserve, confirm, hold, release, allocate, move | nothing is promised twice |
| Procurement (`api/procurement/procurement.controller.ts`, `domain/procurement.ts`, `api/rollout/rollout.controller.ts`) | vendors under two keys, bank changes, framework contracts, orders | create, approve, request and verify a bank change; order, release, time out, reconcile, receive, cancel | bank details change by two people; ceilings, sendings and receipts add up |
| Governance (`api/governance/governance.controller.ts`, `packages/policy/src`) | policies, approvals, exceptions | publish, request, decide, authorise, review | a decision is final and made by another person; uses of an exception are bounded |
| Worker (`apps/worker/src/index.ts`) | processed event ids in memory | process | an event has its effect once |
| Domain engines (`domain/stage-graph.ts`, `finance.ts`, `three-way-match.ts`, `go-live-engine.ts`, `run-sheet-engine.ts`, ...) | none | pure functions | agreement with their definitions |
| Legacy field, scope and design handlers | in-memory maps | none reachable: guards answer 503 | not modelled |
| Portfolio, reporting, AI, portal, settings, the rest of rollout | aggregates and configuration | mostly reads | not modelled |

### 1.3 How they interact

* The **organisation row** is the lock that membership, access, invitation and
  project commands share. It makes an authority check made under it hold until
  the commit, whatever waited before.
* The **users rows** are shared by all organisations a person belongs to. They
  are the only rows on which transactions of different organisations meet, in
  whatever order their organisations' locks let them: there deadlocks arise.
* The **ledgers** (`idempotency_records`, `audit_events`, `outbox`) are written by
  every durable command in its own transaction.
* The **guard** (`TenantIsolationGuard`) reads session and membership before the
  transaction begins; what it saw may be stale when the lock is granted.
* **Registers of a project** pin one another's versions (designs pin requirements
  and allocations; candidates freeze tasks, plans and dependencies): whoever
  writes a pin may have been shown a version that is no longer current.
* **Maps of the process** are shared by all requests of that process and by no
  other; several processes share the database only. Some handlers write both.
* **Device and API** share nothing but requests, which may be lost, late or
  repeated, and answers, which may be lost.

`PROJECT.json` lists, under "hazards", where each hard behaviour bites.

## 2. The modules

| Module | Models | State | Actions |
|---|---|---|---|
| `CommandLedger` | the promise of an idempotent endpoint (abstract) | effects, what clients were told | `TakeEffect`, `Tell` |
| `NoteCustody` | the promise made of a captured note (abstract) | its words, what is recorded, what the device shows | `Write`, `Keep`, `Receive`, `Await`, `Clear` |
| `ConstraintBoard` | constraints changed by one person at a time (abstract) | status and version, sources, evidence, audit events | `Create`, `Attach`, `Submit`, `Verify`, `Supersede` |
| `OrgAuthority` | membership administration, project access, durable commands, sessions | tables, session rows, one transaction per pooled connection | one action per step of a transaction: `Receive`, `LockOrganisation`, `Deny`, `Conflict`, `Replay`, `Proceed`, `Refuse`, `Write`, one commit per command (`Revoke` ... `RunDurable`), `Respond`, `Fail`; `SignInCheck`, `SignInStore`, `EndSession` |
| `Invitations` | invitations of organisations that share people | invitations, memberships, credentials, locks taken so far | `Lock` takes one lock of the command's `Plan`; `Authorise`, `Proceed`, `Create`, `CancelInvitation`, `Accept`, `RevokeMembership`; `Abort` is PostgreSQL's deadlock victim |
| `FieldNotes` | the device queue and the observations endpoint | `localStorage`, tabs, network, observations, receipts | `Capture`, `Sync`, `Send`, `Settle`, `LoseAnswer`, `Close`, `ClearReceived`; `Refuse`, `Replay`, `Record`; `Reforecast`, `Complete`, `ChangeGrant`, `Repeat` |
| `Constraints` | operational constraints behind the in-memory idempotency guard | rows, links, verifications, audit events, kept answers, one delivery per attempt | `Deliver` (the guard), `Create`, `Begin`, `Lock`, `Commit` with the effect of each command, `Refuse`, `Fail`, `Respond`, `Restart` |
| `SourcePins` | requirements, allocations, designs and impact reviews | one append-only history per record, receipts, the command each client is sending | `Prepare`, `WriteRequirement`, `WriteAllocation`, `WriteDesign`, `Assess`, `Replay`, `Refuse` |
| `ProjectSchedule` | tasks, forecasts, dependencies, plans, baseline candidates | rows by version, the sequence of dependencies, candidates, previews | `CreateTask`, `CompleteTask`, `Forecast`, `AddDependency`, `ArchiveDependency`, `CreatePlan`, `RevisePlan`, `Preview`, `Capture` |
| `ControlledRecords` | documents and clarifications | rows, revisions, responses, history | `Register`, `AddRevision`, `Ask`, `Respond`, `Reopen` |
| `Inventory` | reservations, holds, assets | maps of the process | `CreateResource`, `Reserve`, `ConfirmReservation`, `PlaceHold`, `ReleaseHold`, `RegisterAsset`, `Allocate`, `ExecuteMovement` |
| `IntegrationStore` | equipment reservations and versioned drafts through several processes | operations and rows in the database, bookings in each process | `LookUpReservation`, `BookReservation`, `PersistReservation`, `DatastoreUnavailable`, `Restart`; `ReadDraft`, `UpdateDraft`, `InsertDraft`, `SaveUnavailable` |
| `Purchasing` | vendors, bank changes, contracts, orders | vendor objects and the two keys that find them, consumed ceilings, orders | `CreateVendor`, `CreateExtendedVendor`, `TransitionVendorStatus`, `RequestBankChange`, `VerifyBankChange`; `CreateFrameworkContract`, `CreatePurchaseOrder`, `RefuseUnreadableLines`, `ReleasePurchaseOrder`, `SimulateTimeout`, `ReconcileRemoteOrder`, `RecordReceipt`, `CompensatingCancellation` |
| `Approvals` | governance approvals and the rows kept of them | the map, the rows, statements under way | `RequestApproval`, `StoreRequest`, `RequestNotStored`, `ShowApproval`, `DecideApproval`, `RecordDecision`, `DecisionNotRecorded`, `RestartApprovals` |
| `NoValue` | the value of an absent column or field | | |
| `OrgAuthorityProofs`, `InvitationsProofs`, `FieldNotesProofs`, `ConstraintsProofs`, `SourcePinsProofs`, `ScheduleProofs` | theorems about the module each is named after (`ScheduleProofs`: `ProjectSchedule`) | | |
| `RegistersProofs` | theorems about `ControlledRecords`, `Inventory`, `IntegrationStore`, `Purchasing`, `Approvals` | | |
| `WorkspaceProofs` | the registers' theorems, of the workspace | | |
| `Workspace` | the registers from `SourcePins` to `Approvals` side by side | which of them moves | the actions of the part that moves |
| `MCAuthority`, `MCInvitations`, `MCFieldNotes`, `MCConstraints`, `MCWorkspace` | small instances | | |

**OrgAuthority.** `pc[w]` says where the transaction of connection `w` stands:
`begin` (waiting for the organisation row), `locked` (the row is held), `fresh`
(authority checked, no receipt), `written` (domain rows written, not visible),
`committed` (answer under way). The commit is one step, because PostgreSQL shows
all of a transaction's rows at once; what the transaction does before is split
where another connection can act in between. `Write` fixes which session rows
the `DELETE` finds; `SignInStore` waits for the users row, because the foreign
key of `sessions` takes a share lock on it. `Fail` at any point stands for a
broken connection, an ended process and a lost answer; a client retries by
another `Receive`. Roles are reduced to those the commands tell apart.
`CreatedAt` is the commit's clock except for a revocation, whose audit row takes
the column's default, the transaction's start.

**Invitations.** `Plan(c)` is the list of locks of a command in the order of its
statements: the organisation, the users row of the actor (of the issuer for an
acceptance), the address' advisory lock, the users row of the address if there
is one; a revocation locks all its members' users rows by id. Receipt, audit and
outbox rows are one `ledger` here, since `OrgAuthority` shows that they agree.

**FieldNotes.** A request of the API is one step. That is justified by
`OrgAuthority`: the transaction holds the organisation row from before its first
read to its commit, and `AuthorityInvariant` (proved) says that no other
transaction of the organisation holds it meanwhile. Requests are handled in any
order and at any later time; a tab that no longer waits for one ignores its
answer. `payload.base` is the task as the page showed it: its version is what the
payload contains, the rest only serves `ConflictTold`. The list of notes to send
is read once per sync (`queue`), and what is saved on failure is the snapshot
taken then, as in the code. `PromiseKept` is `NoteCustody` with `capture` for the
words, the payloads of `observed` for what is recorded, and `stored` for what the
device shows: a capture is its `Write`, a recorded request its `Keep`, a settled
answer its `Receive` or nothing new.

**Constraints.** The guard looks an answer up and keeps one only when the response
is written, so that the handler runs between two steps of the guard. A
transaction fixes `NOW()` when it begins and reads its row when it gets the
lock; `linked_at` is the former, and `NewestLink` follows it as the code does.
`changes` is a history: which attempt changed which constraint. `HandledAlone` is
`ConstraintBoard`, which has neither deliveries nor locks, with the columns a
reviewer sees of the links, the verifications and their audit events: a commit is
a step of the board from the row as it is at that moment, all else is none.

**SourcePins.** A client keeps a command with what it was shown and sends it,
always under one key, until it is answered; its answer may be lost, which
leaves it sending. A command re-reads everything under the organisation's row,
so that it is one step. `Coherent` and the other acceptance operators are the
checks of the services; `Authorised` has those that the design and the impact
register make before they look for the receipt.

**ProjectSchedule.** `Reaches` is the search of `wouldCreateScheduleCycle` as its
closed-set characterisation: a task is reached if every set that contains the
start and is closed under the edges contains it. Dates are left out; a forecast
counts its revisions. A candidate keeps the source the code freezes and two
histories, what the author reviewed and what there was.

**ControlledRecords.** `NextSequence` reads the highest number among the
register's own documents and those numbered before it; `history` is the
clarification's event table.

**Inventory, Purchasing.** A request is one step. Vendors are objects found under
an identifier and under a code: a handler that changes the object it found
changes it for both keys, one that stores a copy under one key parts them.
`sent`, `cleared` and `lost` are histories for the properties. What an approval
demands of a vendor beyond bank details and risk flags is taken to be there.

**IntegrationStore.** Every query is a statement of its own on the pool, so that
each is a step; a restart empties the bookings of a process and loses the
requests it was handling.

**Approvals.** A request and a decision change the map at once; their rows are
written afterwards by statements nobody waits for, so that they arrive in any
order, fail, or are cut off by a restart, which also empties the map but for the
sample request. A statement under way at a restart took effect before it or
never. There is one project and one required role; a rejection and a demand for
changes are alike to the code; the audit row, which nothing reads, is left out.

An operator introduced by "Broken variant" is a plausible bug of the code beside
the definition it would replace. No action uses it; `PROJECT.json` pairs each
with the property that finds it.

## 3. What is checked

| Run | Question | Instance |
|---|---|---|
| `authority_commands` | Do mutual revocations leave an administrator, and do retries, reused keys and lost answers keep the ledgers in agreement? Does revoking, restoring and granting again bring back only what was granted again, and does every key take effect once (refinement of `CommandLedger`)? Do competing role changes lose no update, and does a sign-in under way survive none of them? Is a command refused when its grant is downgraded or withdrawn while it waits? Is the audit chain intact while nothing is revoked? | 4 members, 2 projects, 2 connections, 3 deliveries, 4 scenarios |
| `authority_live` | Does every attempt end? | 2 deliveries, fair |
| `authority_audit` | Is the audit chain intact with revocations? **No** (section 6) | 3 deliveries |
| `invitations_lifecycle` | Do invitation, cancellation, acceptance and the revocation of the issuer have one outcome, under current authority, once per key? Two organisations invite one newcomer: can either acceptance replace her password or enrol her without her session? | 2 organisations, 4 deliveries, 2 scenarios |
| `invitations_live` | Does every attempt end although lock orders differ? | 2 organisations, 3 deliveries, fair |
| `invitations_deadlock` | Is a deadlock victim retried? **No** (section 6) | the same |
| `fieldnotes_custody` | Is a note kept until the server has it, recorded once, with conflicts told, whatever is lost, repeated or late? Are answers credited to the right note of a queue? Do device and server keep the promise of `NoteCustody`? | 1 note, 2 texts, 2 tabs, another client, 3 requests, 2 task versions; or 2 notes and 1 tab |
| `constraints_review` | Do two reviewers, an attachment, a submission and a supersession, all at once, lose no change and leave evidence of the one verification, as on the `ConstraintBoard` of one person? Is what is replayed the answer the same request was given, through a failure and a restart? | 1 constraint, 4 deliveries; or 3 deliveries of repeated requests |
| `constraints_once` | Does a request take effect once, however often it is delivered? **No** (section 6) | 2 deliveries, 1 restart |
| `workspace` | `SourcePins`: do two clients' registers judge staleness alike, pin what was shown, write once and answer retries? `ProjectSchedule`: no cycles, candidates as reviewed. `ControlledRecords`: numbers, revisions and answers whole. `Inventory`: nothing promised to two projects. `IntegrationStore`: late retries repeat, stated versions were seen, the pool is not overdrawn. `Purchasing`: ceilings, sendings, receipts and bank changes accounted for. `Approvals`: decided once, by another person, on the version reviewed | see below |
| `integration_drafts` | Is an accepted save kept? **No** (section 6) | 3 saves, 2 drafts |
| `purchasing_bank` | Do bank details change by verification only? **No** (section 6) | 2 vendors, 2 changes |

**Bounds.** `MaxAttempts` and `MaxRequests` cap deliveries; `MaxVersion` caps the
task. Two connections are enough for every interleaving of two transactions, and
with the organisation row held by one, a third could only wait. Three deliveries
let an attempt, its retry and a competitor meet; four let an invitation be
issued, competed for twice and retried. Two tabs and three requests let one
tab's late error meet the other's receipt and a clear in between; a second
payload for one operation needs one foreign client. In the workspace: 2
requirements (one of unverified provenance), an allocation, a design, 2 clients
and 4 commands let a design rest on an allocation whose requirement moves while
the other client sends; 3 tasks are the shortest cycle that no pairwise check
finds; 3 documents in 2 series with earlier numbers, a question answered twice;
2 reservations, holds, allocations and movements; 3 requests for equipment at 2
processes with a restart, 3 saves; 2 orders against one ceiling, one of which
is sent, timed out and received in 2 lines, one reconciliation that finds
nothing, 2 bank changes; an approval identifier used twice
beside the sample request, 2 members of staff and a restart. Each bound was chosen so that every action fires and
every broken variant is found within it.

**Scenarios.** Where one run explores several (`OneScenario`, `Scenario`), the
constraint keeps a behaviour within one of them; every safety property is one of
a behaviour's states and steps, so that nothing is hidden but mixtures of
scenarios. In `authority_commands` nobody signs in or out while only access
changes. The registers of `Workspace` share no variable, so that a state in
which two of them have moved shows nothing that the two do not show apart:
`moving` says which one does. `InTurn` takes names that nothing else
distinguishes in their order, which is a symmetry by hand. So that a run takes
minutes at most, access to the note's project comes and goes in
`fieldnotes_custody` before the third request only and while there is one note,
and a second vendor of `workspace` is made only where no bank change is.

**Stopping.** The runs say `CHECK_DEADLOCK FALSE`: once the deliveries are used up
and sessions have ended, nothing is left to do. That no transaction waits for
ever is `AttemptsEnd`, a liveness property, instead.

**Fairness.** `authority_live` and `invitations_live` assume that a transaction
that can take its next step takes it (the process runs: weak fairness of `Run`)
and that the waiter of a lock that is released again and again gets it
(PostgreSQL queues waiters: strong fairness of the lock steps). In `Invitations`
PostgreSQL's deadlock detector is weakly fair too. No client, sign-in, failure
or expiry is obliged to happen. These runs use no symmetry.

**Only model-checked.** Both `AttemptsEnd`, because they are liveness properties.
Every other property of a passing run is stated by a theorem of section 4.
`NeverDowngraded` and `VerifiedHasEvidence` are proved and no run checks them:
`PromiseKept` and `HandledAlone`, which runs check, say more.

## 4. What is proved

Every proof is for arbitrary constants under the modules' named assumptions, so
for any number of members, connections, keys, notes, tabs and deliveries.

* `OrgAuthorityProofs!TypeCorrect`: `TypeOK`.
* `OrgAuthorityProofs!AuthorityInvariant`: the inductive core. (a) `LockExclusive`: at most one
  connection is in a phase that holds the organisation row; (b) `ChecksStand`: past its checks,
  a transaction's actor is still entitled; (c) past `Write`, its command is still
  acceptable. (b) and (c) are preserved because only a commit changes what they
  read, and by (a) a commit is the transaction's own.
* `AdministratorAlwaysRemains`, from (c) for revocations (the target is not the
  only administrator), from the privileged roles for role changes, and from the
  seeded organisation having one (`SeedAssumption`).
* `AuthorityHeldAtCommit`, the action property, from (b).
* `OrgAuthorityProofs!LedgerInvariant`: an invariant on the ledgers (receipts are exactly the audit
  rows, one per key; what a connection is about to answer is such a row; a
  connection past the receipt lookup has found none, which holds because of (a))
  gives `LedgersAlwaysAgree`, `EffectsNeverRefused` and `CommandsTakeEffectOnce`,
  the refinement of `CommandLedger`: a commit maps to `TakeEffect`, an answer to
  `Tell`, every other step to a stutter.
* `UpdatesNotLost` (`NoLostUpdate`), because no event carries a later version than
  its subject has now (`VersionsReached`), and a commit's version is the next one.
  `NothingSilentlyReactivated`, as an action property: only `CreateGrant` makes a
  grant active, and a restoration withdraws what its target held.
  `SignInsAreFresh`, from `DoomedStand`: between the `DELETE` and the `COMMIT` every
  live session of the target is among those deleted, because a sign-in waits for
  the users row. `ChainStandsUnrevoked` (`ChainUntilRevocation`), from
  `ChainLinked`: until a revocation commits, every row is dated by the clock at its
  commit and links to the row before it.
* `FieldNotesProofs`: `Custody`, an invariant that ties the device to the network
  and the server (a waiting tab's request carries its note's captured payload; an
  answer names an observation of it; a received note's receipt does; an operation
  id has one observation, and a key's receipt an observation) gives
  `NotesStaySafe`, `NotesRecordedOnce`, `ReceiptsStayBacked` and `NotesTyped`, and
  with it the action property `ReceiptsNeverDowngraded`: what a tab saves late is
  either an error, which does not overwrite a receipt, or a receipt, and the
  invariant says that it is of the same observation. `NotesPromised` is the
  refinement of `NoteCustody`. It needs two facts more: what is on its way is a note
  as captured or in another client's words (`Requested`), so that what is recorded
  is too; and only a received note names a receipt (`Plain`), so that saving an
  error changes nothing but a note left out, which `NoNoteLost` says is recorded.
  A sequence of records grows where that of the observations does (`RecordsAre`,
  `KeepStep`). `ConflictsAreTold` needs that
  pictures of a task age (`TasksSeen`): one with the task's version is the task.
* `ConstraintsProofs`: `ReviewsSafe`, an invariant on the row locks and the counts
  they protect (who holds a lock knows the row as it is; nobody changes anything
  after a change; the version counts the changes; a constraint under review has
  one submission more than verifications) gives `VersionsCount` and
  `VerificationsAreReviewed`, and with it `EvidenceSafe`. `ConstraintsHandledAlone`
  is the refinement of `ConstraintBoard`: under the lock the version and the status
  a handler read are those of the row it updates (`OnTheRow`), and the newest link it
  verifies is one of the sources (`NewestIsALink`, which also says that none is
  newer). `ReplaysSafe` rests on
  its own invariant: every kept answer is the one a delivery of the same slot and
  payload was given, and a slot keeps one answer. `ConstraintsTyped`: a
  verification names a document, since among finitely many links one is newest
  and no link is later than the present (`Dated`).
* `ScheduleProofs`: `ScheduleTyped`, and `ScheduleAcyclic` for any number of
  tasks. The search's closed set is the witness: if adding an edge from `a` to
  `b` left a set in which every task waits for another of it, its members that
  `b` does not reach would be such a set already without the new edge, unless
  `b` reaches `a`, which the check refuses. Archiving only removes edges.
  `ReachesByPath` says that this is the traversal: a task is in every closed set
  exactly if some path of edges leads to it. A path does not leave a closed set,
  since it would do so at a first edge (`FirstOnTheWay`); and what paths lead to is
  itself closed. `NoTaskWaitsForItself`: no path of any length comes back.
  `CandidatesAreReviewed`: a picture of the schedule tells the moment it was taken
  at, though it shows versions and active edges only, because rows get a version
  with every change and archived edges keep their place (`Pictures`).
* `SourcePinsProofs`: `PinsTyped`, `PinsAgree`, `PinsSettled` and `PinsDesigned`.
  Histories only grow, so that a pin that is not current never becomes so again
  and a review that the registers no longer show never is shown again; that is
  why what was assessed stays stale, and why a refusal of a recorded command
  stays explained by what moved. The rest of the invariant: the allocations a
  design pins rest on the requirement revisions it pins (`DesignsRest`, from
  `capturePins`), a key has a receipt exactly if something was written under it,
  and no two clients share one.
* `InvitationsProofs`: `InvitationInvariant`. Every command's plan of locks starts
  with its organisation's row, so whoever has a lock has that one, and no two
  transactions of one organisation have it (`OrgExclusive`), although plans
  depend on the state and the later locks are shared between organisations.
  Memberships and keys belong to one organisation, so another's commit can
  neither take away the authority that was checked (`AuthorityStands`; an issued
  invitation keeps its issuer) nor use the key that was looked up (`FreshKeys`).
  From these follow `JoinsAreAuthorised` and `InvitationsTakeEffectOnce`, the
  refinement of `CommandLedger`. `OwnersConsent`, `OutcomesAreFinal` and
  `NeverTwoOpen` need types only, because an acceptance or invitation checks
  the account, the status and the open invitations in the state in which it
  commits. They assume that some organisation and some person exist
  (`PeopleAssumption`).
* `RegistersProofs`, one inductive invariant per register:
  * `RecordsStayWhole`: the revisions of each document have the versions from 2 to
    its own, each once (`RevisedFor`), and a question's history, its responses and
    its status tell the same story (`WholeFor`). That `NextSequence` is defined at
    all is a lemma, `NumberFound`: `count` documents cannot have `count + 1` numbers.
  * `PromisesStandApart`: to `PromisesApart` the invariant adds that a resource
    never held has all its pieces usable, and that what the reservations of a
    moment take is a sum of natural numbers that one more reservation increases by
    its quantity: the sum the check looks at, over all windows that meet the new
    one, is at least the sum at any moment of it.
  * `AcknowledgedStands`: a request that was acknowledged has its operation in the
    table, where a key's row is never replaced, so that a later request of the key is
    answered at its lookup and books nothing (`Acknowledgements`); a save about to
    write knows the version it stated to be the one it updates (`DraftInvariant`).
    A process books finitely many operations, so that what is available is what the
    firm ones leave (`AvailableIsTheRest`) and a booking for which there is room
    keeps them within the pool (`BookKeepsPool`).
  * `PurchasesStaySound`: what is consumed is the sum over the call-offs of each
    contract, a sum that a new order increases by its amount and no other step
    touches; every order's sendings, receipts and status agree; both keys of a
    vendor lead to objects of that vendor, whose bank details are told by the first
    of them or by a verified change (`BanksTold`).
  * `DecisionsSafe` (`DecisionsStand`): the map shows as pending only what is
    undecided, the map and the rows keep requests under their own identifiers, and
    every statement under way carries a decision that was made.
* `WorkspaceProofs`: `PartsBehave`, the workspace implements each register's
  specification. Every step of `WorkspaceNext` is a step of the part that moves
  (`PinsMove` and its companions) and leaves the others' variables alone
  (`OthersStay`). From this and the registers' theorems follow `WorkspaceTyped`,
  `WorkspaceSafe` and `WorkspaceDesigned` of the specification that the runs explore
  (`MCSpec` only narrows the initial states).

**Sums and folds.** Sums over sets (`MapThenSumSet`) and the counting of a receipt's
items (`FoldLeft`) are computed by recursion over data. No induction theorem of the
library applies to them, as each takes an operator; `RegistersProofs` argues by
smallest counterexamples instead. Among sets of finite sets one is minimal
(`SmallestSet`, from the well-founded order of finite subsets), so that two folds
over the same set agree (`FoldsAgree`), a fold exists (`FoldExists`), and a sum
unfolds at any element (`SumUnfolds`). The rest (`SumOfOneMore`, `SumOfTheSame`,
`SumGrows`) follows from these.

**Assumptions.** Those named in the modules, which TLC evaluates on each run. Besides
the types of the constants: the document register and the seeded vendors are
finite; points in time are integers (milliseconds in the code); no asset's tag is
an asset's identifier (identifiers are random); the pool of equipment has a natural number of free units; `None`, which stands
for an absent row or column, is not a row, number or name. Bounds are not assumed to be large:
the theorems hold for every value.

Liveness under fairness is outside what TLAPS does here and stays with TLC.

## 5. Plan

The order follows the weight of the behaviour. Done: `OrgAuthority` with
`CommandLedger`, `Invitations`, `FieldNotes` with `NoteCustody`, `Constraints` with
the idempotency guard and `ConstraintBoard`, `SourcePins`, `ProjectSchedule`, `ControlledRecords`, `Inventory`,
`IntegrationStore`, `Purchasing`, `Approvals`.

To come:

1. Abstract specifications of the registers of `Workspace`, as `CommandLedger`,
   `NoteCustody` and `ConstraintBoard` are of the commands, the notes and the
   constraints.
2. `Sessions`: MFA, password reset, provisioning at sign-in.
3. Decisions on conflicts and tentative holds of the integrations; requests for
   quotation and bid evaluation beside `Purchasing`.
4. `StageGraph`, `GoLive`: rules against reference definitions over bounded
   inputs.

Each run is to stay within a few minutes: two connections or two clients, two or
three records, three or four commands.

## 6. Where the code and its documents disagree

* **The audit chain forks.** `revokeMembership` (`api/identity/identity.controller.ts:219`)
  leaves `created_at` to its default, the transaction's start, while it links to
  the newest row found once the organisation row is locked. A revocation that
  waited is dated before the row it links to, and the next row, ordered by
  `created_at`, links past it. Run `authority_audit`.
* **Deadlock victims are not retried.** The data model
  (`E3_EOS_Complete_MD_2026-09-26/specs/03_DATA_MODEL_AND_INVARIANTS.md:113`)
  promises bounded safe retries; an invitation aborted by PostgreSQL is answered
  503 (`api/identity/invitation.service.ts:55`). Run `invitations_deadlock`.

* **Copies of a request run twice.** The idempotency guard
  (`api/common/idempotency.guard.ts:51`) looks answers up in a map of the process
  and keeps one when the response is written; copies that arrive together, and a
  retry after a restart, all run. `specs/05_API_AND_EVENT_CONTRACTS.md:15` wants
  hash, state and response in PostgreSQL. Run `constraints_once`.
* **An accepted draft is lost.** Two first saves of a project's demand both insert
  (`api/integrations/integration-operations.store.ts:463`); readers get one of the
  rows. The store's header speaks of unique constraints and conditional updates.
  Run `integration_drafts`.
* **Old bank details return.** A verified change is stored as a copy under the
  vendor's identifier only; a status update through the vendor's code sets the
  identifier back to the old object (`api/procurement/procurement.controller.ts:917`).
  `domain/procurement.ts:307` says that an ordinary update cannot redirect bank
  details. Run `purchasing_bank`.

### Observations

Behaviour met while modelling, which the models have as the code does, but which
no run states a property about, because no document says clearly what should be:

* Constraints: a source can be attached to a verified constraint, which leaves it
  unverified (`domain/constraints.ts:269`); the guard replays failed answers too
  (`api/common/idempotency.guard.ts:71`); of two overlapping attachments the one
  committed last need not be the newest by `linked_at`.
* Designs and assessments: the retry of a recorded one is refused once its
  sources moved, because they are checked before the receipt
  (`api/scope/impact-register.service.ts:182`). `RetriesAnswered` (part of `CommandsSettled`)
  says exactly when.
* Inventory: a confirmation for other dates is not compared with other
  reservations (`ConfirmedApart`, from `domain/inventory.ts:67`, does not hold;
  `ReservedApart` says what does); releasing one of two holds makes a resource
  serviceable; the usable quantity may exceed the total; a reservation whose
  window is empty blocks its resource for all others, one with unreadable dates
  blocks nothing; a damaged asset that is restocked becomes available.
* Integrations: keyed requests that reach two processes together both book, under
  different operations, and one is answered; the lookup by key ignores the
  project; the last of two decisions on a conflict wins; tentative holds take no
  capacity.
* Purchasing: an order refused for an unreadable line has consumed its amount of
  the ceiling; items of a refused receipt before the refused one stay counted;
  a cancelled or received order can be timed out, reconciled and sent again; a
  cancellation gives nothing back to the ceiling; totals may be negative; an order
  may go to a blacklisted vendor; a verified change leaves
  `restrictedBankDetails` as they were; codes made from the last four digits of
  the clock repeat.
* Finance: invoice identifiers from the last four digits of the clock overwrite
  each other, an approved invoice can be approved and posted again, a match resets
  its status, and a second month-end lock overwrites the first snapshot
  (`api/commercial/commercial-finance.controller.ts`).
* Governance: a policy's version is always 1 or 2; a request with the id of a
  decided approval replaces the decision in memory and not in the database, so
  that the next decision's row refers to the earlier request; a decision made
  before its request is stored is answered and never recorded, and so is that of
  the sample request, whose id no UUID column takes
  (`api/governance/governance.controller.ts:516`); rows of `approval_requests`
  stay pending; the policy snapshot a client says it expects must be a UUID, which
  no snapshot's id is; authorising an exception again resets its uses, which nothing consumes.
* The observation's `receivedAt`, cut to milliseconds, dates its audit row
  (`api/field-sync/field-observations.service.ts:93`), perhaps before the row it
  links to.

## 7. Not modelled

Reading endpoints, formats and hashes (a hash is its input), row level security,
e-mail, the encrypted invitation payload, damaged browser storage, two
resolutions of the database clock, and the components marked so in
`PROJECT.json`, with the reason there. The legacy field, scope and design
handlers, the company vault and the submission packs are unreachable behind
guards that answer 503 (`api/documents/documents-access.guard.ts:8`). The views of
the web application, nearly half of the code, render what the API answers; the
only one with a protocol of its own is the field notes'. Of the remaining
in-memory handlers most store what they are sent, in one step, and no document
states more of them than that; the domain engines compute one value from one
input.
