------------------------- MODULE OrgAuthorityProofs -------------------------
(***************************************************************************)
(* Proofs about OrgAuthority, for any organisation, command set and number *)
(* of connections.  First types; then that authority holds when a command  *)
(* commits and an administrator remains; then the ledgers, which implement *)
(* CommandLedger; then grants, sessions, versions and the audit chain.     *)
(***************************************************************************)
EXTENDS OrgAuthority, SequenceTheorems, TLAPS

-----------------------------------------------------------------------------
\* Typing.

\* The fields a request of each operation carries.
LEMMA CommandFields ==
  ASSUME NEW c \in Commands
  PROVE  /\ c.actor \in Members
         /\ c.key \in Keys
         /\ c.op \in MembershipOps \cup {"grant"} => c.target \in Members
         /\ c.op = "role" => c.role \in AllowedRoles
         /\ c.op \in {"grant", "create", "durable"} => c.project \in Projects
         /\ c.op \in {"grant", "regrade"} => c.level \in Levels
         /\ c.op \in {"regrade", "withdraw"} => c.grant \in Grants
BY CommandsAssumption DEF Command, Revocation, RoleChange, Restoration, Granting,
   Regrading, Withdrawal, Creation, Durable, MembershipOps

\* Commands and tokens of a connection that is in use.
LEMMA BusyJob ==
  ASSUME TypeOK, NEW w \in Workers, pc[w] # "idle"
  PROVE  job[w] \in Job
BY DEF TypeOK

\* The audit index a new row links to is a number.
LEMMA LatestType ==
  ASSUME TypeOK
  PROVE  Latest \in Nat
<1>1. Newest \subseteq Nat
  BY DEF Newest, TypeOK
<1>2. CASE Newest = {}
  BY <1>2 DEF Latest
<1>3. CASE Newest # {}
  <2>1. (CHOOSE i \in Newest : TRUE) \in Newest
    BY <1>3
  <2>2. QED
    BY <1>1, <1>3, <2>1 DEF Latest
<1>4. QED
  BY <1>2, <1>3

\* What a committing transaction carries.
LEMMA BusyCommand ==
  ASSUME TypeOK, NEW w \in Workers, pc[w] # "idle"
  PROVE  /\ job[w].cmd \in Commands
         /\ job[w].token \in Tokens
         /\ job[w].began \in Nat
         /\ job[w].doomed \subseteq Tokens
         /\ job[w].event \in Nat
BY BusyJob DEF Job

\* A grant row that is withdrawn, or gets another level, stays a grant row.
LEMMA GrantRow ==
  ASSUME NEW row \in Grant
  PROVE  /\ [row EXCEPT !.status = "revoked", !.version = @ + 1] \in Grant
         /\ \A l \in Levels : [row EXCEPT !.level = l, !.version = @ + 1] \in Grant
<1>1. row.version + 1 \in Nat
  BY DEF Grant
<1>2. \A n \in Nat : [row EXCEPT !.status = "revoked", !.version = n] \in Grant
  BY DEF Grant, GrantStatus
<1>3. \A n \in Nat, l \in Levels : [row EXCEPT !.level = l, !.version = n] \in Grant
  BY DEF Grant
<1>4. QED
  BY <1>1, <1>2, <1>3

\* The rows every commit writes are well typed.
LEMMA CompleteTypes ==
  ASSUME TypeOK, NEW w \in Workers, pc[w] = "written",
         NEW v \in Nat, Complete(w, v)
  PROVE  /\ session' \in [Tokens -> {"none", "checked", "live", "ended"}]
         /\ receipts' \subseteq Record
         /\ audit' \in Seq(Event)
         /\ outbox' \subseteq Record
         /\ clock' \in Nat
         /\ pc' \in [Workers -> Phases]
         /\ job' \in [Workers -> Job \cup {<<>>}]
         /\ \A x \in Workers : pc'[x] # "idle" => job'[x] \in Job
         /\ answers' \subseteq Answer
         /\ attempts' \in Nat
<1> DEFINE e == [cmd |-> job[w].cmd, at |-> CreatedAt(w), prev |-> Latest,
                 version |-> v]
           row == [cmd |-> job[w].cmd, event |-> Len(audit) + 1]
<1>1. /\ job[w].cmd \in Commands
      /\ job[w].began \in Nat
      /\ job[w] \in Job
  BY BusyCommand, BusyJob
<1>2. CreatedAt(w) \in Nat
  BY <1>1 DEF CreatedAt, TypeOK
<1>3. e \in Event
  BY <1>1, <1>2, LatestType DEF Event
<1>4. row \in Record
  BY <1>1 DEF Record, TypeOK
<1>5. audit' = Append(audit, e) /\ audit' \in Seq(Event)
  <2>1. audit' = Append(audit, e)
    BY DEF Complete
  <2>2. QED
    BY <1>3, <2>1 DEF TypeOK
<1>6. outbox' \subseteq Record /\ receipts' \subseteq Record
  BY <1>4 DEF Complete, TypeOK
<1>7. pc' \in [Workers -> Phases]
  BY DEF Complete, TypeOK, Phases
<1>8. [job[w] EXCEPT !.event = row.event] \in Job
  <2>1. row.event \in Nat
    BY DEF TypeOK
  <2> HIDE DEF row, e
  <2>2. QED
    BY <1>1, <2>1 DEF Job
<1>9. /\ job' \in [Workers -> Job \cup {<<>>}]
      /\ \A x \in Workers : pc'[x] # "idle" => job'[x] \in Job
  BY <1>8 DEF Complete, TypeOK
<1>10. session' \in [Tokens -> {"none", "checked", "live", "ended"}]
  BY DEF Complete, TypeOK
<1>11. clock' \in Nat /\ answers' \subseteq Answer /\ attempts' \in Nat
  BY DEF Complete, TypeOK
<1>12. QED
  BY <1>5, <1>6, <1>7, <1>9, <1>10, <1>11

LEMMA InitTypes == Init => TypeOK
<1> SUFFICES ASSUME Init PROVE TypeOK
  OBVIOUS
<1>1. session \in [Tokens -> {"none", "checked", "live", "ended"}]
  BY DEF Init
<1>2. audit \in Seq(Event)
  BY DEF Init
<1>3. pc \in [Workers -> Phases] /\ job \in [Workers -> Job \cup {<<>>}]
  BY DEF Init, Phases
<1>4. \A w \in Workers : pc[w] = "idle"
  BY DEF Init
<1>5. QED
  BY <1>1, <1>2, <1>3, <1>4, MembersAssumption, ProjectsAssumption DEF Init, TypeOK

\* A request of an answered attempt gives a well-typed answer.
LEMMA ReplyTypes ==
  ASSUME TypeOK, NEW w \in Workers, pc[w] # "idle",
         NEW kind \in {"done", "denied", "refused"}, NEW event \in Nat,
         Reply(w, kind, event)
  PROVE  answers' \subseteq Answer
BY BusyCommand DEF Reply, Answer, TypeOK

\* A connection that goes back to the pool is well typed.
LEMMA ReleaseTypes ==
  ASSUME TypeOK, NEW w \in Workers, Release(w)
  PROVE  /\ pc' \in [Workers -> Phases]
         /\ job' \in [Workers -> Job \cup {<<>>}]
         /\ \A x \in Workers : pc'[x] # "idle" => job'[x] \in Job
BY DEF Release, TypeOK, Phases

LEMMA StepTypes == TypeOK /\ [Next]_vars => TypeOK'
<1> SUFFICES ASSUME TypeOK, [Next]_vars PROVE TypeOK'
  OBVIOUS
<1>1. CASE UNCHANGED vars
  BY <1>1 DEF TypeOK, vars, domainVars, ledgerVars
<1>2. ASSUME NEW t \in Tokens, SignInCheck(t) \/ SignInStore(t) \/ EndSession(t)
      PROVE  TypeOK'
  BY <1>2 DEF TypeOK, SignInCheck, SignInStore, EndSession, domainVars, ledgerVars
<1>3. ASSUME NEW w \in Workers, NEW c \in Commands, NEW t \in Tokens, Receive(w, c, t)
      PROVE  TypeOK'
  <2>1. [cmd |-> c, token |-> t, began |-> clock, doomed |-> {}, event |-> 0] \in Job
    BY DEF Job, TypeOK
  <2>2. /\ job' \in [Workers -> Job \cup {<<>>}]
        /\ \A x \in Workers : pc'[x] # "idle" => job'[x] \in Job
    BY <1>3, <2>1 DEF Receive, TypeOK, Move
  <2>3. pc' \in [Workers -> Phases]
    BY <1>3 DEF Receive, TypeOK, Move, Phases
  <2>4. clock' \in Nat /\ attempts' \in Nat
    BY <1>3 DEF Receive, TypeOK
  <2>5. UNCHANGED <<domainVars, session, ledgerVars, answers>>
    BY <1>3 DEF Receive
  <2>6. QED
    BY <2>2, <2>3, <2>4, <2>5 DEF TypeOK, domainVars, ledgerVars
<1>4. ASSUME NEW w \in Workers, LockOrganisation(w) \/ Proceed(w)
      PROVE  TypeOK'
  <2>1. /\ pc' \in [Workers -> Phases]
        /\ \A x \in Workers : pc'[x] # "idle" => pc[x] # "idle"
    BY <1>4 DEF LockOrganisation, Proceed, Move, Phases, TypeOK
  <2>2. UNCHANGED <<domainVars, session, ledgerVars, clock, job, answers, attempts>>
    BY <1>4 DEF LockOrganisation, Proceed
  <2>3. QED
    BY <2>1, <2>2 DEF TypeOK, domainVars, ledgerVars
<1>5. ASSUME NEW w \in Workers, Deny(w) \/ Conflict(w) \/ Refuse(w)
      PROVE  TypeOK'
  <2>1. Release(w) /\ pc[w] # "idle"
    BY <1>5 DEF Deny, Conflict, Refuse
  <2>2. \E kind \in {"done", "denied", "refused"} : Reply(w, kind, 0)
    BY <1>5 DEF Deny, Conflict, Refuse
  <2>3. answers' \subseteq Answer
    BY <2>1, <2>2, ReplyTypes
  <2>4. UNCHANGED <<domainVars, session, ledgerVars, clock, attempts>>
    BY <1>5 DEF Deny, Conflict, Refuse
  <2>5. QED
    BY <2>1, <2>3, <2>4, ReleaseTypes DEF TypeOK, domainVars, ledgerVars
<1>6. ASSUME NEW w \in Workers, Replay(w)
      PROVE  TypeOK'
  <2>1. PICK r \in KeyReceipt(w) : job' = [job EXCEPT ![w].event = r.event]
    BY <1>6 DEF Replay
  <2>2. r.event \in Nat
    BY DEF KeyReceipt, Record, TypeOK
  <2>3. job[w] \in Job
    BY <1>6, BusyJob DEF Replay, Move
  <2>4. [job[w] EXCEPT !.event = r.event] \in Job
    BY <2>2, <2>3 DEF Job
  <2>5. /\ job' \in [Workers -> Job \cup {<<>>}]
        /\ pc' \in [Workers -> Phases]
        /\ \A x \in Workers : pc'[x] # "idle" => job'[x] \in Job
    BY <1>6, <2>1, <2>4 DEF Replay, Move, Phases, TypeOK
  <2>6. UNCHANGED <<domainVars, session, ledgerVars, clock, answers, attempts>>
    BY <1>6 DEF Replay
  <2>7. QED
    BY <2>5, <2>6 DEF TypeOK, domainVars, ledgerVars
<1>7. ASSUME NEW w \in Workers, Write(w)
      PROVE  TypeOK'
  <2>1. PICK s \in SUBSET Tokens : job' = [job EXCEPT ![w].doomed = s]
    BY <1>7 DEF Write
  <2>2. job[w] \in Job
    BY <1>7, BusyJob DEF Write, Move
  <2>3. [job[w] EXCEPT !.doomed = s] \in Job
    BY <2>2 DEF Job
  <2>4. /\ job' \in [Workers -> Job \cup {<<>>}]
        /\ pc' \in [Workers -> Phases]
        /\ \A x \in Workers : pc'[x] # "idle" => job'[x] \in Job
    BY <1>7, <2>1, <2>3 DEF Write, Move, Phases, TypeOK
  <2>5. UNCHANGED <<domainVars, session, ledgerVars, clock, answers, attempts>>
    BY <1>7 DEF Write
  <2>6. QED
    BY <2>4, <2>5 DEF TypeOK, domainVars, ledgerVars
<1>8. ASSUME NEW w \in Workers, Commit(w)
      PROVE  TypeOK'
  <2>1. PICK v \in Nat : pc[w] = "written" /\ Complete(w, v)
    <3>1. job[w].cmd \in Commands /\ pc[w] = "written"
      BY <1>8, BusyCommand DEF Commit, Revoke, ChangeRole, Restore, CreateGrant,
         RegradeGrant, WithdrawGrant, CreateProject, RunDurable, Committing
    <3>2. CASE Revoke(w) \/ ChangeRole(w) \/ Restore(w)
      <4>1. job[w].cmd.target \in Members
        BY <3>1, <3>2, CommandFields
           DEF Revoke, ChangeRole, Restore, Committing, MembershipOps
      <4>2. version[job[w].cmd.target] + 1 \in Nat
        BY <4>1 DEF TypeOK
      <4>3. QED
        BY <3>1, <3>2, <4>2 DEF Revoke, ChangeRole, Restore
    <3>3. CASE CreateGrant(w) \/ CreateProject(w)
      BY <3>1, <3>3 DEF CreateGrant, CreateProject
    <3>4. CASE RegradeGrant(w) \/ WithdrawGrant(w)
      <4>1. job[w].cmd.grant \in Grants
        BY <3>1, <3>4, CommandFields DEF RegradeGrant, WithdrawGrant, Committing
      <4>2. grant[job[w].cmd.grant].version + 1 \in Nat
        BY <4>1 DEF TypeOK, Grant
      <4>3. QED
        BY <3>1, <3>4, <4>2 DEF RegradeGrant, WithdrawGrant
    <3>5. CASE RunDurable(w)
      <4>1. job[w].cmd.project \in Projects
        BY <3>1, <3>5, CommandFields DEF RunDurable, Committing
      <4>2. work[job[w].cmd.project] + 1 \in Nat
        BY <4>1 DEF TypeOK
      <4>3. QED
        BY <3>1, <3>5, <4>2 DEF RunDurable
    <3>6. QED
      BY <1>8, <3>2, <3>3, <3>4, <3>5 DEF Commit
  <2>2. /\ job[w].cmd \in Commands
        /\ job[w].cmd.op \in MembershipOps \cup {"grant"} => job[w].cmd.target \in Members
        /\ job[w].cmd.op = "role" => job[w].cmd.role \in AllowedRoles
        /\ job[w].cmd.op \in {"grant", "create", "durable"} => job[w].cmd.project \in Projects
        /\ job[w].cmd.op \in {"grant", "regrade"} => job[w].cmd.level \in Levels
        /\ job[w].cmd.op \in {"regrade", "withdraw"} => job[w].cmd.grant \in Grants
    BY <2>1, BusyCommand, CommandFields
  <2> DEFINE Domain == /\ role' \in [Members -> Roles]
                       /\ revoked' \subseteq Members
                       /\ version' \in [Members -> Nat]
                       /\ projects' \subseteq Projects
                       /\ grant' \in [Grants -> Grant]
                       /\ work' \in [Projects -> Nat]
  <2>3. Domain
    <3>1. CASE Revoke(w)
      BY <2>2, <3>1 DEF Revoke, Committing, MembershipOps, TypeOK
    <3>2. CASE ChangeRole(w)
      BY <2>2, <3>2 DEF ChangeRole, Committing, MembershipOps, TypeOK, Roles
    <3>3. CASE Restore(w)
      <4>1. ASSUME NEW g \in Grants
            PROVE  [grant[g] EXCEPT !.status = "revoked", !.version = @ + 1] \in Grant
        BY GrantRow DEF TypeOK
      <4>2. grant' \in [Grants -> Grant]
        BY <3>3, <4>1 DEF Restore, TypeOK
      <4>3. /\ revoked' = revoked \ {job[w].cmd.target}
            /\ version' = [version EXCEPT ![job[w].cmd.target] = @ + 1]
            /\ UNCHANGED <<role, projects, work>>
            /\ job[w].cmd.target \in Members
        BY <2>2, <3>3 DEF Restore, Committing, MembershipOps
      <4>4. QED
        BY <4>2, <4>3 DEF TypeOK
    <3>4. CASE CreateGrant(w)
      <4>1. [status |-> "active", project |-> job[w].cmd.project,
             member |-> job[w].cmd.target, level |-> job[w].cmd.level,
             version |-> 1] \in Grant
        BY <2>2, <3>4 DEF CreateGrant, Committing, Grant, GrantStatus
      <4>2. grant' \in [Grants -> Grant]
        BY <3>4, <4>1 DEF CreateGrant, TypeOK
      <4>3. QED
        BY <3>4, <4>2 DEF CreateGrant, TypeOK
    <3>5. CASE RegradeGrant(w)
      <4>1. [grant[job[w].cmd.grant] EXCEPT !.level = job[w].cmd.level,
                                            !.version = @ + 1] \in Grant
        <5>1. job[w].cmd.grant \in Grants /\ job[w].cmd.level \in Levels
          BY <2>2, <3>5 DEF RegradeGrant, Committing
        <5>2. grant[job[w].cmd.grant] \in Grant
          BY <5>1 DEF TypeOK
        <5> QED
          BY <5>1, <5>2, GrantRow
      <4>2. grant' \in [Grants -> Grant]
        BY <2>2, <3>5, <4>1 DEF RegradeGrant, TypeOK
      <4>3. QED
        BY <3>5, <4>2 DEF RegradeGrant, TypeOK
    <3>6. CASE WithdrawGrant(w)
      <4>1. [grant[job[w].cmd.grant] EXCEPT !.status = "revoked",
                                            !.version = @ + 1] \in Grant
        BY <2>2, <3>6, GrantRow DEF WithdrawGrant, Committing, TypeOK
      <4>2. grant' \in [Grants -> Grant]
        BY <2>2, <3>6, <4>1 DEF WithdrawGrant, TypeOK
      <4>3. QED
        BY <3>6, <4>2 DEF WithdrawGrant, TypeOK
    <3>7. CASE CreateProject(w)
      BY <2>2, <3>7 DEF CreateProject, Committing, TypeOK
    <3>8. CASE RunDurable(w)
      BY <2>2, <3>8 DEF RunDurable, Committing, TypeOK
    <3>9. QED
      BY <1>8, <3>1, <3>2, <3>3, <3>4, <3>5, <3>6, <3>7, <3>8 DEF Commit
  <2>4. QED
    BY <2>1, <2>3, CompleteTypes DEF TypeOK
<1>9. ASSUME NEW w \in Workers, Respond(w)
      PROVE  TypeOK'
  <2>1. job[w].event \in Nat /\ pc[w] # "idle"
    BY <1>9, BusyCommand DEF Respond
  <2>2. answers' \subseteq Answer
    BY <1>9, <2>1, ReplyTypes DEF Respond
  <2>3. UNCHANGED <<domainVars, session, ledgerVars, clock, attempts>> /\ Release(w)
    BY <1>9 DEF Respond
  <2>4. QED
    BY <2>2, <2>3, ReleaseTypes DEF TypeOK, domainVars, ledgerVars
<1>10. ASSUME NEW w \in Workers, Fail(w)
       PROVE  TypeOK'
  <2>1. /\ Release(w)
        /\ UNCHANGED <<domainVars, session, ledgerVars, clock, answers, attempts>>
    BY <1>10 DEF Fail
  <2>2. QED
    BY <2>1, ReleaseTypes DEF TypeOK, domainVars, ledgerVars
<1>11. QED
  BY <1>1, <1>2, <1>3, <1>4, <1>5, <1>6, <1>7, <1>8, <1>9, <1>10 DEF Next, Run, Check

\* Every state the commands, failures and sign-ins reach is well typed: no
\* connection that is in use lacks its request, no version stops being a number.
THEOREM TypeCorrect == Spec => []TypeOK
BY InitTypes, StepTypes, PTL DEF Spec

-----------------------------------------------------------------------------
\* Authority.  The lock makes what a transaction has checked stay true until it
\* commits: nobody else writes in between.

LockExclusive ==
  \A v, w \in Workers : pc[v] \in Holding /\ pc[w] \in Holding => v = w

ChecksStand ==
  \A w \in Workers, c \in Commands :
    pc[w] \in {"fresh", "written"} /\ job[w].cmd = c =>
      Entitled(c) /\ (pc[w] = "written" => Acceptable(c))

AuthorityInv == TypeOK /\ LockExclusive /\ ChecksStand

\* The steps of one connection.
Steps(w) ==
  \/ \E c \in Commands, t \in Tokens : Receive(w, c, t)
  \/ LockOrganisation(w) \/ Run(w) \/ Fail(w)

\* A step is of one connection or of no connection, and then only sessions change.
LEMMA StepKinds ==
  ASSUME [Next]_vars
  PROVE  (\E w \in Workers : Steps(w)) \/ UNCHANGED <<domainVars, ledgerVars, pc, job, answers>>
BY DEF Next, Steps, SignInCheck, SignInStore, EndSession, vars

\* A connection's step leaves the others where they are.
LEMMA Elsewhere ==
  ASSUME TypeOK, NEW w \in Workers, Steps(w), NEW v \in Workers \ {w}
  PROVE  pc'[v] = pc[v] /\ job'[v] = job[v]
<1>1. CASE \E c \in Commands, t \in Tokens : Receive(w, c, t)
  BY <1>1 DEF Receive, Move, TypeOK
<1>2. CASE LockOrganisation(w) \/ Replay(w) \/ Proceed(w) \/ Write(w)
  BY <1>2 DEF LockOrganisation, Replay, Proceed, Write, Move, TypeOK
<1>3. CASE Deny(w) \/ Conflict(w) \/ Refuse(w) \/ Respond(w) \/ Fail(w)
  BY <1>3 DEF Deny, Conflict, Refuse, Respond, Fail, Release, TypeOK
<1>4. CASE Commit(w)
  <2>1. \E n : Complete(w, n)
    BY <1>4 DEF Commit, Revoke, ChangeRole, Restore, CreateGrant, RegradeGrant,
       WithdrawGrant, CreateProject, RunDurable
  <2>2. QED
    BY <2>1 DEF Complete, TypeOK
<1>5. QED
  BY <1>1, <1>2, <1>3, <1>4 DEF Steps, Run, Check

\* Only a commit writes the domain, and only from the phase "written".
LEMMA OnlyCommitWrites ==
  ASSUME NEW w \in Workers, Steps(w), ~Commit(w)
  PROVE  UNCHANGED <<domainVars, ledgerVars>>
BY DEF Steps, Run, Check, Receive, LockOrganisation, Deny, Conflict, Replay, Proceed,
   Refuse, Write, Respond, Fail

LEMMA CommitFacts ==
  ASSUME TypeOK, NEW w \in Workers, Commit(w)
  PROVE  /\ pc[w] = "written"
         /\ pc'[w] = "committed"
         /\ job'[w].cmd = job[w].cmd
         /\ \E n : Complete(w, n)
<1>1. pc[w] = "written" /\ \E n : Complete(w, n)
  BY DEF Commit, Revoke, ChangeRole, Restore, CreateGrant, RegradeGrant,
     WithdrawGrant, CreateProject, RunDurable, Committing
<1>2. pc'[w] = "committed"
  BY <1>1 DEF Complete, TypeOK
<1>3. PICK e \in Nat : job' = [job EXCEPT ![w].event = e]
  <2>1. Len(audit) + 1 \in Nat
    BY DEF TypeOK
  <2>2. job' = [job EXCEPT ![w].event = Len(audit) + 1]
    BY <1>1 DEF Complete
  <2>3. QED
    BY <2>1, <2>2
<1>4. job'[w].cmd = job[w].cmd
  BY <1>1, <1>3, BusyJob DEF Job, TypeOK
<1>5. QED
  BY <1>1, <1>2, <1>4

\* The checks read nothing but the domain.
LEMMA ChecksReadDomain ==
  ASSUME UNCHANGED domainVars, NEW c \in Commands
  PROVE  (Entitled(c) => Entitled(c)') /\ (Acceptable(c) => Acceptable(c)')
<1>1. \A m \in Members : IsAdministrator(m)' <=> IsAdministrator(m)
  BY DEF domainVars, IsAdministrator
<1>2. Administrators' = Administrators
  BY <1>1 DEF Administrators
<1>3. Entitled(c) => Entitled(c)'
  BY DEF domainVars, Entitled, IsAdministrator, ManagesOrSuper, HoldsGrant
<1>4. Acceptable(c) => Acceptable(c)'
  BY <1>2 DEF domainVars, Acceptable, RevocationAcceptable, RoleChangeAcceptable,
     RestorationAcceptable, OrdinaryTarget, GrantingAcceptable, CurrentGrant,
     RegradingAcceptable, CreationAcceptable, AllowedTarget, HoldsGrant, IsAdministrator
<1>5. QED
  BY <1>3, <1>4

\* Where a connection may come from.
LEMMA PhaseOrder ==
  ASSUME TypeOK, NEW w \in Workers, Steps(w)
  PROVE  /\ pc'[w] \in Holding => pc[w] \in Holding \/ LockOrganisation(w)
         /\ pc'[w] = "fresh" => Proceed(w)
         /\ pc'[w] = "written" => Write(w)
<1>1. CASE \E c \in Commands, t \in Tokens : Receive(w, c, t)
  BY <1>1 DEF Receive, Move, Holding, TypeOK
<1>2. CASE LockOrganisation(w) \/ Replay(w) \/ Proceed(w) \/ Write(w)
  BY <1>2 DEF LockOrganisation, Replay, Proceed, Write, Move, Holding, TypeOK
<1>3. CASE Deny(w) \/ Conflict(w) \/ Refuse(w) \/ Respond(w) \/ Fail(w)
  BY <1>3 DEF Deny, Conflict, Refuse, Respond, Fail, Release, Holding, TypeOK
<1>4. CASE Commit(w)
  BY <1>4, CommitFacts DEF Holding
<1>5. QED
  BY <1>1, <1>2, <1>3, <1>4 DEF Steps, Run, Check

LEMMA StepLock ==
  ASSUME TypeOK, LockExclusive, [Next]_vars
  PROVE  LockExclusive'
<1>1. CASE UNCHANGED pc
  BY <1>1 DEF LockExclusive
<1>2. ASSUME NEW w \in Workers, Steps(w)
      PROVE  LockExclusive'
  <2>1. CASE LockOrganisation(w)
    <3>1. \A v \in Workers : pc[v] \notin Holding
      BY <2>1 DEF LockOrganisation, OrganisationFree
    <3>2. QED
      BY <1>2, <3>1, Elsewhere DEF LockExclusive
  <2>2. CASE ~LockOrganisation(w)
    BY <1>2, <2>2, Elsewhere, PhaseOrder DEF LockExclusive
  <2>3. QED
    BY <2>1, <2>2
<1>3. QED
  BY <1>1, <1>2, StepKinds

LEMMA StepChecks ==
  ASSUME AuthorityInv, [Next]_vars
  PROVE  ChecksStand'
<1>1. CASE UNCHANGED <<domainVars, pc, job>>
  BY <1>1, ChecksReadDomain DEF AuthorityInv, ChecksStand
<1>2. ASSUME NEW w \in Workers, Steps(w), NEW v \in Workers, NEW c \in Commands,
             pc'[v] \in {"fresh", "written"}, job'[v].cmd = c
      PROVE  Entitled(c)' /\ (pc'[v] = "written" => Acceptable(c)')
  <2>1. CASE v = w
    <3>1. ~Commit(w)
      BY <1>2, <2>1, CommitFacts DEF AuthorityInv
    <3>2. UNCHANGED domainVars
      BY <1>2, <3>1, OnlyCommitWrites
    <3>3. CASE pc'[w] = "fresh"
      <4>1. Proceed(w)
        BY <1>2, <3>3, PhaseOrder DEF AuthorityInv
      <4>2. job[w].cmd = c /\ Entitled(c)
        BY <1>2, <2>1, <4>1 DEF Proceed, Authorised
      <4>3. QED
        BY <2>1, <3>2, <3>3, <4>2, ChecksReadDomain
    <3>4. CASE pc'[w] = "written"
      <4>1. Write(w)
        BY <1>2, <3>4, PhaseOrder DEF AuthorityInv
      <4>2. pc[w] = "fresh" /\ Acceptable(job[w].cmd)
        BY <4>1 DEF Write, Move
      <4>3. job[w].cmd = c
        <5>1. PICK s \in SUBSET Tokens : job' = [job EXCEPT ![w].doomed = s]
          BY <4>1 DEF Write
        <5>2. QED
          BY <1>2, <2>1, <4>2, <5>1, BusyJob DEF AuthorityInv, Job, TypeOK
      <4>4. Entitled(c) /\ Acceptable(c)
        BY <4>2, <4>3 DEF AuthorityInv, ChecksStand
      <4>5. QED
        BY <3>2, <4>4, ChecksReadDomain
    <3>5. QED
      BY <1>2, <2>1, <3>3, <3>4
  <2>2. CASE v # w
    <3>1. pc'[v] = pc[v] /\ job'[v] = job[v]
      BY <1>2, <2>2, Elsewhere DEF AuthorityInv
    <3>2. ~Commit(w)
      BY <1>2, <2>2, <3>1, CommitFacts DEF AuthorityInv, LockExclusive, Holding
    <3>3. UNCHANGED domainVars
      BY <1>2, <3>2, OnlyCommitWrites
    <3>4. Entitled(c) /\ (pc[v] = "written" => Acceptable(c))
      BY <1>2, <3>1 DEF AuthorityInv, ChecksStand
    <3>5. QED
      BY <3>1, <3>3, <3>4, ChecksReadDomain
  <2>3. QED
    BY <2>1, <2>2
<1>3. QED
  BY <1>1, <1>2, StepKinds DEF ChecksStand

\* Transactions exclude one another, and what they checked stands.
THEOREM AuthorityInvariant == Spec => []AuthorityInv
<1>1. Init => AuthorityInv
  BY InitTypes DEF Init, AuthorityInv, LockExclusive, ChecksStand, Holding
<1>2. AuthorityInv /\ [Next]_vars => AuthorityInv'
  BY StepTypes, StepLock, StepChecks DEF AuthorityInv
<1>3. QED
  BY <1>1, <1>2, PTL DEF Spec

\* An administrator's command leaves its author an administrator: nobody acts on
\* himself, and nobody but the target changes.
LEMMA AuthorRemains ==
  ASSUME AuthorityInv, NEW w \in Workers, NEW c \in Commands, job[w].cmd = c,
         Revoke(w) \/ ChangeRole(w) \/ Restore(w)
  PROVE  IsAdministrator(c.actor)'
<1>1. /\ pc[w] = "written"
      /\ c.op \in MembershipOps
      /\ c.op = "revoke" <=> Revoke(w)
  BY DEF Revoke, ChangeRole, Restore, Committing, MembershipOps
<1>2. Entitled(c) /\ Acceptable(c)
  BY <1>1 DEF AuthorityInv, ChecksStand
<1>3. IsAdministrator(c.actor) /\ c.actor \in Members
  BY <1>1, <1>2, CommandFields DEF Entitled, AdminOps
<1>4. c.target # c.actor
  BY <1>1, <1>2 DEF Acceptable, RevocationAcceptable, RoleChangeAcceptable,
     RestorationAcceptable, OrdinaryTarget, MembershipOps
<1>5. role'[c.actor] = role[c.actor]
  BY <1>3, <1>4 DEF Revoke, ChangeRole, Restore, AuthorityInv, TypeOK
<1>6. c.actor \notin revoked'
  BY <1>3, <1>4 DEF Revoke, ChangeRole, Restore, IsAdministrator
<1>7. QED
  BY <1>3, <1>5, <1>6 DEF IsAdministrator

\* However administrators revoke, re-role and restore one another at the same
\* time, an active internal administrator remains.
THEOREM AdministratorAlwaysRemains == Spec => []AdministratorRemains
<1>1. Init => AdministratorRemains
  BY SeedAssumption DEF Init, AdministratorRemains, Administrators, IsAdministrator
<1>2. AdministratorRemains /\ AuthorityInv /\ [Next]_vars => AdministratorRemains'
  <2> SUFFICES ASSUME AdministratorRemains, AuthorityInv, [Next]_vars
               PROVE  AdministratorRemains'
    OBVIOUS
  <2>1. CASE UNCHANGED <<role, revoked>>
    BY <2>1 DEF AdministratorRemains, Administrators, IsAdministrator
  <2>2. ASSUME NEW w \in Workers, Revoke(w) \/ ChangeRole(w) \/ Restore(w)
        PROVE  AdministratorRemains'
    <3>1. PICK c \in Commands : job[w].cmd = c
      BY <2>2, BusyCommand DEF AuthorityInv, Revoke, ChangeRole, Restore, Committing
    <3>2. IsAdministrator(c.actor)'
      BY <2>2, <3>1, AuthorRemains
    <3>3. QED
      BY <3>2, CommandFields DEF AdministratorRemains, Administrators
  <2>3. CASE UNCHANGED domainVars
    BY <2>1, <2>3 DEF domainVars
  <2>4. ASSUME NEW w \in Workers, Commit(w)
        PROVE  AdministratorRemains'
    BY <2>1, <2>2, <2>4 DEF Commit, CreateGrant, RegradeGrant, WithdrawGrant,
       CreateProject, RunDurable
  <2>5. QED
    BY <2>3, <2>4, StepKinds, OnlyCommitWrites
<1>3. QED
  BY <1>1, <1>2, AuthorityInvariant, PTL DEF Spec

\* Whatever has happened since the guard let a request in, its effect is
\* committed only for an actor with the authority it needs at that moment.
THEOREM AuthorityHeldAtCommit == Spec => AuthorityAtCommit
<1> DEFINE Held ==
      \A i \in DOMAIN audit' \ DOMAIN audit :
       LET c == audit'[i].cmd IN
       /\ c.actor \notin revoked
       /\ c.op \in AdminOps => IsAdministrator(c.actor)
       /\ c.op = "durable" => HoldsGrant(c.actor, c.project, "editor")
<1>1. AuthorityInv /\ [Next]_vars => [Held]_vars
  <2> SUFFICES ASSUME AuthorityInv, [Next]_vars PROVE Held
    OBVIOUS
  <2>1. CASE UNCHANGED audit
    BY <2>1
  <2>2. ASSUME NEW w \in Workers, Commit(w)
        PROVE  Held
    <3>1. /\ pc[w] = "written"
          /\ job[w].cmd \in Commands
          /\ Entitled(job[w].cmd)
      BY <2>2, CommitFacts, BusyCommand DEF AuthorityInv, ChecksStand
    <3>2. PICK n : audit' = Append(audit, [cmd |-> job[w].cmd, at |-> CreatedAt(w),
                                           prev |-> Latest, version |-> n])
      BY <2>2, CommitFacts DEF AuthorityInv, Complete
    <3>3. \A i \in DOMAIN audit' \ DOMAIN audit : audit'[i].cmd = job[w].cmd
      BY <3>2 DEF AuthorityInv, TypeOK
    <3>4. QED
      BY <3>1, <3>3 DEF Entitled
  <2>3. QED
    BY <2>1, <2>2, StepKinds, OnlyCommitWrites DEF ledgerVars
<1>2. QED
  BY <1>1, AuthorityInvariant, PTL DEF Spec, AuthorityAtCommit

-----------------------------------------------------------------------------
\* The ledgers.

\* A key has at most one effect, the transactions past the receipt lookup have
\* a key without one, and a committed transaction knows its own effect.
KeyOnce ==
  \A i, j \in DOMAIN audit : audit[i].cmd.key = audit[j].cmd.key => i = j

FreshKeys ==
  \A w \in Workers : pc[w] \in {"fresh", "written"} =>
    \A i \in DOMAIN audit : audit[i].cmd.key # job[w].cmd.key

CommittedKnown ==
  \A w \in Workers : pc[w] = "committed" =>
    /\ job[w].event \in DOMAIN audit
    /\ audit[job[w].event].cmd = job[w].cmd

LedgerInv == AuthorityInv /\ LedgersAgree /\ KeyOnce /\ FreshKeys /\ CommittedKnown

-----------------------------------------------------------------------------
\* The receipts are the rows of the audit log.
LEMMA ReceiptRows ==
  ASSUME TypeOK, LedgersAgree, NEW r
  PROVE  r \in receipts <=> \E i \in DOMAIN audit : r = [cmd |-> audit[i].cmd, event |-> i]
BY DEF LedgersAgree

\* What a commit appends, and what it leaves alone.
LEMMA CommitRows ==
  ASSUME TypeOK, NEW w \in Workers, Commit(w)
  PROVE  /\ DOMAIN audit' = DOMAIN audit \cup {Len(audit) + 1}
         /\ DOMAIN audit' = 1..(Len(audit) + 1)
         /\ Len(audit) + 1 \notin DOMAIN audit
         /\ \A i \in DOMAIN audit : audit'[i] = audit[i]
         /\ audit'[Len(audit) + 1].cmd = job[w].cmd
         /\ receipts' = receipts \cup {[cmd |-> job[w].cmd, event |-> Len(audit) + 1]}
         /\ outbox' = outbox \cup {[cmd |-> job[w].cmd, event |-> Len(audit) + 1]}
         /\ job'[w].event = Len(audit) + 1
         /\ answers' = answers
<1>1. PICK n : Complete(w, n)
  BY CommitFacts
<1>2. audit' = Append(audit, [cmd |-> job[w].cmd, at |-> CreatedAt(w),
                              prev |-> Latest, version |-> n])
  BY <1>1 DEF Complete
<1>3. audit \in Seq(Event) /\ Len(audit) \in Nat /\ DOMAIN audit = 1..Len(audit)
  BY DEF TypeOK
<1>4. DOMAIN audit' = 1..(Len(audit) + 1)
  BY <1>2, <1>3
<1>5. /\ \A i \in DOMAIN audit : audit'[i] = audit[i]
      /\ audit'[Len(audit) + 1].cmd = job[w].cmd
  BY <1>2, <1>3
<1>6. job'[w].event = Len(audit) + 1
  <2>1. job' = [job EXCEPT ![w].event = Len(audit) + 1]
    BY <1>1 DEF Complete
  <2>2. job[w] \in Job
    BY CommitFacts, BusyJob
  <2>3. QED
    BY <2>1, <2>2 DEF TypeOK, Job
<1>7. QED
  BY <1>1, <1>3, <1>4, <1>5, <1>6 DEF Complete

\* The steps that answer, and with what.
LEMMA AnswerSteps ==
  ASSUME [Next]_vars, answers' # answers
  PROVE  \E w \in Workers :
           \/ Deny(w) /\ Reply(w, "denied", 0)
           \/ (Conflict(w) \/ Refuse(w)) /\ Reply(w, "refused", 0)
           \/ Respond(w) /\ Reply(w, "done", job[w].event)
<1>1. PICK w \in Workers : Steps(w)
  BY StepKinds
<1>2. ~Commit(w)
  BY DEF Commit, Revoke, ChangeRole, Restore, CreateGrant, RegradeGrant,
     WithdrawGrant, CreateProject, RunDurable, Complete
<1>3. Deny(w) \/ Conflict(w) \/ Refuse(w) \/ Respond(w)
  BY <1>1, <1>2 DEF Steps, Run, Check, Receive, LockOrganisation, Replay, Proceed,
     Write, Fail
<1>4. QED
  BY <1>3 DEF Deny, Conflict, Refuse, Respond

LEMMA StepLedgers ==
  ASSUME LedgerInv, [Next]_vars
  PROVE  LedgersAgree'
<1> USE DEF LedgerInv, AuthorityInv
<1>1. CASE UNCHANGED <<ledgerVars, answers>>
  BY <1>1 DEF LedgersAgree, ledgerVars
<1>2. ASSUME NEW w \in Workers, Commit(w)
      PROVE  LedgersAgree'
  <2> DEFINE row == [cmd |-> job[w].cmd, event |-> Len(audit) + 1]
  <2>1. receipts' = {[cmd |-> audit'[i].cmd, event |-> i] : i \in DOMAIN audit'}
    BY <1>2, CommitRows DEF LedgersAgree
  <2>2. outbox' = receipts' /\ receipts \subseteq receipts' /\ answers' = answers
    BY <1>2, CommitRows DEF LedgersAgree
  <2>3. QED
    BY <2>1, <2>2 DEF LedgersAgree
<1>3. CASE UNCHANGED ledgerVars /\ answers' # answers
  <2>1. PICK w \in Workers :
          \/ Deny(w) /\ Reply(w, "denied", 0)
          \/ (Conflict(w) \/ Refuse(w)) /\ Reply(w, "refused", 0)
          \/ Respond(w) /\ Reply(w, "done", job[w].event)
    BY <1>3, AnswerSteps
  <2>2. CASE Respond(w) /\ Reply(w, "done", job[w].event)
    <3>1. [cmd |-> job[w].cmd, event |-> job[w].event] \in receipts
      BY <2>2, ReceiptRows DEF Respond, CommittedKnown
    <3>2. QED
      BY <1>3, <2>2, <3>1 DEF Reply, LedgersAgree, ledgerVars
  <2>3. CASE Reply(w, "denied", 0) \/ Reply(w, "refused", 0)
    BY <1>3, <2>3 DEF Reply, LedgersAgree, ledgerVars
  <2>4. QED
    BY <2>1, <2>2, <2>3
<1>4. QED
  BY <1>1, <1>2, <1>3, StepKinds, OnlyCommitWrites

LEMMA StepKeys ==
  ASSUME LedgerInv, [Next]_vars
  PROVE  KeyOnce'
<1> USE DEF LedgerInv, AuthorityInv
<1>1. CASE UNCHANGED audit
  BY <1>1 DEF KeyOnce
<1>2. ASSUME NEW w \in Workers, Commit(w)
      PROVE  KeyOnce'
  <2>1. \A i \in DOMAIN audit : audit[i].cmd.key # job[w].cmd.key
    BY <1>2, CommitFacts DEF FreshKeys
  <2>2. QED
    BY <1>2, <2>1, CommitRows DEF KeyOnce
<1>3. QED
  BY <1>1, <1>2, StepKinds, OnlyCommitWrites DEF ledgerVars

\* A transaction's request stays the same while it runs.
LEMMA SameRequest ==
  ASSUME TypeOK, NEW w \in Workers, Steps(w), pc[w] # "idle", pc'[w] # "idle"
  PROVE  job'[w].cmd = job[w].cmd
<1>1. job[w] \in Job
  BY BusyJob
<1>2. CASE \E c \in Commands, t \in Tokens : Receive(w, c, t)
  BY <1>2 DEF Receive, Move
<1>3. CASE LockOrganisation(w) \/ Proceed(w)
  BY <1>3 DEF LockOrganisation, Proceed
<1>4. CASE Replay(w)
  <2>1. PICK e : job' = [job EXCEPT ![w].event = e]
    BY <1>4 DEF Replay
  <2>2. QED
    BY <1>1, <2>1 DEF Job, TypeOK
<1>5. CASE Write(w)
  <2>1. PICK s : job' = [job EXCEPT ![w].doomed = s]
    BY <1>5 DEF Write
  <2>2. QED
    BY <1>1, <2>1 DEF Job, TypeOK
<1>6. CASE Deny(w) \/ Conflict(w) \/ Refuse(w) \/ Respond(w) \/ Fail(w)
  BY <1>6 DEF Deny, Conflict, Refuse, Respond, Fail, Release, TypeOK
<1>7. CASE Commit(w)
  BY <1>7, CommitFacts
<1>8. QED
  BY <1>2, <1>3, <1>4, <1>5, <1>6, <1>7 DEF Steps, Run, Check

LEMMA StepFreshKeys ==
  ASSUME LedgerInv, [Next]_vars
  PROVE  FreshKeys'
<1> USE DEF LedgerInv, AuthorityInv
<1>1. CASE UNCHANGED <<ledgerVars, pc, job>>
  BY <1>1 DEF FreshKeys, ledgerVars
<1>2. ASSUME NEW w \in Workers, Steps(w), NEW v \in Workers,
             pc'[v] \in {"fresh", "written"}, NEW i \in DOMAIN audit'
      PROVE  audit'[i].cmd.key # job'[v].cmd.key
  <2>1. ~Commit(w)
    <3>1. CASE v = w
      BY <1>2, <3>1, CommitFacts
    <3>2. CASE v # w
      BY <1>2, <3>2, Elsewhere, CommitFacts DEF LockExclusive, Holding
    <3>3. QED
      BY <3>1, <3>2
  <2>2. audit' = audit /\ receipts' = receipts
    BY <1>2, <2>1, OnlyCommitWrites DEF ledgerVars
  <2>3. CASE v # w
    BY <1>2, <2>2, <2>3, Elsewhere DEF FreshKeys
  <2>4. CASE v = w /\ pc'[w] = "fresh"
    <3>1. Proceed(w)
      BY <1>2, <2>4, PhaseOrder
    <3>2. KeyReceipt(w) = {} /\ job' = job
      BY <3>1 DEF Proceed
    <3>3. [cmd |-> audit[i].cmd, event |-> i] \in receipts
      BY <2>2, ReceiptRows
    <3>4. QED
      BY <2>2, <2>4, <3>2, <3>3 DEF KeyReceipt
  <2>5. CASE v = w /\ pc'[w] = "written"
    <3>1. pc[w] = "fresh"
      BY <1>2, <2>5, PhaseOrder DEF Write, Move
    <3>2. job'[w].cmd = job[w].cmd
      BY <1>2, <2>5, <3>1, SameRequest
    <3>3. QED
      BY <2>2, <2>5, <3>1, <3>2 DEF FreshKeys
  <2>6. QED
    BY <1>2, <2>3, <2>4, <2>5
<1>3. QED
  BY <1>1, <1>2, StepKinds DEF FreshKeys

\* Only a replay or a commit of its own makes a transaction committed.
LEMMA BecomesCommitted ==
  ASSUME TypeOK, NEW w \in Workers, Steps(w), pc'[w] = "committed"
  PROVE  Replay(w) \/ Commit(w)
<1>1. CASE \E c \in Commands, t \in Tokens : Receive(w, c, t)
  BY <1>1 DEF Receive, Move, TypeOK
<1>2. CASE LockOrganisation(w) \/ Proceed(w) \/ Write(w)
  BY <1>2 DEF LockOrganisation, Proceed, Write, Move, TypeOK
<1>3. CASE Deny(w) \/ Conflict(w) \/ Refuse(w) \/ Respond(w) \/ Fail(w)
  BY <1>3 DEF Deny, Conflict, Refuse, Respond, Fail, Release, TypeOK
<1>4. QED
  BY <1>1, <1>2, <1>3 DEF Steps, Run, Check

LEMMA StepCommitted ==
  ASSUME LedgerInv, [Next]_vars
  PROVE  CommittedKnown'
<1> USE DEF LedgerInv, AuthorityInv
<1>1. CASE UNCHANGED <<ledgerVars, pc, job>>
  BY <1>1 DEF CommittedKnown, ledgerVars
<1>2. ASSUME NEW w \in Workers, Steps(w), NEW v \in Workers, pc'[v] = "committed"
      PROVE  /\ job'[v].event \in DOMAIN audit'
             /\ audit'[job'[v].event].cmd = job'[v].cmd
  <2>1. \A i \in DOMAIN audit : i \in DOMAIN audit' /\ audit'[i] = audit[i]
    BY <1>2, CommitRows, OnlyCommitWrites DEF ledgerVars
  <2>2. CASE v # w
    BY <1>2, <2>1, <2>2, Elsewhere DEF CommittedKnown
  <2>3. CASE v = w /\ Replay(w)
    <3>1. PICK r \in KeyReceipt(w) : r.cmd = job[w].cmd /\ job' = [job EXCEPT ![w].event = r.event]
      BY <2>3 DEF Replay
    <3>2. PICK i \in DOMAIN audit : r = [cmd |-> audit[i].cmd, event |-> i]
      BY ReceiptRows DEF KeyReceipt
    <3>3. job[w] \in Job
      BY <2>3, BusyJob DEF Replay, Move
    <3>4. job'[w].event = i /\ job'[w].cmd = job[w].cmd
      BY <3>1, <3>2, <3>3 DEF TypeOK, Job
    <3>5. QED
      BY <2>1, <2>3, <3>1, <3>2, <3>4
  <2>4. CASE v = w /\ Commit(w)
    BY <2>4, CommitRows, CommitFacts
  <2>5. QED
    BY <1>2, <2>2, <2>3, <2>4, BecomesCommitted
<1>3. QED
  BY <1>1, <1>2, StepKinds DEF CommittedKnown

\* The ledgers' inductive invariant.
THEOREM LedgerInvariant == Spec => []LedgerInv
<1>1. Init => LedgersAgree /\ KeyOnce /\ FreshKeys /\ CommittedKnown
  BY DEF Init, LedgersAgree, KeyOnce, FreshKeys, CommittedKnown
<1>2. LedgerInv /\ [Next]_vars => (LedgersAgree /\ KeyOnce /\ FreshKeys /\ CommittedKnown)'
  BY StepLedgers, StepKeys, StepFreshKeys, StepCommitted
<1>3. QED
  BY <1>1, <1>2, AuthorityInvariant, PTL DEF Spec, LedgerInv

\* Audit log, outbox, receipts and success answers always tell the same story.
THEOREM LedgersAlwaysAgree == Spec => []LedgersAgree
BY LedgerInvariant, PTL DEF LedgerInv

-----------------------------------------------------------------------------
\* A client that is told "refused" has had no effect with that request, whatever
\* it retried, whatever was lost and whoever else used the key.
THEOREM EffectsNeverRefused == Spec => OwnEffectNeverRefused
<1> DEFINE Honest == \A a \in answers' \ answers : a.kind = "refused" =>
                       \A i \in DOMAIN audit : audit[i].cmd # a.cmd
<1>1. LedgerInv /\ [Next]_vars => [Honest]_vars
  <2> SUFFICES ASSUME LedgerInv, [Next]_vars,
                      NEW a \in answers' \ answers, a.kind = "refused",
                      NEW i \in DOMAIN audit, audit[i].cmd = a.cmd
               PROVE  FALSE
    OBVIOUS
  <2> USE DEF LedgerInv, AuthorityInv
  <2>1. PICK w \in Workers :
          \/ Deny(w) /\ Reply(w, "denied", 0)
          \/ (Conflict(w) \/ Refuse(w)) /\ Reply(w, "refused", 0)
          \/ Respond(w) /\ Reply(w, "done", job[w].event)
    BY AnswerSteps
  <2>2. (Conflict(w) \/ Refuse(w)) /\ a.cmd = job[w].cmd
    BY <2>1 DEF Reply
  <2>3. CASE Conflict(w)
    <3>1. PICK r \in KeyReceipt(w) : r.cmd # job[w].cmd
      BY <2>3 DEF Conflict
    <3>2. PICK j \in DOMAIN audit : r = [cmd |-> audit[j].cmd, event |-> j]
      BY ReceiptRows DEF KeyReceipt
    <3>3. audit[j].cmd.key = audit[i].cmd.key
      BY <2>2, <3>2 DEF KeyReceipt
    <3>4. QED
      BY <2>2, <3>1, <3>2, <3>3 DEF KeyOnce
  <2>4. CASE Refuse(w)
    BY <2>2, <2>4 DEF Refuse, FreshKeys
  <2>5. QED
    BY <2>2, <2>3, <2>4
<1>2. QED
  BY <1>1, LedgerInvariant, PTL DEF Spec, OwnEffectNeverRefused

-----------------------------------------------------------------------------
\* The abstract ledger's state in a state of the commands.
Effects == [i \in DOMAIN audit |-> audit[i].cmd]
Told    == {[cmd |-> a.cmd, event |-> a.event] : a \in {b \in answers : b.kind = "done"}}

\* The transactions implement CommandLedger: a key takes effect at most once, no
\* effect is undone or renumbered, and clients are told of real effects only.
THEOREM CommandsTakeEffectOnce == Spec => ExactlyOnce
<1>1. Init => Ledger!Init
  BY DEF Init, Ledger!Init
<1>2. LedgerInv /\ [Next]_vars => [Ledger!Next]_<<Effects, Told>>
  <2> SUFFICES ASSUME LedgerInv, [Next]_vars
               PROVE  [Ledger!Next]_<<Effects, Told>>
    OBVIOUS
  <2> USE DEF LedgerInv, AuthorityInv
  <2>1. CASE UNCHANGED <<ledgerVars, answers>>
    BY <2>1 DEF Effects, Told, ledgerVars
  <2>2. ASSUME NEW w \in Workers, Commit(w)
        PROVE  \E c \in Commands : Ledger!TakeEffect(c)
    <3>1. job[w].cmd \in Commands /\ pc[w] = "written"
      BY <2>2, CommitFacts, BusyCommand
    <3>2. \A i \in DOMAIN Effects : Effects[i].key # job[w].cmd.key
      BY <3>1 DEF Effects, FreshKeys
    <3>3. Effects' = Append(Effects, job[w].cmd)
      <4>1. audit \in Seq(Event) /\ Len(audit) \in Nat /\ DOMAIN audit = 1..Len(audit)
        BY DEF TypeOK
      <4>2. Effects \in Seq(Commands) /\ Len(Effects) = Len(audit)
        <5>1. \A i \in 1..Len(audit) : audit[i].cmd \in Commands
          <6>1. \A i \in 1..Len(audit) : audit[i] \in Event
            BY <4>1, ElementOfSeq
          <6>2. QED
            BY <6>1 DEF Event
        <5>2. Effects \in [1..Len(audit) -> Commands]
          BY <4>1, <5>1 DEF Effects
        <5>3. Effects \in Seq(Commands)
          BY <4>1, <5>2, SeqDef
        <5>4. QED
          BY <4>1, <5>2, <5>3
      <4>3. DOMAIN audit' = 1..(Len(audit) + 1)
        BY <2>2, CommitRows
      <4>4. \A i \in DOMAIN audit' :
              audit'[i].cmd = IF i = Len(audit) + 1 THEN job[w].cmd ELSE Effects[i]
        BY <2>2, <4>1, CommitRows DEF Effects
      <4>5. QED
        <5> DEFINE longer == Append(Effects, job[w].cmd)
        <5>1. /\ longer \in Seq(Commands)
              /\ Len(longer) = Len(audit) + 1
              /\ \A i \in 1..(Len(audit) + 1) :
                   longer[i] = IF i = Len(audit) + 1 THEN job[w].cmd ELSE Effects[i]
          BY <3>1, <4>1, <4>2
        <5> HIDE DEF longer
        <5>2. longer = [i \in 1..(Len(audit) + 1) |-> longer[i]]
          BY <4>1, <5>1
        <5>3. Effects' = [i \in 1..(Len(audit) + 1) |-> audit'[i].cmd]
          BY <4>3 DEF Effects
        <5>4. Effects' = longer
          BY <4>3, <4>4, <5>1, <5>2, <5>3
        <5>5. QED
          BY <5>4 DEF longer
    <3>4. Told' = Told
      BY <2>2, CommitRows DEF Told
    <3>5. QED
      BY <3>1, <3>2, <3>3, <3>4 DEF Ledger!TakeEffect, Effects, Told
  <2>3. CASE UNCHANGED ledgerVars /\ answers' # answers
    <3>1. PICK w \in Workers :
            \/ Deny(w) /\ Reply(w, "denied", 0)
            \/ (Conflict(w) \/ Refuse(w)) /\ Reply(w, "refused", 0)
            \/ Respond(w) /\ Reply(w, "done", job[w].event)
      BY <2>3, AnswerSteps
    <3>2. CASE Respond(w) /\ Reply(w, "done", job[w].event)
      <4>1. /\ job[w].event \in DOMAIN Effects
            /\ Effects[job[w].event] = job[w].cmd
        BY <3>2 DEF Respond, CommittedKnown, Effects
      <4>2. Told' = Told \cup {[cmd |-> job[w].cmd, event |-> job[w].event]}
        <5> DEFINE a == [cmd |-> job[w].cmd, kind |-> "done", event |-> job[w].event]
        <5>1. answers' = answers \cup {a}
          BY <3>2 DEF Reply
        <5>2. {b \in answers' : b.kind = "done"} = {b \in answers : b.kind = "done"} \cup {a}
          BY <5>1
        <5>3. a.cmd = job[w].cmd /\ a.event = job[w].event
          OBVIOUS
        <5> HIDE DEF a
        <5>4. QED
          BY <5>2, <5>3 DEF Told
      <4>3. Effects' = Effects
        BY <2>3 DEF Effects, ledgerVars
      <4>4. QED
        BY <4>1, <4>2, <4>3 DEF Ledger!Next, Ledger!Tell, Effects, Told
    <3>3. CASE Reply(w, "denied", 0) \/ Reply(w, "refused", 0)
      BY <2>3, <3>3 DEF Reply, Effects, Told, ledgerVars
    <3>4. QED
      BY <3>1, <3>2, <3>3
  <2>4. QED
    BY <2>1, <2>2, <2>3, StepKinds, OnlyCommitWrites DEF Ledger!Next
<1>3. QED
  BY <1>1, <1>2, LedgerInvariant, PTL
     DEF Spec, ExactlyOnce, Ledger!Spec, Effects, Told

-----------------------------------------------------------------------------
\* Restoring a membership or changing a role brings no earlier grant back to
\* life: whoever comes to reach a project does so by a grant made in that step.
THEOREM NothingSilentlyReactivated == Spec => NoSilentReactivation
<1> DEFINE Granted(m, p) ==
      \E g \in Grants : /\ grant[g].status = "unused"
                        /\ grant'[g].status = "active"
                        /\ grant'[g].member = m
                        /\ grant'[g].project = p
           Fresh == \A m \in Members, p \in Projects :
                      ~Reaches(m, p) /\ Reaches(m, p)' => Granted(m, p)
<1>1. TypeOK /\ [Next]_vars => [Fresh]_vars
  <2> SUFFICES ASSUME TypeOK, [Next]_vars, NEW m \in Members, NEW p \in Projects,
                      Reaches(m, p)'
               PROVE  Reaches(m, p) \/ Granted(m, p)
    OBVIOUS
  <2>1. PICK level \in Levels, g \in Grants :
          /\ grant'[g].status = "active"
          /\ grant'[g].member = m
          /\ grant'[g].project = p
          /\ grant'[g].level = level
    BY DEF Reaches, HoldsGrant
  <2>2. m \notin revoked'
    BY DEF Reaches
  <2>3. ASSUME m \notin revoked, grant[g].status = "active", grant[g].member = m,
               grant[g].project = p
        PROVE  Reaches(m, p)
    <3>1. grant[g].level \in Levels
      BY DEF TypeOK, Grant
    <3>2. QED
      BY <2>3, <3>1 DEF Reaches, HoldsGrant
  <2>4. CASE UNCHANGED <<revoked, grant>>
    BY <2>1, <2>2, <2>3, <2>4
  <2>5. ASSUME NEW w \in Workers, Commit(w)
        PROVE  Reaches(m, p) \/ Granted(m, p)
    <3> DEFINE c == job[w].cmd
    <3>1. CASE ChangeRole(w) \/ CreateProject(w) \/ RunDurable(w)
      BY <2>4, <3>1 DEF ChangeRole, CreateProject, RunDurable
    <3>2. CASE Revoke(w)
      BY <2>1, <2>2, <2>3, <3>2 DEF Revoke
    <3>3. CASE Restore(w)
      <4>1. /\ revoked' = revoked \ {c.target}
            /\ grant'[g] = IF grant[g].status = "active" /\ grant[g].member = c.target
                           THEN [grant[g] EXCEPT !.status = "revoked", !.version = @ + 1]
                           ELSE grant[g]
        BY <3>3 DEF Restore
      <4>2. grant[g] \in Grant
        BY DEF TypeOK
      <4>3. ~(grant[g].status = "active" /\ grant[g].member = c.target)
        BY <2>1, <4>1, <4>2 DEF Grant
      <4>4. QED
        BY <2>1, <2>2, <2>3, <4>1, <4>3
    <3>4. CASE CreateGrant(w)
      <4>1. PICK h \in Grants :
              /\ grant[h].status = "unused"
              /\ grant' = [grant EXCEPT ![h] = [status |-> "active", project |-> c.project,
                             member |-> c.target, level |-> c.level, version |-> 1]]
        BY <3>4 DEF CreateGrant
      <4>2. revoked' = revoked
        BY <3>4 DEF CreateGrant
      <4>3. CASE h = g
        BY <2>1, <4>1, <4>3
      <4>4. CASE h # g
        <5>1. grant'[g] = grant[g]
          BY <4>1, <4>4 DEF TypeOK
        <5>2. QED
          BY <2>1, <2>2, <2>3, <4>2, <5>1
      <4>5. QED
        BY <4>3, <4>4
    <3>5. CASE RegradeGrant(w)
      <4>1. /\ revoked' = revoked
            /\ grant' = [grant EXCEPT ![c.grant].level = c.level, ![c.grant].version = @ + 1]
        BY <3>5 DEF RegradeGrant
      <4>2. /\ grant'[g].status = grant[g].status
            /\ grant'[g].member = grant[g].member
            /\ grant'[g].project = grant[g].project
        BY <4>1 DEF TypeOK, Grant
      <4>3. QED
        BY <2>1, <2>2, <2>3, <4>1, <4>2
    <3>6. CASE WithdrawGrant(w)
      <4>1. /\ revoked' = revoked
            /\ grant' = [grant EXCEPT ![c.grant].status = "revoked", ![c.grant].version = @ + 1]
        BY <3>6 DEF WithdrawGrant
      <4>2. CASE c.grant = g
        BY <2>1, <4>1, <4>2 DEF TypeOK, Grant
      <4>3. CASE c.grant # g
        <5>1. grant'[g] = grant[g]
          BY <4>1, <4>3 DEF TypeOK
        <5>2. QED
          BY <2>1, <2>2, <2>3, <4>1, <5>1
      <4>4. QED
        BY <4>2, <4>3
    <3>7. QED
      BY <2>5, <3>1, <3>2, <3>3, <3>4, <3>5, <3>6 DEF Commit
  <2>6. QED
    BY <2>4, <2>5, StepKinds, OnlyCommitWrites DEF domainVars
<1>2. QED
  BY <1>1, TypeCorrect, PTL DEF Spec, NoSilentReactivation

-----------------------------------------------------------------------------
\* Sessions.  Between its DELETE and its COMMIT a role change or restoration has
\* every live session of its target on its list, because a sign-in waits for the
\* users row it has locked.
DoomedStand ==
  \A w \in Workers, t \in Tokens :
    /\ pc[w] = "written" /\ job[w].cmd.op \in {"role", "restore"}
    /\ Owner[t] = job[w].cmd.target /\ session[t] = "live"
    => t \in job[w].doomed

LEMMA StepDoomed ==
  ASSUME TypeOK, DoomedStand, [Next]_vars
  PROVE  DoomedStand'
<1>1. CASE UNCHANGED vars
  BY <1>1 DEF DoomedStand, vars
<1>2. ASSUME NEW s \in Tokens, SignInCheck(s) \/ EndSession(s)
      PROVE  DoomedStand'
  <2>1. \A t \in Tokens : session'[t] = "live" => session[t] = "live"
    BY <1>2 DEF SignInCheck, EndSession, TypeOK
  <2>2. UNCHANGED <<pc, job>>
    BY <1>2 DEF SignInCheck, EndSession
  <2>3. QED
    BY <2>1, <2>2 DEF DoomedStand
<1>3. ASSUME NEW s \in Tokens, SignInStore(s)
      PROVE  DoomedStand'
  <2>1. UNCHANGED <<pc, job>>
    BY <1>3 DEF SignInStore
  <2>2. \A t \in Tokens \ {s} : session'[t] = session[t]
    BY <1>3 DEF SignInStore, TypeOK
  <2>3. \A w \in Workers : pc[w] = "written" => job[w].cmd.op \notin {"role", "restore"}
    <3>1. Owner[s] \in Members
      BY SessionsAssumption
    <3>2. QED
      BY <1>3, <3>1 DEF SignInStore, UserLocked, LockedUsers, MembershipOps
  <2>4. QED
    BY <2>1, <2>3 DEF DoomedStand
<1>4. ASSUME NEW w \in Workers, Steps(w)
      PROVE  DoomedStand'
  <2>1. \A t \in Tokens : session'[t] = "live" => session[t] = "live"
    <3>1. CASE Commit(w)
      BY <3>1, CommitFacts DEF Complete
    <3>2. CASE ~Commit(w)
      BY <1>4, <3>2 DEF Steps, Run, Check, Receive, LockOrganisation, Deny, Conflict,
         Replay, Proceed, Refuse, Write, Respond, Fail
    <3>3. QED
      BY <3>1, <3>2
  <2>2. ASSUME NEW v \in Workers, NEW t \in Tokens,
               pc'[v] = "written", job'[v].cmd.op \in {"role", "restore"},
               Owner[t] = job'[v].cmd.target, session'[t] = "live"
        PROVE  t \in job'[v].doomed
    <3>1. CASE v # w
      BY <1>4, <2>1, <2>2, <3>1, Elsewhere DEF DoomedStand
    <3>2. CASE v = w
      <4> DEFINE c == job[w].cmd
                 listed == IF c.op \in {"role", "restore"}
                           THEN {u \in Tokens : Owner[u] = c.target /\ session[u] = "live"}
                           ELSE {}
      <4>1. Write(w)
        BY <1>4, <2>2, <3>2, PhaseOrder
      <4>2. job' = [job EXCEPT ![w].doomed = listed] /\ pc[w] # "idle"
        BY <4>1 DEF Write, Move
      <4>3. job[w] \in Job
        BY <4>2, BusyJob
      <4>4. job'[w].doomed = listed /\ job'[w].cmd = c
        BY <4>2, <4>3 DEF Job, TypeOK
      <4>5. QED
        BY <2>1, <2>2, <3>2, <4>4
    <3>3. QED
      BY <3>1, <3>2
  <2>3. QED
    BY <2>2 DEF DoomedStand
<1>5. QED
  BY <1>1, <1>2, <1>3, <1>4 DEF Next, Steps

\* Changing a role or restoring a membership leaves its member no usable
\* session, not even one that a sign-in was about to insert.
THEOREM SignInsAreFresh == Spec => FreshSignInRequired
<1> DEFINE Ended == \A i \in DOMAIN audit' \ DOMAIN audit :
                      audit'[i].cmd.op \in {"role", "restore"} =>
                        \A t \in Tokens : Owner[t] = audit'[i].cmd.target => session'[t] # "live"
<1>1. Init => DoomedStand
  BY DEF Init, DoomedStand
<1>2. TypeOK /\ DoomedStand /\ [Next]_vars => DoomedStand'
  BY StepDoomed
<1>3. TypeOK /\ DoomedStand /\ [Next]_vars => [Ended]_vars
  <2> SUFFICES ASSUME TypeOK, DoomedStand, [Next]_vars,
                      NEW i \in DOMAIN audit' \ DOMAIN audit,
                      audit'[i].cmd.op \in {"role", "restore"},
                      NEW t \in Tokens, Owner[t] = audit'[i].cmd.target
               PROVE  session'[t] # "live"
    OBVIOUS
  <2>1. PICK w \in Workers : Commit(w)
    BY StepKinds, OnlyCommitWrites DEF ledgerVars
  <2>2. audit'[i].cmd = job[w].cmd /\ pc[w] = "written"
    BY <2>1, CommitRows, CommitFacts
  <2>3. session'[t] = IF t \in job[w].doomed THEN "ended" ELSE session[t]
    <3>1. PICK n : Complete(w, n)
      BY <2>1, CommitFacts
    <3>2. session' = [u \in Tokens |-> IF u \in job[w].doomed THEN "ended" ELSE session[u]]
      BY <3>1 DEF Complete
    <3>3. QED
      BY <3>2
  <2>4. QED
    BY <2>2, <2>3 DEF DoomedStand
<1>4. QED
  BY <1>1, <1>2, <1>3, TypeCorrect, PTL DEF Spec, FreshSignInRequired

-----------------------------------------------------------------------------
\* Versions.  No event carries a later version than its subject has now, and a
\* grant row that was changed once is in use.
VersionsReached ==
  \A j \in DOMAIN audit :
    LET c == audit[j].cmd IN
    /\ c.op \in MembershipOps => audit[j].version <= version[c.target]
    /\ c.op \in {"regrade", "withdraw"} =>
         /\ audit[j].version <= grant[c.grant].version
         /\ grant[c.grant].status # "unused"

UpdateInv == AuthorityInv /\ VersionsReached /\ NoLostUpdate

\* What the audit log contains is an event.
LEMMA AuditEvents ==
  ASSUME TypeOK, NEW j \in DOMAIN audit
  PROVE  /\ audit[j] \in Event
         /\ audit[j].cmd \in Commands
         /\ audit[j].at \in Nat
         /\ audit[j].version \in Nat
<1>1. audit[j] \in Event
  BY DEF TypeOK
<1>2. QED
  BY <1>1 DEF Event

\* Versions of memberships only grow, and so do those of grants in use.
LEMMA VersionsGrow ==
  ASSUME TypeOK, [Next]_vars
  PROVE  /\ \A m \in Members : version[m] <= version'[m]
         /\ \A g \in Grants : grant[g].status # "unused" =>
              grant'[g].status # "unused" /\ grant[g].version <= grant'[g].version
<1>1. ASSUME NEW m \in Members PROVE version[m] \in Nat
  BY <1>1 DEF TypeOK
<1>2. ASSUME NEW g \in Grants PROVE grant[g] \in Grant /\ grant[g].version \in Nat
  <2>1. grant[g] \in Grant
    BY <1>2 DEF TypeOK
  <2>2. QED
    BY <2>1 DEF Grant
<1>3. CASE UNCHANGED <<version, grant>>
  BY <1>1, <1>2, <1>3
<1>4. ASSUME NEW w \in Workers, Commit(w)
      PROVE  /\ \A m \in Members : version[m] <= version'[m]
             /\ \A g \in Grants : grant[g].status # "unused" =>
                  grant'[g].status # "unused" /\ grant[g].version <= grant'[g].version
  <2> DEFINE c == job[w].cmd
  <2>1. CASE Revoke(w) \/ ChangeRole(w)
    <3>1. version' = [version EXCEPT ![c.target] = @ + 1] /\ grant' = grant
      BY <2>1 DEF Revoke, ChangeRole
    <3>2. \A m \in Members : version[m] <= version'[m]
      BY <1>1, <3>1 DEF TypeOK
    <3>3. QED
      BY <1>2, <3>1, <3>2
  <2>2. CASE Restore(w)
    <3>1. version' = [version EXCEPT ![c.target] = @ + 1]
      BY <2>2 DEF Restore
    <3>2. \A m \in Members : version[m] <= version'[m]
      BY <1>1, <3>1 DEF TypeOK
    <3>3. ASSUME NEW g \in Grants, grant[g].status # "unused"
          PROVE  grant'[g].status # "unused" /\ grant[g].version <= grant'[g].version
      <4>1. grant'[g] = IF grant[g].status = "active" /\ grant[g].member = c.target
                        THEN [grant[g] EXCEPT !.status = "revoked", !.version = @ + 1]
                        ELSE grant[g]
        BY <2>2 DEF Restore
      <4>2. CASE grant'[g] = grant[g]
        BY <1>2, <3>3, <4>2
      <4>3. CASE grant'[g] = [grant[g] EXCEPT !.status = "revoked", !.version = @ + 1]
        BY <1>2, <4>3 DEF Grant
      <4>4. QED
        BY <4>1, <4>2, <4>3
    <3>4. QED
      BY <3>2, <3>3
  <2>3. CASE CreateGrant(w)
    <3>1. version' = version
      BY <2>3 DEF CreateGrant
    <3>2. ASSUME NEW g \in Grants, grant[g].status # "unused"
          PROVE  grant'[g] = grant[g]
      BY <2>3, <3>2 DEF CreateGrant, TypeOK
    <3>3. QED
      BY <1>1, <1>2, <3>1, <3>2
  <2>4. CASE RegradeGrant(w)
    <3>1. /\ version' = version
          /\ grant' = [grant EXCEPT ![c.grant].level = c.level, ![c.grant].version = @ + 1]
      BY <2>4 DEF RegradeGrant
    <3>2. ASSUME NEW g \in Grants, grant[g].status # "unused"
          PROVE  grant'[g].status # "unused" /\ grant[g].version <= grant'[g].version
      BY <1>2, <3>1, <3>2 DEF TypeOK, Grant
    <3>3. version' = version
      BY <3>1
    <3>4. QED
      BY <1>1, <3>2, <3>3
  <2>5. CASE WithdrawGrant(w)
    <3>1. /\ version' = version
          /\ grant' = [grant EXCEPT ![c.grant].status = "revoked", ![c.grant].version = @ + 1]
      BY <2>5 DEF WithdrawGrant
    <3>2. ASSUME NEW g \in Grants, grant[g].status # "unused"
          PROVE  grant'[g].status # "unused" /\ grant[g].version <= grant'[g].version
      BY <1>2, <3>1, <3>2 DEF TypeOK, Grant
    <3>3. version' = version
      BY <3>1
    <3>4. QED
      BY <1>1, <3>2, <3>3
  <2>6. CASE CreateProject(w) \/ RunDurable(w)
    BY <1>3, <2>6 DEF CreateProject, RunDurable
  <2>7. QED
    BY <1>4, <2>1, <2>2, <2>3, <2>4, <2>5, <2>6 DEF Commit
<1>5. QED
  BY <1>3, <1>4, StepKinds, OnlyCommitWrites DEF domainVars

\* A membership command's event carries the version it makes, one more than the
\* one its author expected; so does a change of a grant.
LEMMA CommitVersion ==
  ASSUME AuthorityInv, NEW w \in Workers, Commit(w), NEW c \in Commands, job[w].cmd = c
  PROVE  LET v == audit'[Len(audit) + 1].version IN
         /\ c.op \in MembershipOps => v = version[c.target] + 1 /\ v = version'[c.target]
         /\ c.op \in {"role", "restore"} => version[c.target] = c.expected
         /\ c.op \in {"regrade", "withdraw"} =>
              /\ grant[c.grant].status = "active"
              /\ grant[c.grant].version = c.expected
              /\ v = grant'[c.grant].version
              /\ grant'[c.grant].status # "unused"
<1> USE DEF AuthorityInv
<1>1. pc[w] = "written" /\ Acceptable(c)
  BY CommitFacts DEF ChecksStand
<1>2. ASSUME NEW n, Complete(w, n) PROVE audit'[Len(audit) + 1].version = n
  <2>1. audit' = Append(audit, [cmd |-> job[w].cmd, at |-> CreatedAt(w),
                                prev |-> Latest, version |-> n])
    BY <1>2 DEF Complete
  <2>2. QED
    BY <2>1 DEF TypeOK
<1>3. CASE c.op \in MembershipOps
  <2>1. c.target \in Members
    BY <1>3, CommandFields
  <2>2. Revoke(w) \/ ChangeRole(w) \/ Restore(w)
    BY <1>3 DEF Commit, Revoke, ChangeRole, Restore, CreateGrant, RegradeGrant,
       WithdrawGrant, CreateProject, RunDurable, Committing, MembershipOps
  <2>3. /\ Complete(w, version[c.target] + 1)
        /\ version' = [version EXCEPT ![c.target] = @ + 1]
    BY <2>2 DEF Revoke, ChangeRole, Restore
  <2>4. c.op \in {"role", "restore"} => version[c.target] = c.expected
    BY <1>1 DEF Acceptable, RoleChangeAcceptable, RestorationAcceptable, OrdinaryTarget
  <2>5. QED
    BY <1>2, <1>3, <2>1, <2>3, <2>4 DEF TypeOK, MembershipOps
<1>4. CASE c.op \in {"regrade", "withdraw"}
  <2>1. c.grant \in Grants
    BY <1>4, CommandFields
  <2>2. RegradeGrant(w) \/ WithdrawGrant(w)
    BY <1>4 DEF Commit, Revoke, ChangeRole, Restore, CreateGrant, RegradeGrant,
       WithdrawGrant, CreateProject, RunDurable, Committing
  <2>3. Complete(w, grant[c.grant].version + 1)
    BY <2>2 DEF RegradeGrant, WithdrawGrant
  <2>4. grant[c.grant].status = "active" /\ grant[c.grant].version = c.expected
    BY <1>1, <1>4 DEF Acceptable, RegradingAcceptable, CurrentGrant
  <2>5. grant[c.grant] \in Grant
    BY <2>1 DEF TypeOK
  <2>6. grant'[c.grant].version = grant[c.grant].version + 1 /\ grant'[c.grant].status # "unused"
    <3>1. CASE RegradeGrant(w)
      BY <2>1, <2>4, <2>5, <3>1 DEF RegradeGrant, TypeOK, Grant
    <3>2. CASE WithdrawGrant(w)
      BY <2>1, <2>5, <3>2 DEF WithdrawGrant, TypeOK, Grant
    <3>3. QED
      BY <2>2, <3>1, <3>2
  <2>7. QED
    BY <1>2, <1>4, <2>3, <2>4, <2>6 DEF MembershipOps
<1>5. QED
  BY <1>3, <1>4 DEF MembershipOps

LEMMA StepVersions ==
  ASSUME UpdateInv, [Next]_vars
  PROVE  VersionsReached'
<1> USE DEF UpdateInv, AuthorityInv
<1> DEFINE Reached(e) ==
      /\ e.cmd.op \in MembershipOps => e.version <= version'[e.cmd.target]
      /\ e.cmd.op \in {"regrade", "withdraw"} =>
           /\ e.version <= grant'[e.cmd.grant].version
           /\ grant'[e.cmd.grant].status # "unused"
<1>1. ASSUME NEW j \in DOMAIN audit
      PROVE  Reached(audit[j])
  <2>1. audit[j].cmd \in Commands /\ audit[j].version \in Nat
    BY AuditEvents
  <2>2. PICK c \in Commands : c = audit[j].cmd
    BY <2>1
  <2>3. TypeOK'
    BY StepTypes
  <2>4. CASE c.op \in MembershipOps
    <3>1. c.target \in Members
      BY <2>4, CommandFields
    <3>2. audit[j].version <= version[c.target]
      BY <2>2, <2>4 DEF VersionsReached
    <3>3. version[c.target] <= version'[c.target]
      BY <3>1, VersionsGrow
    <3>4. version[c.target] \in Nat /\ version'[c.target] \in Nat
      BY <2>3, <3>1 DEF TypeOK
    <3>5. QED
      BY <2>1, <2>2, <2>4, <3>2, <3>3, <3>4 DEF MembershipOps
  <2>5. CASE c.op \in {"regrade", "withdraw"}
    <3>1. c.grant \in Grants
      BY <2>5, CommandFields
    <3>2. audit[j].version <= grant[c.grant].version /\ grant[c.grant].status # "unused"
      BY <2>2, <2>5 DEF VersionsReached
    <3>3. /\ grant[c.grant].version <= grant'[c.grant].version
          /\ grant'[c.grant].status # "unused"
      BY <3>1, <3>2, VersionsGrow
    <3>4. grant[c.grant].version \in Nat /\ grant'[c.grant].version \in Nat
      BY <2>3, <3>1 DEF TypeOK, Grant
    <3>5. QED
      BY <2>1, <2>2, <2>5, <3>2, <3>3, <3>4 DEF MembershipOps
  <2>6. QED
    BY <2>2, <2>4, <2>5
<1>2. CASE UNCHANGED audit
  BY <1>1, <1>2 DEF VersionsReached
<1>3. ASSUME NEW w \in Workers, Commit(w)
      PROVE  VersionsReached'
  <2>1. PICK c \in Commands : c = job[w].cmd
    BY <1>3, CommitFacts, BusyCommand
  <2>2. TypeOK'
    BY StepTypes
  <2>3. Len(audit) + 1 \in DOMAIN audit' /\ audit'[Len(audit) + 1].cmd = c
    BY <1>3, <2>1, CommitRows
  <2>4. audit'[Len(audit) + 1].version \in Nat
    <3>1. audit'[Len(audit) + 1] \in Event
      BY <2>2, <2>3 DEF TypeOK
    <3>2. QED
      BY <3>1 DEF Event
  <2>5. Reached(audit'[Len(audit) + 1])
    BY <1>3, <2>1, <2>3, <2>4, CommitVersion
  <2>6. ASSUME NEW j \in DOMAIN audit' PROVE Reached(audit'[j])
    <3>1. (j \in DOMAIN audit /\ audit'[j] = audit[j]) \/ j = Len(audit) + 1
      BY <1>3, CommitRows
    <3>2. QED
      BY <1>1, <2>5, <3>1
  <2>7. QED
    BY <2>6 DEF VersionsReached
<1>4. QED
  BY <1>2, <1>3, StepKinds, OnlyCommitWrites DEF ledgerVars

LEMMA StepUpdates ==
  ASSUME UpdateInv, [Next]_vars
  PROVE  NoLostUpdate'
<1> USE DEF UpdateInv, AuthorityInv
<1>1. CASE UNCHANGED audit
  BY <1>1 DEF NoLostUpdate, Subject
<1>2. ASSUME NEW w \in Workers, Commit(w),
             NEW i \in DOMAIN audit', NEW j \in DOMAIN audit', j < i,
             audit'[i].cmd.op \in {"role", "restore", "regrade", "withdraw"},
             Subject(audit'[i].cmd) = Subject(audit'[j].cmd)
      PROVE  audit'[j].version <= audit'[i].cmd.expected
  <2>1. Len(audit) \in Nat /\ DOMAIN audit = 1..Len(audit)
    BY DEF TypeOK
  <2>2. j \in DOMAIN audit /\ audit'[j] = audit[j]
    BY <1>2, <2>1, CommitRows
  <2>3. CASE i \in DOMAIN audit
    <3>1. audit'[i] = audit[i]
      BY <1>2, <2>3, CommitRows
    <3>2. QED
      BY <1>2, <2>2, <2>3, <3>1 DEF NoLostUpdate
  <2>4. CASE i = Len(audit) + 1
    <3>1. PICK c \in Commands : c = job[w].cmd /\ audit'[i].cmd = c
      BY <1>2, <2>4, CommitFacts, BusyCommand, CommitRows
    <3>2. PICK d \in Commands : d = audit[j].cmd
      BY <2>2, AuditEvents
    <3>3. Subject(c) = Subject(d)
      BY <1>2, <2>2, <3>1, <3>2
    <3>4. CASE c.op \in {"role", "restore"}
      <4>1. d.op \in MembershipOps /\ d.target = c.target
        BY <3>3, <3>4 DEF Subject, MembershipOps
      <4>2. audit[j].version <= version[c.target]
        BY <2>2, <3>2, <4>1 DEF VersionsReached
      <4>3. version[c.target] = c.expected
        BY <1>2, <3>1, <3>4, CommitVersion
      <4>4. QED
        BY <2>2, <3>1, <4>2, <4>3
    <3>5. CASE c.op \in {"regrade", "withdraw"}
      <4>1. d.op \in {"regrade", "withdraw"} /\ d.grant = c.grant
        BY <3>3, <3>5 DEF Subject, MembershipOps
      <4>2. audit[j].version <= grant[c.grant].version
        BY <2>2, <3>2, <4>1 DEF VersionsReached
      <4>3. grant[c.grant].version = c.expected
        BY <1>2, <3>1, <3>5, CommitVersion
      <4>4. QED
        BY <2>2, <3>1, <4>2, <4>3
    <3>6. QED
      BY <1>2, <3>1, <3>4, <3>5
  <2>5. QED
    BY <1>2, <2>3, <2>4, CommitRows
<1>3. ASSUME NEW w \in Workers, Commit(w) PROVE NoLostUpdate'
  BY <1>2, <1>3 DEF NoLostUpdate, Subject
<1>4. QED
  BY <1>1, <1>3, StepKinds, OnlyCommitWrites DEF ledgerVars

\* Whoever changes a role, a grant or a revoked membership by version had seen
\* every earlier change of it.
THEOREM UpdatesNotLost == Spec => []NoLostUpdate
<1>1. Init => VersionsReached /\ NoLostUpdate
  BY DEF Init, VersionsReached, NoLostUpdate
<1>2. UpdateInv /\ [Next]_vars => (VersionsReached /\ NoLostUpdate)'
  BY StepVersions, StepUpdates
<1>3. QED
  BY <1>1, <1>2, AuthorityInvariant, PTL DEF Spec, UpdateInv

-----------------------------------------------------------------------------
\* The audit chain.  While no revocation is committed, every row is dated by the
\* clock at its commit and links to the row before it.
Unrevoked == \A i \in DOMAIN audit : audit[i].cmd.op # "revoke"

ChainLinked ==
  Unrevoked =>
    \A i \in DOMAIN audit :
      /\ audit[i].at < clock
      /\ audit[i].prev = i - 1
      /\ \A j \in DOMAIN audit : j < i => audit[j].at < audit[i].at

LEMMA StepChain ==
  ASSUME TypeOK, ChainLinked, [Next]_vars
  PROVE  ChainLinked'
<1>1. Len(audit) \in Nat /\ DOMAIN audit = 1..Len(audit) /\ clock \in Nat
  BY DEF TypeOK
<1>2. ASSUME UNCHANGED audit, clock' \in {clock, clock + 1}
      PROVE  ChainLinked'
  <2>1. ASSUME Unrevoked, NEW i \in DOMAIN audit
        PROVE  audit[i].at < clock' /\ audit[i].prev = i - 1
               /\ \A j \in DOMAIN audit : j < i => audit[j].at < audit[i].at
    <3>1. audit[i].at \in Nat
      BY AuditEvents
    <3>2. QED
      BY <1>1, <1>2, <2>1, <3>1 DEF ChainLinked
  <2>2. Unrevoked' <=> Unrevoked
    BY <1>2 DEF Unrevoked
  <2>3. QED
    BY <1>2, <2>1, <2>2 DEF ChainLinked
<1>3. ASSUME NEW w \in Workers, Commit(w), Unrevoked',
             NEW i \in DOMAIN audit'
      PROVE  /\ audit'[i].at < clock'
             /\ audit'[i].prev = i - 1
             /\ \A j \in DOMAIN audit' : j < i => audit'[j].at < audit'[i].at
  <2>1. /\ DOMAIN audit' = 1..(Len(audit) + 1)
        /\ \A k \in DOMAIN audit : audit'[k] = audit[k]
        /\ audit'[Len(audit) + 1].cmd = job[w].cmd
    BY <1>3, CommitRows
  <2>2. Unrevoked
    BY <1>1, <1>3, <2>1 DEF Unrevoked
  <2>3. PICK n : Complete(w, n)
    BY <1>3, CommitFacts
  <2>4. clock' = clock + 1
    BY <2>3 DEF Complete
  <2>5. /\ audit'[Len(audit) + 1].at = CreatedAt(w)
        /\ audit'[Len(audit) + 1].prev = Latest
    <3>1. audit' = Append(audit, [cmd |-> job[w].cmd, at |-> CreatedAt(w),
                                  prev |-> Latest, version |-> n])
      BY <2>3 DEF Complete
    <3>2. QED
      BY <3>1 DEF TypeOK
  <2>6. CreatedAt(w) = clock
    BY <1>1, <1>3, <2>1 DEF Unrevoked, CreatedAt
  <2>7. \A k \in DOMAIN audit :
          /\ audit[k].at \in Nat /\ audit[k].at < clock
          /\ audit[k].prev = k - 1
          /\ \A j \in DOMAIN audit : j < k => audit[j].at < audit[k].at
    BY <2>2, AuditEvents DEF ChainLinked
  <2>8. Latest = Len(audit)
    <3>1. CASE Len(audit) = 0
      BY <1>1, <3>1 DEF Latest, Newest
    <3>2. CASE Len(audit) # 0
      <4>1. Len(audit) \in Newest
        <5>1. ASSUME NEW k \in DOMAIN audit PROVE audit[k].at <= audit[Len(audit)].at
          <6>1. k = Len(audit) \/ k < Len(audit)
            BY <1>1
          <6>2. QED
            BY <1>1, <2>7, <3>2, <6>1
        <5>2. QED
          BY <1>1, <3>2, <5>1 DEF Newest
      <4>2. ASSUME NEW k \in Newest PROVE k = Len(audit)
        <5>1. k \in DOMAIN audit /\ audit[Len(audit)].at <= audit[k].at
          BY <1>1, <3>2 DEF Newest
        <5>2. QED
          BY <1>1, <2>7, <3>2, <5>1
      <4>3. (CHOOSE k \in Newest : TRUE) \in Newest
        BY <4>1
      <4>4. QED
        BY <4>1, <4>2, <4>3 DEF Latest
    <3>3. QED
      BY <3>1, <3>2
  <2>9. CASE i \in DOMAIN audit
    <3>1. audit'[i] = audit[i] /\ \A j \in DOMAIN audit' : j < i => j \in DOMAIN audit
      BY <1>1, <2>1, <2>9
    <3>2. QED
      BY <1>1, <2>1, <2>4, <2>7, <2>9, <3>1
  <2>10. CASE i = Len(audit) + 1
    <3>1. \A j \in DOMAIN audit' : j < i => j \in DOMAIN audit /\ audit'[j] = audit[j]
      BY <1>1, <2>1, <2>10
    <3>2. QED
      BY <1>1, <2>4, <2>5, <2>6, <2>7, <2>8, <2>10, <3>1
  <2>11. QED
    BY <1>1, <1>3, <2>1, <2>9, <2>10
<1>4. ASSUME NEW w \in Workers, Commit(w) PROVE ChainLinked'
  BY <1>3, <1>4 DEF ChainLinked
<1>5. ASSUME ~\E w \in Workers : Commit(w) PROVE UNCHANGED audit /\ clock' \in {clock, clock + 1}
  BY <1>5 DEF Next, vars, ledgerVars, Run, Check, Receive, LockOrganisation, Deny, Conflict,
     Replay, Proceed, Refuse, Write, Respond, Fail, SignInCheck, SignInStore, EndSession
<1>6. QED
  BY <1>2, <1>4, <1>5

\* As long as nothing is revoked, the audit rows form one chain, although their
\* transactions waited for one another.
THEOREM ChainStandsUnrevoked == Spec => []ChainUntilRevocation
<1>1. Init => ChainLinked
  BY DEF Init, ChainLinked
<1>2. TypeOK /\ ChainLinked /\ [Next]_vars => ChainLinked'
  BY StepChain
<1>3. TypeOK /\ ChainLinked => ChainUntilRevocation
  <2> SUFFICES ASSUME TypeOK, ChainLinked, Unrevoked, NEW i \in DOMAIN audit
               PROVE  IF Before(i) = {} THEN audit[i].prev = 0
                      ELSE /\ audit[i].prev \in Before(i)
                           /\ \A j \in Before(i) : audit[j].at <= audit[audit[i].prev].at
    BY DEF ChainUntilRevocation, AuditChain, Unrevoked
  <2>1. Len(audit) \in Nat /\ DOMAIN audit = 1..Len(audit)
    BY DEF TypeOK
  <2>2. \A k \in DOMAIN audit :
          /\ audit[k].at \in Nat
          /\ audit[k].prev = k - 1
          /\ \A j \in DOMAIN audit : j < k => audit[j].at < audit[k].at
    BY AuditEvents DEF ChainLinked
  <2>3. Before(i) = {j \in DOMAIN audit : j < i}
    <3>1. ASSUME NEW j \in DOMAIN audit PROVE audit[j].at < audit[i].at <=> j < i
      <4>1. j < i \/ j = i \/ i < j
        BY <2>1
      <4>2. QED
        BY <2>2, <4>1
    <3>2. QED
      BY <3>1 DEF Before
  <2>4. CASE i = 1
    BY <2>1, <2>2, <2>3, <2>4
  <2>5. CASE i # 1
    <3>1. i - 1 \in DOMAIN audit /\ i - 1 < i /\ audit[i].prev = i - 1
      BY <2>1, <2>2, <2>5
    <3>2. ASSUME NEW j \in Before(i) PROVE audit[j].at <= audit[i - 1].at
      <4>1. j \in DOMAIN audit /\ (j = i - 1 \/ j < i - 1)
        BY <2>1, <2>3
      <4>2. QED
        BY <2>2, <3>1, <4>1
    <3>3. QED
      BY <2>3, <3>1, <3>2
  <2>6. QED
    BY <2>4, <2>5
<1>4. QED
  BY <1>1, <1>2, <1>3, TypeCorrect, PTL DEF Spec
=============================================================================
