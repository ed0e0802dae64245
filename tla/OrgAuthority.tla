---------------------------- MODULE OrgAuthority ----------------------------
(***************************************************************************)
(* The authority commands of one organisation: revoking, re-roling and     *)
(* restoring memberships, granting and withdrawing project access,         *)
(* creating projects, and the durable project commands that rely on both.  *)
(*                                                                         *)
(* Every command runs as one PostgreSQL transaction on a pooled            *)
(* connection: BEGIN, the organisation row FOR UPDATE, the actor's         *)
(* session/membership/user rows FOR UPDATE, the receipt lookup, the domain *)
(* checks and writes, the audit row, the outbox row and the receipt, then  *)
(* COMMIT and the HTTP answer.  A connection may fail at any point; the    *)
(* client may send the same command again at any time, also while an       *)
(* earlier attempt is still under way.                                     *)
(***************************************************************************)
EXTENDS Integers, Sequences, FiniteSets

CONSTANTS
  Members,          \* memberships of the organisation, one user each
  Audience,         \* memberships.audience, which no command changes
  SuperUsers,       \* members whose users.is_super_admin is set
  InitialRole,      \* memberships.role before the first command
  InitiallyRevoked, \* members revoked before the first command
  Tokens,           \* session tokens, each issued at most once
  Owner,            \* the user a token is issued to
  InitialTokens,    \* tokens live before the first command
  Projects,         \* project codes
  InitialProjects,  \* projects that already exist
  Grants,           \* project_access_grants ids
  InitialGrant,     \* the grant rows before the first command
  Keys,             \* idempotency keys clients use
  Commands,         \* the requests clients may send
  Workers,          \* pooled connections that can run a transaction
  MaxAttempts       \* bound: deliveries of requests to the API

-----------------------------------------------------------------------------
\* Roles: one canonical role for each way the commands tell roles apart.

PrivilegedRoles == {"super_admin", "executive"}
AllowedRoles    == {"project_manager", "finance", "client_user"}
Roles           == PrivilegedRoles \cup AllowedRoles

RoleAudience(role) == IF role = "client_user" THEN "client" ELSE "internal"

\* projects.manage and projects.create, held by the same canonical roles.
ManagesProjects(role) == role \in PrivilegedRoles \cup {"project_manager"}

Levels      == {"viewer", "editor"}
GrantStatus == {"unused", "active", "revoked"}
Grant == [status: GrantStatus, project: Projects, member: Members,
          level: Levels, version: Nat]

\* A request is its operation and body; two requests with one key but another
\* actor or body have different operation/request-hash columns.
Revocation  == [op: {"revoke"},   key: Keys, actor: Members, target: Members]
RoleChange  == [op: {"role"},     key: Keys, actor: Members, target: Members,
                role: AllowedRoles, expected: Nat]
Restoration == [op: {"restore"},  key: Keys, actor: Members, target: Members,
                expected: Nat]
Granting    == [op: {"grant"},    key: Keys, actor: Members, target: Members,
                project: Projects, level: Levels]
Regrading   == [op: {"regrade"},  key: Keys, actor: Members, grant: Grants,
                level: Levels, expected: Nat]
Withdrawal  == [op: {"withdraw"}, key: Keys, actor: Members, grant: Grants,
                expected: Nat]
Creation    == [op: {"create"},   key: Keys, actor: Members, project: Projects,
                owner: Members]
Durable     == [op: {"durable"},  key: Keys, actor: Members, project: Projects]

Command == Revocation \cup RoleChange \cup Restoration \cup Granting
           \cup Regrading \cup Withdrawal \cup Creation \cup Durable

MembershipOps == {"revoke", "role", "restore"}
AdminOps      == MembershipOps \cup {"grant", "regrade", "withdraw"}

ASSUME MembersAssumption ==
  /\ Audience \in [Members -> {"internal", "client", "supplier"}]
  /\ InitialRole \in [Members -> Roles]
  /\ SuperUsers \subseteq Members
  /\ InitiallyRevoked \subseteq Members
  /\ IsFiniteSet(Members)
ASSUME SessionsAssumption ==
  /\ Owner \in [Tokens -> Members]
  /\ InitialTokens \subseteq Tokens
ASSUME ProjectsAssumption ==
  /\ InitialProjects \subseteq Projects
  /\ InitialGrant \in [Grants -> Grant]
ASSUME CommandsAssumption == Commands \subseteq Command
ASSUME BoundAssumption == MaxAttempts \in Nat

\* The seeded organisation has an active internal administrator.
ASSUME SeedAssumption ==
  \E m \in Members \ InitiallyRevoked :
    /\ Audience[m] = "internal"
    /\ m \in SuperUsers \/ InitialRole[m] = "super_admin"

-----------------------------------------------------------------------------
VARIABLES
  role,      \* memberships.role
  revoked,   \* members with memberships.is_revoked
  version,   \* memberships.row_version
  session,   \* "none", "checked" (sign-in under way), "live" or "ended"
  projects,  \* projects that exist
  grant,     \* project_access_grants
  work,      \* durable project writes committed so far, per project
  receipts,  \* idempotency_records
  audit,     \* audit_events in commit order
  outbox,    \* outbox rows
  clock,     \* the database clock
  pc,        \* where each connection's transaction stands
  job,       \* the request each connection carries and what it has read
  answers,   \* the definite answers clients have received
  attempts   \* deliveries so far

domainVars == <<role, revoked, version, projects, grant, work>>
ledgerVars == <<receipts, audit, outbox>>
vars == <<domainVars, session, ledgerVars, clock, pc, job, answers, attempts>>

\* Phases of a transaction; the organisation row is locked in Holding.
Phases  == {"idle", "begin", "locked", "fresh", "written", "committed"}
Holding == {"locked", "fresh", "written"}

Event  == [cmd: Commands, at: Nat, prev: Nat, version: Nat]
Job    == [cmd: Commands, token: Tokens, began: Nat, doomed: SUBSET Tokens,
           event: Nat]
Record == [cmd: Commands, event: Nat]
Answer == [cmd: Commands, kind: {"done", "denied", "refused"}, event: Nat]

TypeOK ==
  /\ role \in [Members -> Roles]
  /\ revoked \subseteq Members
  /\ version \in [Members -> Nat]
  /\ session \in [Tokens -> {"none", "checked", "live", "ended"}]
  /\ projects \subseteq Projects
  /\ grant \in [Grants -> Grant]
  /\ work \in [Projects -> Nat]
  /\ receipts \subseteq Record
  /\ audit \in Seq(Event)
  /\ outbox \subseteq Record
  /\ clock \in Nat
  /\ pc \in [Workers -> Phases]
  /\ job \in [Workers -> Job \cup {<<>>}]
  /\ \A w \in Workers : pc[w] # "idle" => job[w] \in Job
  /\ answers \subseteq Answer
  /\ attempts \in Nat

Init ==
  /\ role = InitialRole
  /\ revoked = InitiallyRevoked
  /\ version = [m \in Members |-> 1]
  /\ session = [t \in Tokens |-> IF t \in InitialTokens THEN "live" ELSE "none"]
  /\ projects = InitialProjects
  /\ grant = InitialGrant
  /\ work = [p \in Projects |-> 0]
  /\ receipts = {}
  /\ audit = <<>>
  /\ outbox = {}
  /\ clock = 1
  /\ pc = [w \in Workers |-> "idle"]
  /\ job = [w \in Workers |-> <<>>]
  /\ answers = {}
  /\ attempts = 0
-----------------------------------------------------------------------------
\* What the commands read.

IsAdministrator(m) ==
  /\ m \notin revoked
  /\ Audience[m] = "internal"
  /\ m \in SuperUsers \/ role[m] = "super_admin"

Administrators == {m \in Members : IsAdministrator(m)}

ManagesOrSuper(m) == m \in SuperUsers \/ ManagesProjects(role[m])

HoldsGrant(m, p, level) ==
  \E g \in Grants : /\ grant[g].status = "active"
                    /\ grant[g].member = m
                    /\ grant[g].project = p
                    /\ grant[g].level = level

\* The current authority a command needs of its actor, the session apart.
Entitled(c) ==
  /\ c.actor \notin revoked
  /\ c.op \in AdminOps => IsAdministrator(c.actor)
  /\ c.op = "create" => /\ Audience[c.actor] = "internal"
                        /\ ManagesOrSuper(c.actor)
  /\ c.op = "durable" => /\ Audience[c.actor] = "internal"
                         /\ role[c.actor] # "client_user"
                         /\ c.project \in projects
                         /\ HoldsGrant(c.actor, c.project, "editor")
                         /\ ManagesOrSuper(c.actor)

\* Who may hold a grant of a level.
AllowedTarget(m, level) ==
  /\ m \notin revoked
  /\ \/ Audience[m] = "internal" /\ role[m] # "client_user"
     \/ Audience[m] = "client" /\ level = "viewer" /\ role[m] = "client_user"

\* The domain checks of each command, made after the receipt lookup.
RevocationAcceptable(c) ==
  /\ c.target \notin revoked
  /\ IsAdministrator(c.target) => Cardinality(Administrators) > 1
  /\ c.target # c.actor

\* Broken variant: the row version is not compared with the expected one.
UncheckedTarget(c) ==
  /\ c.target # c.actor
  /\ c.target \notin SuperUsers
  /\ role[c.target] \in AllowedRoles
  /\ RoleAudience(role[c.target]) = Audience[c.target]

OrdinaryTarget(c) ==
  /\ c.target # c.actor
  /\ c.target \notin SuperUsers
  /\ role[c.target] \in AllowedRoles
  /\ RoleAudience(role[c.target]) = Audience[c.target]
  /\ version[c.target] = c.expected

RoleChangeAcceptable(c) ==
  /\ OrdinaryTarget(c)
  /\ RoleAudience(c.role) = Audience[c.target]
  /\ c.target \notin revoked
  /\ role[c.target] # c.role

RestorationAcceptable(c) == OrdinaryTarget(c) /\ c.target \in revoked

GrantingAcceptable(c) ==
  /\ c.project \in projects
  /\ AllowedTarget(c.target, c.level)
  /\ \A level \in Levels : ~HoldsGrant(c.target, c.project, level)

\* Broken variant: the grant's row version is not compared.
ActiveGrant(c) == grant[c.grant].status = "active"

CurrentGrant(c) == /\ grant[c.grant].status = "active"
                   /\ grant[c.grant].version = c.expected

RegradingAcceptable(c) ==
  CurrentGrant(c) /\ AllowedTarget(grant[c.grant].member, c.level)

CreationAcceptable(c) ==
  /\ c.owner \notin revoked
  /\ Audience[c.owner] = "internal"
  /\ c.project \notin projects

Acceptable(c) ==
  /\ c.op = "revoke"   => RevocationAcceptable(c)
  /\ c.op = "role"     => RoleChangeAcceptable(c)
  /\ c.op = "restore"  => RestorationAcceptable(c)
  /\ c.op = "grant"    => GrantingAcceptable(c)
  /\ c.op = "regrade"  => RegradingAcceptable(c)
  /\ c.op = "withdraw" => CurrentGrant(c)
  /\ c.op = "create"   => CreationAcceptable(c)

-----------------------------------------------------------------------------
\* Locks.  A waiter gets the organisation row once no transaction holds it.

\* Broken variant: the organisation row is read without FOR UPDATE.
OrganisationUnlocked == TRUE

OrganisationFree == \A w \in Workers : pc[w] \notin Holding

\* Broken variant: FOR UPDATE OF m alone, the users rows stay unlocked.
NoUsersLocked(w) == {}

\* The users rows a transaction has locked: every member's for a membership
\* command, the actor's for the others.
LockedUsers(w) ==
  IF pc[w] \notin {"fresh", "written"} THEN {}
  ELSE IF job[w].cmd.op \in MembershipOps THEN Members ELSE {job[w].cmd.actor}

UserLocked(m) == \E w \in Workers : m \in LockedUsers(w)

Move(w, from, to) == pc[w] = from /\ pc' = [pc EXCEPT ![w] = to]

\* Broken variant: the transaction is forgotten while it still runs.
Forget(w) == /\ pc' = pc
             /\ job' = [job EXCEPT ![w] = <<>>]

\* The connection goes back to the pool.
Release(w) == /\ pc' = [pc EXCEPT ![w] = "idle"]
              /\ job' = [job EXCEPT ![w] = <<>>]

Reply(w, kind, event) ==
  answers' = answers \cup {[cmd |-> job[w].cmd, kind |-> kind, event |-> event]}

-----------------------------------------------------------------------------
\* Sign-in reads the membership, then inserts a session whose foreign key
\* waits for whoever has the users row locked FOR UPDATE.

SignInCheck(t) ==
  /\ session[t] = "none"
  /\ Owner[t] \notin revoked
  /\ session' = [session EXCEPT ![t] = "checked"]
  /\ UNCHANGED <<domainVars, ledgerVars, clock, pc, job, answers, attempts>>

SignInStore(t) ==
  /\ session[t] = "checked"
  /\ ~UserLocked(Owner[t])
  /\ session' = [session EXCEPT ![t] = "live"]
  /\ UNCHANGED <<domainVars, ledgerVars, clock, pc, job, answers, attempts>>

\* Logout deletes the row; expiry has the same effect on every later check.
EndSession(t) ==
  /\ session[t] = "live"
  /\ session' = [session EXCEPT ![t] = "ended"]
  /\ UNCHANGED <<domainVars, ledgerVars, clock, pc, job, answers, attempts>>

-----------------------------------------------------------------------------
\* One attempt.

\* A delivery passes the guard, which reads session and membership without a
\* lock, and begins a transaction, which fixes now() for all its statements.
Receive(w, c, t) ==
  /\ attempts < MaxAttempts
  /\ Owner[t] = c.actor
  /\ session[t] = "live" /\ c.actor \notin revoked
  /\ Move(w, "idle", "begin")
  /\ job' = [job EXCEPT ![w] = [cmd |-> c, token |-> t, began |-> clock,
                                doomed |-> {}, event |-> 0]]
  /\ clock' = clock + 1
  /\ attempts' = attempts + 1
  /\ UNCHANGED <<domainVars, session, ledgerVars, answers>>

LockOrganisation(w) ==
  /\ OrganisationFree
  /\ Move(w, "begin", "locked")
  /\ UNCHANGED <<domainVars, session, ledgerVars, clock, job, answers, attempts>>

Authorised(w) == session[job[w].token] = "live" /\ Entitled(job[w].cmd)

KeyReceipt(w) == {r \in receipts : r.cmd.key = job[w].cmd.key}

\* The checks under the lock: authority, also for a retry, then the receipt.
Deny(w) ==
  /\ pc[w] = "locked"
  /\ ~Authorised(w)
  /\ Reply(w, "denied", 0)
  /\ Release(w)
  /\ UNCHANGED <<domainVars, session, ledgerVars, clock, attempts>>

Conflict(w) ==
  /\ pc[w] = "locked"
  /\ Authorised(w)
  /\ \E r \in KeyReceipt(w) : r.cmd # job[w].cmd
  /\ Reply(w, "refused", 0)
  /\ Release(w)
  /\ UNCHANGED <<domainVars, session, ledgerVars, clock, attempts>>

\* Broken variant: any receipt of the key is replayed.
ReplayAny(w) ==
  /\ Move(w, "locked", "committed")
  /\ Authorised(w)
  /\ \E r \in KeyReceipt(w) : job' = [job EXCEPT ![w].event = r.event]
  /\ UNCHANGED <<domainVars, session, ledgerVars, clock, answers, attempts>>

Replay(w) ==
  /\ Move(w, "locked", "committed")
  /\ Authorised(w)
  /\ \E r \in KeyReceipt(w) :
       /\ r.cmd = job[w].cmd
       /\ job' = [job EXCEPT ![w].event = r.event]
  /\ UNCHANGED <<domainVars, session, ledgerVars, clock, answers, attempts>>

\* Broken variant: the receipt is not looked up before the command runs.
ProceedBlindly(w) ==
  /\ Move(w, "locked", "fresh")
  /\ Authorised(w)
  /\ UNCHANGED <<domainVars, session, ledgerVars, clock, job, answers, attempts>>

Proceed(w) ==
  /\ Move(w, "locked", "fresh")
  /\ Authorised(w)
  /\ KeyReceipt(w) = {}
  /\ UNCHANGED <<domainVars, session, ledgerVars, clock, job, answers, attempts>>

\* Broken variant: a refusal returns the connection without a ROLLBACK.
RefuseKeepingLock(w) ==
  /\ pc[w] = "fresh"
  /\ ~Acceptable(job[w].cmd)
  /\ Reply(w, "refused", 0)
  /\ UNCHANGED <<domainVars, session, ledgerVars, clock, pc, job, attempts>>

Refuse(w) ==
  /\ pc[w] = "fresh"
  /\ ~Acceptable(job[w].cmd)
  /\ Reply(w, "refused", 0)
  /\ Release(w)
  /\ UNCHANGED <<domainVars, session, ledgerVars, clock, attempts>>

\* The writes.  No other command sees them before COMMIT publishes them, but
\* which session rows the DELETE finds is fixed here.
Write(w) ==
  LET c == job[w].cmd IN
  /\ Move(w, "fresh", "written")
  /\ Acceptable(c)
  /\ job' = [job EXCEPT ![w].doomed =
       IF c.op \in {"role", "restore"}
         THEN {t \in Tokens : Owner[t] = c.target /\ session[t] = "live"}
         ELSE {}]
  /\ UNCHANGED <<domainVars, session, ledgerVars, clock, answers, attempts>>

-----------------------------------------------------------------------------
\* COMMIT: the domain change, its audit and outbox rows and the receipt.

\* The audit row a new one links to: ORDER BY created_at DESC LIMIT 1.
Newest == {i \in DOMAIN audit : \A j \in DOMAIN audit : audit[j].at <= audit[i].at}

Latest == IF Newest = {} THEN 0 ELSE CHOOSE i \in Newest : TRUE

\* Broken variant: every command leaves created_at to now().
BeganAt(w) == job[w].began

\* revokeMembership leaves created_at to its default now(), the time of BEGIN;
\* every other command writes clock_timestamp().
CreatedAt(w) == IF job[w].cmd.op = "revoke" THEN job[w].began ELSE clock

\* The rows common to all commands, and the end of the doomed sessions.
Complete(w, newVersion) ==
  LET row == [cmd |-> job[w].cmd, event |-> Len(audit) + 1] IN
  /\ pc' = [pc EXCEPT ![w] = "committed"]
  /\ audit' = Append(audit, [cmd |-> job[w].cmd, at |-> CreatedAt(w),
                             prev |-> Latest, version |-> newVersion])
  /\ outbox' = outbox \cup {row}
  /\ receipts' = receipts \cup {row}
  /\ job' = [job EXCEPT ![w].event = row.event]
  /\ session' = [t \in Tokens |-> IF t \in job[w].doomed THEN "ended" ELSE session[t]]
  /\ clock' = clock + 1
  /\ UNCHANGED <<answers, attempts>>

Committing(w, op) == pc[w] = "written" /\ job[w].cmd.op = op

Revoke(w) ==
  LET c == job[w].cmd IN
  /\ Committing(w, "revoke")
  /\ Complete(w, version[c.target] + 1)
  /\ revoked' = revoked \cup {c.target}
  /\ version' = [version EXCEPT ![c.target] = @ + 1]
  /\ UNCHANGED <<role, projects, grant, work>>

ChangeRole(w) ==
  LET c == job[w].cmd IN
  /\ Committing(w, "role")
  /\ Complete(w, version[c.target] + 1)
  /\ role' = [role EXCEPT ![c.target] = c.role]
  /\ version' = [version EXCEPT ![c.target] = @ + 1]
  /\ UNCHANGED <<revoked, projects, grant, work>>

\* Broken variant: the membership's grants survive its restoration.
RestoreKeepingGrants(w) ==
  LET c == job[w].cmd IN
  /\ Committing(w, "restore")
  /\ Complete(w, version[c.target] + 1)
  /\ revoked' = revoked \ {c.target}
  /\ version' = [version EXCEPT ![c.target] = @ + 1]
  /\ UNCHANGED <<role, projects, grant, work>>

\* Restoration also revokes every grant the membership still holds.
Restore(w) ==
  LET c == job[w].cmd IN
  /\ Committing(w, "restore")
  /\ Complete(w, version[c.target] + 1)
  /\ revoked' = revoked \ {c.target}
  /\ version' = [version EXCEPT ![c.target] = @ + 1]
  /\ grant' = [g \in Grants |->
       IF grant[g].status = "active" /\ grant[g].member = c.target
         THEN [grant[g] EXCEPT !.status = "revoked", !.version = @ + 1]
         ELSE grant[g]]
  /\ UNCHANGED <<role, projects, work>>

CreateGrant(w) ==
  LET c == job[w].cmd IN
  /\ Committing(w, "grant")
  /\ Complete(w, 1)
  /\ \E g \in Grants :
       /\ grant[g].status = "unused"
       /\ grant' = [grant EXCEPT ![g] = [status |-> "active", project |-> c.project,
             member |-> c.target, level |-> c.level, version |-> 1]]
  /\ UNCHANGED <<role, revoked, version, projects, work>>

RegradeGrant(w) ==
  LET c == job[w].cmd IN
  /\ Committing(w, "regrade")
  /\ Complete(w, grant[c.grant].version + 1)
  /\ grant' = [grant EXCEPT ![c.grant].level = c.level, ![c.grant].version = @ + 1]
  /\ UNCHANGED <<role, revoked, version, projects, work>>

WithdrawGrant(w) ==
  LET c == job[w].cmd IN
  /\ Committing(w, "withdraw")
  /\ Complete(w, grant[c.grant].version + 1)
  /\ grant' = [grant EXCEPT ![c.grant].status = "revoked", ![c.grant].version = @ + 1]
  /\ UNCHANGED <<role, revoked, version, projects, work>>

\* Creating a project grants nobody access to it.
CreateProject(w) ==
  LET c == job[w].cmd IN
  /\ Committing(w, "create")
  /\ Complete(w, 1)
  /\ projects' = projects \cup {c.project}
  /\ UNCHANGED <<role, revoked, version, grant, work>>

\* Any service's mutate callback, seen as one write in the project.
RunDurable(w) ==
  LET c == job[w].cmd IN
  /\ Committing(w, "durable")
  /\ Complete(w, work[c.project] + 1)
  /\ work' = [work EXCEPT ![c.project] = @ + 1]
  /\ UNCHANGED <<role, revoked, version, projects, grant>>

-----------------------------------------------------------------------------
Respond(w) ==
  /\ pc[w] = "committed"
  /\ Reply(w, "done", job[w].event)
  /\ Release(w)
  /\ UNCHANGED <<domainVars, session, ledgerVars, clock, attempts>>

\* The process or the connection fails: PostgreSQL rolls back what is not
\* committed, and the client sees a 503 or nothing.  After COMMIT only the
\* answer is lost.
Fail(w) ==
  /\ pc[w] # "idle"
  /\ Release(w)
  /\ UNCHANGED <<domainVars, session, ledgerVars, clock, answers, attempts>>

Check(w)  == Deny(w) \/ Conflict(w) \/ Replay(w) \/ Proceed(w)
Commit(w) == \/ Revoke(w) \/ ChangeRole(w) \/ Restore(w) \/ CreateGrant(w)
             \/ RegradeGrant(w) \/ WithdrawGrant(w) \/ CreateProject(w)
             \/ RunDurable(w)
Run(w)    == Check(w) \/ Refuse(w) \/ Write(w) \/ Commit(w) \/ Respond(w)

Next ==
  \/ \E w \in Workers, c \in Commands, t \in Tokens : Receive(w, c, t)
  \/ \E w \in Workers : LockOrganisation(w) \/ Run(w) \/ Fail(w)
  \/ \E t \in Tokens : SignInCheck(t) \/ SignInStore(t) \/ EndSession(t)

Spec == Init /\ [][Next]_vars

\* A server process runs its transaction to the end, and PostgreSQL queues the
\* waiters of a row lock, so none waits forever while the row keeps being
\* released.  Clients, failures and sessions are under no obligation.
Fairness == \A w \in Workers : WF_vars(Run(w)) /\ SF_vars(LockOrganisation(w))

FairSpec == Spec /\ Fairness

-----------------------------------------------------------------------------
\* Properties.

\* Whatever administrators do to one another at the same time, an active
\* internal administrator remains (identity.controller.ts,
\* LAST_ADMIN_REVOCATION_PROHIBITED; privileged memberships cannot be re-roled).
AdministratorRemains == Administrators # {}

\* Every committed event was committed for an actor who held the required
\* membership, administration or editor grant in the very state it changed,
\* however long its transaction had waited since the guard let it in.
AuthorityAtCommit ==
  [][\A i \in DOMAIN audit' \ DOMAIN audit :
       LET c == audit'[i].cmd IN
       /\ c.actor \notin revoked
       /\ c.op \in AdminOps => IsAdministrator(c.actor)
       /\ c.op = "durable" => HoldsGrant(c.actor, c.project, "editor")]_vars

\* A member who cannot reach a project gains access only through a grant row
\* created by that step; restoring a membership or changing a role brings no
\* earlier grant back to life.
Reaches(m, p) == m \notin revoked /\ \E level \in Levels : HoldsGrant(m, p, level)

NoSilentReactivation ==
  [][\A m \in Members, p \in Projects :
       ~Reaches(m, p) /\ Reaches(m, p)' =>
         \E g \in Grants : /\ grant[g].status = "unused"
                           /\ grant'[g].status = "active"
                           /\ grant'[g].member = m
                           /\ grant'[g].project = p]_vars

\* When a role change or restoration commits, no session of the target that
\* existed before it is usable, not even one a sign-in inserted while the
\* command was between its DELETE and its COMMIT.
FreshSignInRequired ==
  [][\A i \in DOMAIN audit' \ DOMAIN audit :
       audit'[i].cmd.op \in {"role", "restore"} =>
         \A t \in Tokens : Owner[t] = audit'[i].cmd.target => session'[t] # "live"]_vars

\* The author of an accepted versioned command had seen every earlier change of
\* the membership or grant it changes: no accepted change is lost under another.
Subject(c) == CASE c.op \in MembershipOps -> <<"membership", c.target>>
                [] c.op \in {"regrade", "withdraw"} -> <<"grant", c.grant>>
                [] OTHER -> <<"command", c.key>>

NoLostUpdate ==
  \A i, j \in DOMAIN audit :
    /\ j < i
    /\ audit[i].cmd.op \in {"role", "restore", "regrade", "withdraw"}
    /\ Subject(audit[i].cmd) = Subject(audit[j].cmd)
    => audit[j].version <= audit[i].cmd.expected

\* A client is told a command was refused (conflict, stale version, already
\* done) only while none of its attempts has taken effect: a retry of what was
\* done gets its receipt, never a conflict with its own effect.
OwnEffectNeverRefused ==
  [][\A a \in answers' \ answers : a.kind = "refused" =>
       \A i \in DOMAIN audit : audit[i].cmd # a.cmd]_vars

\* The rows of one commit stand or fall together and are what a client is
\* told: audit event, outbox row, receipt and every success answer agree.
LedgersAgree ==
  /\ receipts = {[cmd |-> audit[i].cmd, event |-> i] : i \in DOMAIN audit}
  /\ outbox = receipts
  /\ \A a \in answers : a.kind = "done" => [cmd |-> a.cmd, event |-> a.event] \in receipts

\* Each key takes effect at most once and clients learn only of effects that
\* happened: the transactions implement the abstract ledger (the retry rule of
\* every command: "Retry with the same idempotency key").
Ledger == INSTANCE CommandLedger WITH
  effects <- [i \in DOMAIN audit |-> audit[i].cmd],
  told    <- {[cmd |-> a.cmd, event |-> a.event] :
               a \in {b \in answers : b.kind = "done"}}

ExactlyOnce == Ledger!Spec

\* The audit rows of the organisation form one chain in the order of their
\* created_at: each links to the row just before it (schema/infrastructure.ts,
\* "linked digest for tamper evidence"; tests/infrastructure.test.ts AT-012).
Before(i) == {j \in DOMAIN audit : audit[j].at < audit[i].at}

AuditChain ==
  \A i \in DOMAIN audit :
    IF Before(i) = {} THEN audit[i].prev = 0
    ELSE /\ audit[i].prev \in Before(i)
         /\ \A j \in Before(i) : audit[j].at <= audit[audit[i].prev].at

\* As long as no revocation is committed, the chain is whole, whatever waited for
\* the organisation: the other commands date their rows under its lock.
ChainUntilRevocation == (\A i \in DOMAIN audit : audit[i].cmd.op # "revoke") => AuditChain

\* Every attempt ends: nothing holds or waits for the organisation for ever.
AttemptsEnd == \A w \in Workers : pc[w] # "idle" ~> pc[w] = "idle"

=============================================================================
