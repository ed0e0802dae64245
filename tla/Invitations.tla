----------------------------- MODULE Invitations -----------------------------
(***************************************************************************)
(* Controlled invitations across organisations that share people.          *)
(*                                                                         *)
(* Each command is one PostgreSQL transaction that takes row and advisory  *)
(* locks one after the other: the organisation, the users row of the actor *)
(* (of the issuer, when an invitation is accepted), the invited e-mail     *)
(* address, and the users row of that address if the account exists.       *)
(* Transactions of one organisation exclude one another; those of two      *)
(* organisations meet at people, in either order, so PostgreSQL may have   *)
(* to abort one of them.  Revocation (OrgAuthority's Revoke) takes part    *)
(* with its own lock order: the organisation, then all its users by id.    *)
(*                                                                         *)
(* The audit row, outbox row and receipt of a commit agree (OrgAuthority's *)
(* LedgersAgree), so one ledger stands for the three.                      *)
(***************************************************************************)
EXTENDS Naturals, Sequences, FiniteSets

CONSTANTS
  Orgs,
  People,         \* e-mail addresses, each with at most one account
  Rank,           \* the order of users.id
  AdminOf,        \* internal super_admin members of each organisation
  Global,         \* people whose users.is_super_admin is set
  InitialMember,  \* memberships before the first command
  InitialSecret,  \* each account's password before the first command
  Passwords,      \* passwords people choose
  NoAccount,      \* the credential of a person without a users row
  Slots,          \* user_invitations rows
  Keys,
  Commands,
  Workers,
  MaxAttempts     \* bound: deliveries of requests to the API

Invite     == [op: {"invite"}, key: Orgs \X Keys, actor: People, email: People]
Cancel     == [op: {"cancel"}, key: Orgs \X Keys, actor: People, slot: Slots]
Revocation == [op: {"revoke"}, key: Orgs \X Keys, actor: People, target: People]
\* "as" is the account whose session cookie comes along with the request.
Acceptance == [op: {"accept"}, key: Orgs \X Keys, slot: Slots, as: People,
               password: Passwords]

Command == Invite \cup Cancel \cup Revocation \cup Acceptance

Standing == {"none", "active", "revoked"}

ASSUME PeopleAssumption ==
  /\ Orgs # {} /\ People # {}
  /\ IsFiniteSet(People)
  /\ Rank \in [People -> Nat]
  /\ \A p, r \in People : Rank[p] = Rank[r] => p = r
  /\ Global \subseteq People
  /\ InitialMember \in [Orgs -> [People -> Standing]]
  /\ AdminOf \in [Orgs -> SUBSET People]
  /\ \A o \in Orgs : \A p \in AdminOf[o] : InitialMember[o][p] # "none"
  /\ NoAccount \notin Passwords
  /\ InitialSecret \in [People -> Passwords \cup {NoAccount}]
  /\ \A o \in Orgs, p \in People :
       InitialMember[o][p] # "none" => InitialSecret[p] # NoAccount
ASSUME CommandsAssumption == Commands \subseteq Command
ASSUME BoundAssumption == MaxAttempts \in Nat

VARIABLES
  member,      \* memberships, per organisation and person
  secret,      \* users and their credential: NoAccount or a password
  signedIn,    \* people with a live session
  invitation,  \* user_invitations
  ledger,      \* committed commands: receipts, audit events and outbox rows
  answers,     \* the definite answers clients have received
  pc,          \* where each connection's transaction stands
  job,         \* the request each connection carries and its locks so far
  attempts     \* deliveries so far

data == <<member, secret, signedIn, invitation, ledger>>
vars == <<data, answers, pc, job, attempts>>

Invitation == [status: {"unused", "pending", "accepted", "cancelled"},
               org: Orgs, email: People, issuer: People, expired: BOOLEAN,
               mode: {"none", "new", "existing"}]

\* What the receipt's operation, request hash and actor columns tell apart: a
\* password or a cookie makes no other request.
Identity(c) == IF c.op = "accept" THEN [op |-> c.op, key |-> c.key, slot |-> c.slot]
               ELSE c
Identities == {Identity(c) : c \in Commands}

Phases == {"idle", "authorising", "lookup", "working", "committed"}
Answer == [cmd: Identities, kind: {"done", "denied", "refused", "aborted"}, event: Nat]
Job    == [cmd: Commands, got: Nat, event: Nat]

TypeOK ==
  /\ member \in [Orgs -> [People -> Standing]]
  /\ secret \in [People -> Passwords \cup {NoAccount}]
  /\ signedIn \subseteq People
  /\ invitation \in [Slots -> Invitation]
  /\ ledger \in Seq(Identities)
  /\ answers \subseteq Answer
  /\ pc \in [Workers -> Phases]
  /\ job \in [Workers -> Job \cup {<<>>}]
  /\ \A w \in Workers : pc[w] # "idle" => job[w] \in Job
  /\ attempts \in Nat

Unissued == [status |-> "unused", org |-> CHOOSE o \in Orgs : TRUE,
             email |-> CHOOSE p \in People : TRUE,
             issuer |-> CHOOSE p \in People : TRUE,
             expired |-> FALSE, mode |-> "none"]

Init ==
  /\ member = InitialMember
  /\ secret = InitialSecret
  /\ signedIn = {}
  /\ invitation = [s \in Slots |-> Unissued]
  /\ ledger = <<>>
  /\ answers = {}
  /\ pc = [w \in Workers |-> "idle"]
  /\ job = [w \in Workers |-> <<>>]
  /\ attempts = 0

-----------------------------------------------------------------------------
\* Authority.

Admin(o, p) == member[o][p] = "active" /\ p \in AdminOf[o]

Admins(o) == {p \in People : Admin(o, p)}

MemberSomewhere(p) == \E o \in Orgs : member[o][p] = "active"

Org(c) == c.key[1]

\* Whose authority a command needs: its actor's with a session, or that of the
\* issuer of the invitation it accepts.
Authority(c) == IF c.op = "accept" THEN invitation[c.slot].issuer ELSE c.actor

\* Broken variant: an invitation outlives its issuer's authority.
AuthorisedOnceIssued(c) ==
  /\ c.op # "accept" => Admin(Org(c), c.actor) /\ c.actor \in signedIn
  /\ c.op = "accept" => invitation[c.slot].status # "cancelled"

Authorised(c) ==
  /\ Admin(Org(c), Authority(c))
  /\ c.op # "accept" => c.actor \in signedIn
  /\ c.op = "accept" => invitation[c.slot].status # "cancelled"

-----------------------------------------------------------------------------
\* Locks.

Email(c) == IF c.op = "invite" THEN c.email ELSE invitation[c.slot].email

ByRank(S) == CHOOSE s \in [1..Cardinality(S) -> S] :
               \A i, j \in 1..Cardinality(S) : i < j => Rank[s[i]] < Rank[s[j]]

UserRows(S) == [i \in 1..Cardinality(S) |-> <<"user", ByRank(S)[i]>>]

\* The locks of a command in the order its statements take them.
Plan(c) ==
  CASE c.op = "revoke" ->
         <<<<"org", Org(c)>>>> \o UserRows({p \in People : member[Org(c)][p] # "none"})
    [] c.op = "cancel" -> <<<<"org", Org(c)>>, <<"user", c.actor>>>>
    [] OTHER ->
         <<<<"org", Org(c)>>, <<"user", Authority(c)>>, <<"email", Email(c)>>>>
         \o (IF secret[Email(c)] = NoAccount THEN <<>> ELSE <<<<"user", Email(c)>>>>)

\* How many locks a transaction has when it checks authority and, later, looks
\* up the receipt of its key.
AuthorityAt(c) == IF c.op = "revoke" THEN Len(Plan(c)) ELSE 2
LookupAt(c)    == IF c.op = "accept" THEN Len(Plan(c)) ELSE AuthorityAt(c)

Goal(w) == CASE pc[w] = "authorising" -> AuthorityAt(job[w].cmd)
             [] pc[w] = "lookup"      -> LookupAt(job[w].cmd)
             [] pc[w] = "working"     -> Len(Plan(job[w].cmd))
             [] OTHER                 -> 0

Held(w) == IF pc[w] \in {"authorising", "lookup", "working"}
             THEN {Plan(job[w].cmd)[i] : i \in 1..job[w].got}
             ELSE {}

Wants(w) == Plan(job[w].cmd)[job[w].got + 1]

NeedsLock(w) == pc[w] # "idle" /\ job[w].got < Goal(w)
Ready(w, phase) == pc[w] = phase /\ job[w].got = Goal(w)

WaitsFor(w, v) == v # w /\ NeedsLock(w) /\ Wants(w) \in Held(v)

\* A cycle of transactions each waiting for the next.
Cycle(S) == /\ \A w \in S : \E v \in S : WaitsFor(w, v)
            /\ \A v \in S : \E w \in S : WaitsFor(w, v)

\* Broken variant: a transaction that waits in a cycle is never aborted.
NeverInCycle(w) == FALSE

InCycle(w) == \E S \in SUBSET Workers : w \in S /\ Cycle(S)

Move(w, from, to) == Ready(w, from) /\ pc' = [pc EXCEPT ![w] = to]

\* Broken variant: the transaction is forgotten while it still runs.
Forget(w) == pc' = pc /\ job' = [job EXCEPT ![w] = <<>>]

Release(w) == /\ pc' = [pc EXCEPT ![w] = "idle"]
              /\ job' = [job EXCEPT ![w] = <<>>]

Reply(w, kind, event) ==
  answers' = answers \cup
    {[cmd |-> Identity(job[w].cmd), kind |-> kind, event |-> event]}

-----------------------------------------------------------------------------
\* Sessions.  Any active membership lets a person sign in.

SignIn(p) ==
  /\ secret[p] # NoAccount /\ MemberSomewhere(p)
  /\ signedIn' = signedIn \cup {p}
  /\ UNCHANGED <<member, secret, invitation, ledger, answers, pc, job, attempts>>

\* Logout deletes the session row, which an acceptance or command may have locked.
SignOut(p) ==
  /\ signedIn' = signedIn \ {p}
  /\ UNCHANGED <<member, secret, invitation, ledger, answers, pc, job, attempts>>

\* An invitation's time is up.
Expire(s) ==
  /\ invitation[s].status = "pending"
  /\ invitation' = [invitation EXCEPT ![s].expired = TRUE]
  /\ UNCHANGED <<member, secret, signedIn, ledger, answers, pc, job, attempts>>

-----------------------------------------------------------------------------
\* One attempt.

\* The guard lets members in; an acceptance needs no session but a token, which
\* exists from the commit of its invitation on.
Begin(w, c) ==
  /\ attempts < MaxAttempts
  /\ c.op = "accept" => /\ invitation[c.slot].status # "unused"
                        /\ invitation[c.slot].org = Org(c)
  /\ c.op # "accept" => /\ c.actor \in signedIn
                        /\ member[Org(c)][c.actor] = "active"
  /\ pc[w] = "idle"
  /\ pc' = [pc EXCEPT ![w] = "authorising"]
  /\ job' = [job EXCEPT ![w] = [cmd |-> c, got |-> 0, event |-> 0]]
  /\ attempts' = attempts + 1
  /\ UNCHANGED <<data, answers>>

Lock(w) ==
  /\ NeedsLock(w)
  /\ \A v \in Workers \ {w} : Wants(w) \notin Held(v)
  /\ job' = [job EXCEPT ![w].got = @ + 1]
  /\ UNCHANGED <<data, answers, pc, attempts>>

\* PostgreSQL aborts one transaction of a cycle; its client sees a 503.
Abort(w) ==
  /\ InCycle(w)
  /\ Reply(w, "aborted", 0)
  /\ Release(w)
  /\ UNCHANGED <<data, attempts>>

Deny(w) ==
  /\ Ready(w, "authorising")
  /\ ~Authorised(job[w].cmd)
  /\ Reply(w, "denied", 0)
  /\ Release(w)
  /\ UNCHANGED <<data, attempts>>

Authorise(w) ==
  /\ Move(w, "authorising", "lookup")
  /\ Authorised(job[w].cmd)
  /\ UNCHANGED <<data, answers, job, attempts>>

\* The events of a key, which the organisation's receipts hold.
KeyEvents(c) == {i \in DOMAIN ledger : ledger[i].key = c.key}

Conflict(w) ==
  /\ Ready(w, "lookup")
  /\ \E i \in KeyEvents(job[w].cmd) : ledger[i] # Identity(job[w].cmd)
  /\ Reply(w, "refused", 0)
  /\ Release(w)
  /\ UNCHANGED <<data, attempts>>

\* An account that exists when the invitation is accepted keeps its owner and
\* its password.
ExistingMode(c) ==
  LET i == invitation[c.slot] IN
  \/ i.mode = "existing"
  \/ i.status # "accepted" /\ secret[i.email] # NoAccount

\* Broken variant: the session need not be the invited person's.
AnySession(c) == c.as \in signedIn

SignedInOwner(c) ==
  c.as = Email(c) /\ c.as \in signedIn /\ MemberSomewhere(c.as)

\* The proof of ownership an acceptance, first or replayed, has to bring.
OwnershipProved(c) ==
  /\ ExistingMode(c) => SignedInOwner(c)
  /\ ~ExistingMode(c) /\ KeyEvents(c) # {} => c.password = secret[Email(c)]

Replay(w) ==
  LET c == job[w].cmd IN
  /\ Move(w, "lookup", "committed")
  /\ c.op = "accept" => OwnershipProved(c)
  /\ \E i \in KeyEvents(c) : /\ ledger[i] = Identity(c)
                             /\ job' = [job EXCEPT ![w].event = i, ![w].got = 0]
  /\ UNCHANGED <<data, answers, attempts>>

\* Broken variant: a command runs although its key has a receipt.
ProceedAlways(w) ==
  /\ Move(w, "lookup", "working")
  /\ UNCHANGED <<data, answers, job, attempts>>

Proceed(w) ==
  /\ Move(w, "lookup", "working")
  /\ KeyEvents(job[w].cmd) = {}
  /\ UNCHANGED <<data, answers, job, attempts>>

\* The replay of an acceptance without the original credential.
DenyReplay(w) ==
  /\ Ready(w, "lookup")
  /\ job[w].cmd.op = "accept"
  /\ KeyEvents(job[w].cmd) # {} /\ ~OwnershipProved(job[w].cmd)
  /\ \A i \in KeyEvents(job[w].cmd) : ledger[i] = Identity(job[w].cmd)
  /\ Reply(w, "denied", 0)
  /\ Release(w)
  /\ UNCHANGED <<data, attempts>>

-----------------------------------------------------------------------------
\* What each command demands, and what its commit does.

\* Broken variant: open invitations for the address are not looked for.
InviteStranger(c) == c.email \notin Global /\ member[Org(c)][c.email] = "none"

InviteAcceptable(c) ==
  /\ c.email \notin Global
  /\ member[Org(c)][c.email] = "none"
  /\ ~ \E s \in Slots : /\ invitation[s].status = "pending" /\ ~invitation[s].expired
                        /\ invitation[s].org = Org(c) /\ invitation[s].email = c.email

\* Broken variant: an invitation is cancelled whatever became of it.
CancelAnything(c) == invitation[c.slot].status # "unused"

CancelAcceptable(c) ==
  /\ invitation[c.slot].status = "pending"
  /\ invitation[c.slot].org = Org(c)

AcceptAcceptable(c) ==
  /\ invitation[c.slot].status = "pending" /\ ~invitation[c.slot].expired
  /\ Email(c) \notin Global
  /\ OwnershipProved(c)
  /\ member[Org(c)][Email(c)] = "none"

RevokeAcceptable(c) ==
  /\ member[Org(c)][c.target] = "active"
  /\ c.target # c.actor
  /\ Admin(Org(c), c.target) => Cardinality(Admins(Org(c))) > 1

Acceptable(c) ==
  /\ c.op = "invite" => InviteAcceptable(c)
  /\ c.op = "cancel" => CancelAcceptable(c)
  /\ c.op = "accept" => AcceptAcceptable(c)
  /\ c.op = "revoke" => RevokeAcceptable(c)

Refuse(w) ==
  /\ Ready(w, "working")
  /\ ~Acceptable(job[w].cmd)
  /\ Reply(w, "refused", 0)
  /\ Release(w)
  /\ UNCHANGED <<data, attempts>>

Committing(w, op) ==
  /\ Ready(w, "working")
  /\ job[w].cmd.op = op
  /\ Acceptable(job[w].cmd)
  /\ pc' = [pc EXCEPT ![w] = "committed"]
  /\ job' = [job EXCEPT ![w].event = Len(ledger) + 1, ![w].got = 0]
  /\ ledger' = Append(ledger, Identity(job[w].cmd))
  /\ UNCHANGED <<signedIn, answers, attempts>>

Create(w) ==
  LET c == job[w].cmd IN
  /\ Committing(w, "invite")
  /\ \E s \in Slots :
       /\ invitation[s].status = "unused"
       /\ invitation' = [invitation EXCEPT ![s] =
            [status |-> "pending", org |-> Org(c), email |-> c.email,
             issuer |-> c.actor, expired |-> FALSE, mode |-> "none"]]
  /\ UNCHANGED <<member, secret>>

CancelInvitation(w) ==
  /\ Committing(w, "cancel")
  /\ invitation' = [invitation EXCEPT ![job[w].cmd.slot].status = "cancelled"]
  /\ UNCHANGED <<member, secret>>

\* A new account gets the password that came with the acceptance; the first
\* membership of either kind of account comes with it.
Accept(w) ==
  LET c == job[w].cmd IN
  /\ Committing(w, "accept")
  /\ secret' = IF ExistingMode(c) THEN secret ELSE [secret EXCEPT ![Email(c)] = c.password]
  /\ member' = [member EXCEPT ![Org(c)][Email(c)] = "active"]
  /\ invitation' = [invitation EXCEPT ![c.slot].status = "accepted",
       ![c.slot].mode = IF ExistingMode(c) THEN "existing" ELSE "new"]

RevokeMembership(w) ==
  /\ Committing(w, "revoke")
  /\ member' = [member EXCEPT ![Org(job[w].cmd)][job[w].cmd.target] = "revoked"]
  /\ UNCHANGED <<secret, invitation>>

Respond(w) ==
  /\ pc[w] = "committed"
  /\ Reply(w, "done", job[w].event)
  /\ Release(w)
  /\ UNCHANGED <<data, attempts>>

\* The process or connection fails: nothing of an uncommitted transaction stays.
Fail(w) ==
  /\ pc[w] # "idle"
  /\ Release(w)
  /\ UNCHANGED <<data, answers, attempts>>

Commit(w) == Create(w) \/ CancelInvitation(w) \/ Accept(w) \/ RevokeMembership(w)
Check(w)  == Deny(w) \/ Authorise(w) \/ Conflict(w) \/ Replay(w) \/ DenyReplay(w)
             \/ Proceed(w)
Run(w)    == Check(w) \/ Refuse(w) \/ Commit(w) \/ Respond(w)

Next ==
  \/ \E w \in Workers, c \in Commands : Begin(w, c)
  \/ \E w \in Workers : Lock(w) \/ Abort(w) \/ Run(w) \/ Fail(w)
  \/ \E p \in People : SignIn(p) \/ SignOut(p)
  \/ \E s \in Slots : Expire(s)

Spec == Init /\ [][Next]_vars

\* A server runs its transactions, PostgreSQL serves the waiters of a lock in
\* turn and breaks every cycle.
Fairness == \A w \in Workers : WF_vars(Run(w)) /\ SF_vars(Lock(w)) /\ WF_vars(Abort(w))

FairSpec == Spec /\ Fairness

-----------------------------------------------------------------------------
\* Properties.

\* A membership comes into being, or back, only through a pending invitation in
\* date whose issuer administers the organisation in that very state, however
\* cancellation, expiry, revocation and other acceptances interleave
\* (invitation.service.ts loadAuthorised).
JoinUnderAuthority ==
  [][\A o \in Orgs, p \in People :
       member[o][p] # "active" /\ member'[o][p] = "active" =>
         /\ member[o][p] = "none"
         /\ \E s \in Slots :
              /\ invitation[s].status = "pending" /\ ~invitation[s].expired
              /\ invitation'[s].status = "accepted"
              /\ invitation[s].org = o /\ invitation[s].email = p
              /\ Admin(o, invitation[s].issuer)]_vars

\* Nobody can make somebody else's account join: a person who has an account
\* joins only signed in to it, also when the account came into being in another
\* organisation a moment ago (INVITATION_SIGN_IN_REQUIRED).
OwnerConsents ==
  [][\A o \in Orgs, p \in People :
       member[o][p] # "active" /\ member'[o][p] = "active" /\ secret[p] # NoAccount =>
         p \in signedIn /\ secret'[p] = secret[p]]_vars

\* Of acceptance and cancellation exactly one happens to an invitation, and
\* nothing ever happens to it afterwards ("serializes cancellation against
\* acceptance so the token cannot reach both terminal states").
OneOutcome ==
  [][\A s \in Slots : invitation[s].status \in {"accepted", "cancelled"} =>
       invitation'[s] = invitation[s]]_vars

\* An organisation has at most one open invitation for an address, so a newcomer
\* never holds two live tokens to it (INVITATION_ALREADY_PENDING).
OneOpenInvitation ==
  \A s, t \in Slots :
    /\ invitation[s].status = "pending" /\ ~invitation[s].expired
    /\ invitation[t].status = "pending" /\ ~invitation[t].expired
    /\ invitation[s].org = invitation[t].org /\ invitation[s].email = invitation[t].email
    => s = t

\* Across organisations, too, a key takes effect once and clients hear of real
\* effects only.
Ledger == INSTANCE CommandLedger WITH
  Commands <- Identities,
  effects  <- ledger,
  told     <- {[cmd |-> a.cmd, event |-> a.event] :
                a \in {b \in answers : b.kind = "done"}}

ExactlyOnce == Ledger!Spec

\* No transaction waits for ever, although lock orders differ.
AttemptsEnd == \A w \in Workers : pc[w] # "idle" ~> pc[w] = "idle"

\* "Database deadlocks/serialization failures have bounded safe retries": no
\* client is turned away because two transactions met in opposite order
\* (specs/03_DATA_MODEL_AND_INVARIANTS.md:113).
DeadlocksRetried == \A a \in answers : a.kind # "aborted"

=============================================================================
