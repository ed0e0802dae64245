-------------------------- MODULE InvitationsProofs --------------------------
(***************************************************************************)
(* Proofs about Invitations, for any organisations, people, invitations,   *)
(* commands and number of connections: types, the exclusion that the       *)
(* organisation's row gives, and from it that nobody joins under lapsed    *)
(* authority and that a key takes effect once.                             *)
(***************************************************************************)
EXTENDS Invitations, FiniteSetTheorems, SequenceTheorems, TLAPS

-----------------------------------------------------------------------------
\* Requests and locks.

\* The fields a request of each operation carries.
LEMMA CommandFields ==
  ASSUME NEW c \in Commands
  PROVE  /\ c.key \in Orgs \X Keys
         /\ Org(c) \in Orgs
         /\ c.op \in {"invite", "cancel", "revoke", "accept"}
         /\ c.op # "accept" => c.actor \in People
         /\ c.op = "invite" => c.email \in People
         /\ c.op = "revoke" => c.target \in People
         /\ c.op \in {"cancel", "accept"} => c.slot \in Slots
         /\ c.op = "accept" => c.password \in Passwords
<1>1. c.key \in Orgs \X Keys
  BY CommandsAssumption DEF Command, Invite, Cancel, Revocation, Acceptance
<1>2. QED
  BY <1>1, CommandsAssumption DEF Command, Invite, Cancel, Revocation, Acceptance, Org

\* A ledger entry keeps the key of its request.
LEMMA IdentityFacts ==
  ASSUME NEW c \in Commands
  PROVE  Identity(c) \in Identities /\ Identity(c).key = c.key
BY DEF Identity, Identities

\* A row whose status, mode or time is set is still an invitation.
LEMMA RowsWithin ==
  ASSUME NEW i \in Invitation, NEW st \in {"unused", "pending", "accepted", "cancelled"},
         NEW m \in {"none", "new", "existing"}
  PROVE  /\ [i EXCEPT !.status = st] \in Invitation
         /\ [i EXCEPT !.status = st, !.mode = m] \in Invitation
         /\ [i EXCEPT !.expired = TRUE] \in Invitation
<1>1. [i EXCEPT !.status = st] \in Invitation
  BY DEF Invitation
<1>2. [i EXCEPT !.status = st, !.mode = m] \in Invitation
  BY DEF Invitation
<1>3. [i EXCEPT !.expired = TRUE] \in Invitation
  BY DEF Invitation
<1> QED
  BY <1>1, <1>2, <1>3

\* The users rows a revocation locks form a sequence.
LEMMA UserRowsSeq ==
  ASSUME NEW S \in SUBSET People
  PROVE  \E R : UserRows(S) \in Seq(R)
<1>1. Cardinality(S) \in Nat
  BY FS_Subset, FS_CardinalityType, PeopleAssumption
<1> DEFINE R == {<<"user", ByRank(S)[i]>> : i \in 1..Cardinality(S)}
<1>2. UserRows(S) \in [1..Cardinality(S) -> R]
  BY DEF UserRows
<1>3. UserRows(S) \in Seq(R)
  <2> HIDE DEF R
  <2>1. QED
    BY <1>1, <1>2, SeqDef
<1>4. QED
  BY <1>3

\* Locks that come before others stay first.
LEMMA LocksFirst ==
  ASSUME NEW Q, NEW q \in Seq(Q), q # <<>>, NEW R, NEW s \in Seq(R)
  PROVE  Len(q \o s) \in Nat \ {0} /\ (q \o s)[1] = q[1]
<1>1. q \in Seq(Q \cup R) /\ s \in Seq(Q \cup R)
  <2>1. Len(s) \in Nat /\ s \in [1..Len(s) -> R] /\ Len(q) \in Nat /\ q \in [1..Len(q) -> Q]
    OBVIOUS
  <2>2. s \in [1..Len(s) -> Q \cup R] /\ q \in [1..Len(q) -> Q \cup R]
    BY <2>1
  <2>3. QED
    BY <2>1, <2>2, SeqDef
<1>2. Len(q) \in Nat \ {0}
  OBVIOUS
<1>3. Len(q \o s) = Len(q) + Len(s) /\ (q \o s)[1] = q[1]
  BY <1>1, <1>2
<1>4. QED
  BY <1>2, <1>3

\* Every transaction takes its organisation's row before it does anything else.
LEMMA OrganisationFirst ==
  ASSUME NEW c \in Commands
  PROVE  /\ Plan(c)[1] = <<"org", Org(c)>>
         /\ AuthorityAt(c) \in Nat \ {0}
         /\ LookupAt(c) \in Nat \ {0}
         /\ Len(Plan(c)) \in Nat \ {0}
<1>1. Len(Plan(c)) \in Nat \ {0} /\ Plan(c)[1] = <<"org", Org(c)>>
  <2>1. CASE c.op = "revoke"
    <3> DEFINE S == {p \in People : member[Org(c)][p] # "none"}
    <3>1. PICK R : UserRows(S) \in Seq(R)
      BY UserRowsSeq
    <3>2. Plan(c) = <<<<"org", Org(c)>>>> \o UserRows(S)
      BY <2>1 DEF Plan
    <3> HIDE DEF S
    <3>3. QED
      <4> DEFINE row == <<"org", Org(c)>>
      <4> HIDE DEF row
      <4>1. <<row>> \in Seq({row}) /\ <<row>> # <<>> /\ <<row>>[1] = row
        OBVIOUS
      <4>2. QED
        BY <3>1, <3>2, <4>1, LocksFirst DEF row
  <2>2. CASE c.op = "cancel"
    BY <2>2 DEF Plan
  <2>3. CASE c.op \notin {"revoke", "cancel"}
    <3> DEFINE first == <<<<"org", Org(c)>>, <<"user", Authority(c)>>, <<"email", Email(c)>>>>
               owner == <<"user", Email(c)>>
               rest  == IF secret[Email(c)] = NoAccount THEN <<>> ELSE <<owner>>
               All   == {<<"org", Org(c)>>, <<"user", Authority(c)>>, <<"email", Email(c)>>}
    <3>1. Plan(c) = first \o rest
      BY <2>3 DEF Plan
    <3>2. first \in Seq(All) /\ first # <<>> /\ first[1] = <<"org", Org(c)>>
      OBVIOUS
    <3>3. rest \in Seq({owner})
      <4>1. <<>> \in Seq({owner}) /\ <<owner>> \in Seq({owner})
        <5> HIDE DEF owner
        <5>1. QED
          OBVIOUS
      <4>2. rest = <<>> \/ rest = <<owner>>
        OBVIOUS
      <4> HIDE DEF owner, rest
      <4>3. QED
        BY <4>1, <4>2
    <3> HIDE DEF first, rest, owner, All
    <3>4. QED
      BY <3>1, <3>2, <3>3, LocksFirst
  <2>4. QED
    BY <2>1, <2>2, <2>3
<1>2. QED
  BY <1>1 DEF AuthorityAt, LookupAt

-----------------------------------------------------------------------------
\* Typing.

\* What a connection in use carries.
LEMMA BusyJob ==
  ASSUME TypeOK, NEW w \in Workers, pc[w] # "idle"
  PROVE  /\ job[w] \in Job
         /\ job[w].cmd \in Commands
         /\ job[w].got \in Nat
         /\ job[w].event \in Nat
BY DEF TypeOK, Job

LEMMA InitTypes == Init => TypeOK
<1> SUFFICES ASSUME Init PROVE TypeOK
  OBVIOUS
<1>1. Unissued \in Invitation
  BY PeopleAssumption DEF Unissued, Invitation
<1>2. /\ pc \in [Workers -> Phases] /\ job \in [Workers -> Job \cup {<<>>}]
      /\ \A w \in Workers : pc[w] = "idle"
  BY DEF Init, Phases
<1>3. QED
  BY <1>1, <1>2, PeopleAssumption DEF Init, TypeOK

\* The answer to a request in use is well typed.
LEMMA ReplyTypes ==
  ASSUME TypeOK, NEW w \in Workers, pc[w] # "idle",
         NEW kind \in {"done", "denied", "refused", "aborted"}, NEW event \in Nat,
         Reply(w, kind, event)
  PROVE  answers' \subseteq Answer
<1>1. Identity(job[w].cmd) \in Identities
  BY BusyJob, IdentityFacts
<1>2. QED
  BY <1>1 DEF Reply, Answer, TypeOK

\* A connection that goes back to the pool is well typed.
LEMMA ReleaseTypes ==
  ASSUME TypeOK, NEW w \in Workers, Release(w)
  PROVE  /\ pc' \in [Workers -> Phases]
         /\ job' \in [Workers -> Job \cup {<<>>}]
         /\ \A x \in Workers : pc'[x] # "idle" => job'[x] \in Job
BY DEF Release, TypeOK, Phases

\* What every commit does to the connection and the ledger.
LEMMA CommittingTypes ==
  ASSUME TypeOK, NEW w \in Workers, NEW op, Committing(w, op)
  PROVE  /\ ledger' \in Seq(Identities)
         /\ pc' \in [Workers -> Phases]
         /\ job' \in [Workers -> Job \cup {<<>>}]
         /\ \A x \in Workers : pc'[x] # "idle" => job'[x] \in Job
<1>1. pc[w] = "working" /\ job[w] \in Job /\ job[w].cmd \in Commands
  BY BusyJob DEF Committing, Ready
<1>2. ledger' \in Seq(Identities)
  <2>1. Identity(job[w].cmd) \in Identities
    BY <1>1, IdentityFacts
  <2>2. ledger' = Append(ledger, Identity(job[w].cmd))
    BY DEF Committing
  <2>3. QED
    BY <2>1, <2>2 DEF TypeOK
<1>3. Len(ledger) + 1 \in Nat
  BY DEF TypeOK
<1>4. pc' \in [Workers -> Phases] /\ \A x \in Workers \ {w} : pc'[x] = pc[x]
  BY DEF Committing, TypeOK, Phases
<1>5. /\ job' \in [Workers -> Job \cup {<<>>}]
      /\ \A x \in Workers \ {w} : job'[x] = job[x]
      /\ job'[w] \in Job
  <2> DEFINE row == [job[w] EXCEPT !.event = Len(ledger) + 1, !.got = 0]
  <2>1. row \in Job
    BY <1>1, <1>3 DEF Job
  <2>2. job' = [job EXCEPT ![w] = row]
    BY DEF Committing
  <2> HIDE DEF row
  <2>3. QED
    BY <2>1, <2>2 DEF TypeOK
<1>6. QED
  BY <1>2, <1>4, <1>5 DEF TypeOK

LEMMA StepTypes == TypeOK /\ [Next]_vars => TypeOK'
<1> SUFFICES ASSUME TypeOK, [Next]_vars PROVE TypeOK'
  OBVIOUS
<1>1. CASE UNCHANGED vars
  BY <1>1 DEF TypeOK, vars, data
<1>2. ASSUME NEW p \in People, SignIn(p) \/ SignOut(p)
      PROVE  TypeOK'
  BY <1>2 DEF TypeOK, SignIn, SignOut
<1>3. ASSUME NEW s \in Slots, Expire(s)
      PROVE  TypeOK'
  <2> DEFINE row == [invitation[s] EXCEPT !.expired = TRUE]
  <2>0. row \in Invitation /\ invitation' = [invitation EXCEPT ![s] = row]
    BY <1>3, RowsWithin DEF TypeOK, Expire
  <2> HIDE DEF row
  <2>1. invitation' \in [Slots -> Invitation]
    BY <2>0 DEF TypeOK
  <2>2. QED
    BY <1>3, <2>1 DEF TypeOK, Expire
<1>4. ASSUME NEW w \in Workers, NEW c \in Commands, Begin(w, c)
      PROVE  TypeOK'
  <2>1. [cmd |-> c, got |-> 0, event |-> 0] \in Job
    BY DEF Job
  <2>2. /\ job' \in [Workers -> Job \cup {<<>>}]
        /\ pc' \in [Workers -> Phases]
        /\ \A x \in Workers : pc'[x] # "idle" => job'[x] \in Job
    BY <1>4, <2>1 DEF Begin, TypeOK, Phases
  <2>3. attempts' \in Nat
    BY <1>4 DEF Begin, TypeOK
  <2>4. QED
    BY <1>4, <2>2, <2>3 DEF Begin, TypeOK, data
<1>5. ASSUME NEW w \in Workers, Lock(w)
      PROVE  TypeOK'
  <2>1. job[w] \in Job /\ job[w].got + 1 \in Nat
    BY <1>5, BusyJob DEF Lock, NeedsLock
  <2>2. [job[w] EXCEPT !.got = job[w].got + 1] \in Job
    BY <2>1 DEF Job
  <2>3. job' = [job EXCEPT ![w] = [job[w] EXCEPT !.got = job[w].got + 1]]
    BY <1>5 DEF Lock
  <2>4. /\ job' \in [Workers -> Job \cup {<<>>}]
        /\ \A x \in Workers : pc'[x] # "idle" => job'[x] \in Job
    BY <1>5, <2>2, <2>3 DEF Lock, TypeOK
  <2>5. QED
    BY <1>5, <2>4 DEF Lock, TypeOK, data
<1>6. ASSUME NEW w \in Workers,
             Abort(w) \/ Deny(w) \/ Conflict(w) \/ DenyReplay(w) \/ Refuse(w) \/ Respond(w)
      PROVE  TypeOK'
  <2>1. Release(w) /\ pc[w] # "idle" /\ UNCHANGED <<data, attempts>>
    <3>1. CASE Abort(w)
      BY <3>1 DEF Abort, InCycle, Cycle, WaitsFor, NeedsLock
    <3>2. QED
      BY <1>6, <3>1 DEF Deny, Conflict, DenyReplay, Refuse, Respond, Ready
  <2>2. answers' \subseteq Answer
    <3>1. \E kind \in {"done", "denied", "refused", "aborted"} :
            Reply(w, kind, 0) \/ Reply(w, kind, job[w].event)
      BY <1>6 DEF Abort, Deny, Conflict, DenyReplay, Refuse, Respond
    <3>2. QED
      BY <2>1, <3>1, ReplyTypes, BusyJob
  <2>3. QED
    BY <2>1, <2>2, ReleaseTypes DEF TypeOK, data
<1>7. ASSUME NEW w \in Workers, Authorise(w) \/ Proceed(w)
      PROVE  TypeOK'
  <2>1. /\ pc' \in [Workers -> Phases]
        /\ \A x \in Workers : pc'[x] # "idle" => pc[x] # "idle"
    BY <1>7 DEF Authorise, Proceed, Move, Ready, Phases, TypeOK
  <2>2. QED
    BY <1>7, <2>1 DEF Authorise, Proceed, TypeOK, data
<1>8. ASSUME NEW w \in Workers, Replay(w)
      PROVE  TypeOK'
  <2>1. PICK i \in DOMAIN ledger : job' = [job EXCEPT ![w].event = i, ![w].got = 0]
    BY <1>8 DEF Replay, KeyEvents
  <2>2. i \in Nat
    BY DEF TypeOK
  <2>3. job[w] \in Job
    BY <1>8, BusyJob DEF Replay, Move, Ready
  <2> DEFINE row == [job[w] EXCEPT !.event = i, !.got = 0]
  <2>4. row \in Job
    BY <2>2, <2>3 DEF Job
  <2>5. job' = [job EXCEPT ![w] = row]
    BY <2>1
  <2> HIDE DEF row
  <2>6. /\ job' \in [Workers -> Job \cup {<<>>}]
        /\ pc' \in [Workers -> Phases]
        /\ \A x \in Workers : pc'[x] # "idle" => job'[x] \in Job
    BY <1>8, <2>4, <2>5 DEF Replay, Move, Phases, TypeOK
  <2>7. QED
    BY <1>8, <2>6 DEF Replay, TypeOK, data
<1>9. ASSUME NEW w \in Workers, Commit(w)
      PROVE  TypeOK'
  <2>1. PICK op : Committing(w, op) /\ job[w].cmd.op = op
    BY <1>9 DEF Commit, Create, CancelInvitation, Accept, RevokeMembership, Committing
  <2>2. /\ job[w].cmd \in Commands
        /\ UNCHANGED <<signedIn, answers, attempts>>
    BY <2>1, BusyJob DEF Committing, Ready
  <2>3. /\ member' \in [Orgs -> [People -> Standing]]
        /\ secret' \in [People -> Passwords \cup {NoAccount}]
        /\ invitation' \in [Slots -> Invitation]
    <3>1. CASE Create(w)
      <4>1. [status |-> "pending", org |-> Org(job[w].cmd), email |-> job[w].cmd.email,
             issuer |-> job[w].cmd.actor, expired |-> FALSE, mode |-> "none"] \in Invitation
        BY <2>2, <3>1, CommandFields DEF Create, Committing, Invitation
      <4>2. invitation' \in [Slots -> Invitation]
        BY <3>1, <4>1 DEF Create, TypeOK
      <4>3. QED
        BY <3>1, <4>2 DEF Create, TypeOK
    <3>2. CASE CancelInvitation(w)
      <4> DEFINE s == job[w].cmd.slot
                 row == [invitation[s] EXCEPT !.status = "cancelled"]
      <4>1. s \in Slots
        BY <2>2, <3>2, CommandFields DEF CancelInvitation, Committing
      <4>2. invitation' = [invitation EXCEPT ![s] = row]
        BY <3>2 DEF CancelInvitation
      <4> HIDE DEF s
      <4>3. row \in Invitation
        BY <4>1, RowsWithin DEF TypeOK
      <4> HIDE DEF row
      <4>4. invitation' \in [Slots -> Invitation]
        BY <4>2, <4>3 DEF TypeOK
      <4>5. QED
        BY <3>2, <4>4 DEF CancelInvitation, TypeOK
    <3>3. CASE Accept(w)
      <4>1. job[w].cmd.slot \in Slots /\ job[w].cmd.password \in Passwords
        BY <2>2, <3>3, CommandFields DEF Accept, Committing
      <4>2. secret' \in [People -> Passwords \cup {NoAccount}]
        BY <3>3, <4>1 DEF Accept, TypeOK
      <4>3. member' \in [Orgs -> [People -> Standing]]
        BY <3>3 DEF Accept, TypeOK, Standing
      <4>4. invitation' \in [Slots -> Invitation]
        <5> DEFINE m == IF ExistingMode(job[w].cmd) THEN "existing" ELSE "new"
        <5>1. m \in {"existing", "new"}
          OBVIOUS
        <5>2. invitation' = [invitation EXCEPT ![job[w].cmd.slot].status = "accepted",
                                               ![job[w].cmd.slot].mode = m]
          BY <3>3 DEF Accept
        <5> HIDE DEF m
        <5> DEFINE s == job[w].cmd.slot
                   row == [invitation[s] EXCEPT !.status = "accepted", !.mode = m]
        <5>3. invitation' = [invitation EXCEPT ![s] = row]
          BY <4>1, <5>2 DEF TypeOK
        <5> HIDE DEF s
        <5>4. row \in Invitation
          <6>1. s \in Slots
            BY <4>1 DEF s
          <6>2. QED
            BY <5>1, <6>1, RowsWithin DEF TypeOK
        <5> HIDE DEF row
        <5>5. QED
          BY <5>3, <5>4 DEF TypeOK
      <4>5. QED
        BY <4>2, <4>3, <4>4
    <3>4. CASE RevokeMembership(w)
      BY <3>4 DEF RevokeMembership, TypeOK, Standing
    <3>5. QED
      BY <1>9, <3>1, <3>2, <3>3, <3>4 DEF Commit
  <2>4. QED
    BY <2>1, <2>2, <2>3, CommittingTypes DEF TypeOK
<1>10. ASSUME NEW w \in Workers, Fail(w)
       PROVE  TypeOK'
  BY <1>10, ReleaseTypes DEF Fail, TypeOK, data
<1>11. QED
  BY <1>1, <1>2, <1>3, <1>4, <1>5, <1>6, <1>7, <1>8, <1>9, <1>10 DEF Next, Run, Check

\* Every state that two organisations' commands, aborts, failures and sign-ins
\* reach is well typed.
THEOREM InvitationsTyped == Spec => []TypeOK
BY InitTypes, StepTypes, PTL DEF Spec

-----------------------------------------------------------------------------
\* Steps.

\* The steps of one connection.
Steps(w) == (\E c \in Commands : Begin(w, c)) \/ Lock(w) \/ Abort(w) \/ Run(w) \/ Fail(w)

\* A step is of one connection or of none, and then at most a session or the
\* time of an invitation changes.
LEMMA StepKinds ==
  ASSUME [Next]_vars
  PROVE  \/ \E w \in Workers : Steps(w)
         \/ /\ UNCHANGED <<member, secret, ledger, answers, pc, job>>
            /\ (\E s \in Slots : Expire(s)) \/ UNCHANGED invitation
BY DEF Next, Steps, SignIn, SignOut, Expire, vars, data

\* A connection's step leaves the others where they are.
LEMMA Elsewhere ==
  ASSUME TypeOK, NEW w \in Workers, Steps(w), NEW v \in Workers \ {w}
  PROVE  pc'[v] = pc[v] /\ job'[v] = job[v]
<1>1. CASE \E c \in Commands : Begin(w, c)
  BY <1>1 DEF Begin, TypeOK
<1>2. CASE Lock(w) \/ Authorise(w) \/ Replay(w) \/ Proceed(w)
  BY <1>2 DEF Lock, Authorise, Replay, Proceed, Move, TypeOK
<1>3. CASE Abort(w) \/ Deny(w) \/ Conflict(w) \/ DenyReplay(w) \/ Refuse(w) \/ Respond(w) \/ Fail(w)
  BY <1>3 DEF Abort, Deny, Conflict, DenyReplay, Refuse, Respond, Fail, Release, TypeOK
<1>4. CASE Commit(w)
  BY <1>4 DEF Commit, Create, CancelInvitation, Accept, RevokeMembership, Committing, TypeOK
<1>5. QED
  BY <1>1, <1>2, <1>3, <1>4 DEF Steps, Run, Check

\* The commit of a transaction: the request it serves, what it writes for all of
\* its kinds, and where it goes.
LEMMA CommitFacts ==
  ASSUME TypeOK, NEW w \in Workers, Commit(w)
  PROVE  /\ Ready(w, "working") /\ pc[w] = "working" /\ pc'[w] = "committed"
         /\ job[w].cmd \in Commands
         /\ Acceptable(job[w].cmd)
         /\ ledger' = Append(ledger, Identity(job[w].cmd))
         /\ job'[w].cmd = job[w].cmd
         /\ job'[w].event = Len(ledger) + 1
         /\ UNCHANGED answers
<1>1. PICK op : Committing(w, op)
  BY DEF Commit, Create, CancelInvitation, Accept, RevokeMembership
<1>2. pc[w] = "working" /\ pc'[w] = "committed" /\ job[w] \in Job
  BY <1>1, BusyJob DEF Committing, Ready, TypeOK
<1>3. job' = [job EXCEPT ![w] = [job[w] EXCEPT !.event = Len(ledger) + 1, !.got = 0]]
  BY <1>1 DEF Committing
<1>4. job'[w].cmd = job[w].cmd /\ job'[w].event = Len(ledger) + 1
  BY <1>2, <1>3 DEF Job, TypeOK
<1>5. QED
  BY <1>1, <1>2, <1>4, BusyJob DEF Committing

\* Only a commit writes memberships, accounts, invitations or the ledger.
LEMMA OnlyCommitWrites ==
  ASSUME NEW w \in Workers, Steps(w), ~Commit(w)
  PROVE  UNCHANGED data
BY DEF Steps, Run, Check, Begin, Lock, Abort, Deny, Authorise, Conflict, Replay,
   DenyReplay, Proceed, Refuse, Respond, Fail, data

Active == {"authorising", "lookup", "working"}

\* How a transaction gets to where it is: it begins, takes a lock, or passes a
\* check, and keeps its request.
LEMMA Progress ==
  ASSUME TypeOK, NEW w \in Workers, Steps(w), pc'[w] \in Active
  PROVE  \/ /\ \E c \in Commands : Begin(w, c) /\ job'[w].cmd = c
            /\ pc'[w] = "authorising" /\ job'[w].got = 0
         \/ /\ Lock(w)
            /\ pc'[w] = pc[w] /\ job'[w].cmd = job[w].cmd
         \/ /\ \/ Authorise(w) /\ pc[w] = "authorising" /\ pc'[w] = "lookup"
               \/ Proceed(w) /\ pc[w] = "lookup" /\ pc'[w] = "working"
            /\ job' = job
<1>1. CASE \E c \in Commands : Begin(w, c)
  <2>1. PICK c \in Commands : Begin(w, c)
    BY <1>1
  <2>2. /\ job' = [job EXCEPT ![w] = [cmd |-> c, got |-> 0, event |-> 0]]
        /\ pc' = [pc EXCEPT ![w] = "authorising"]
    BY <2>1 DEF Begin
  <2>3. job'[w] = [cmd |-> c, got |-> 0, event |-> 0] /\ pc'[w] = "authorising"
    BY <2>2 DEF TypeOK
  <2>4. job'[w].cmd = c /\ job'[w].got = 0
    BY <2>3
  <2>5. QED
    BY <2>1, <2>3, <2>4
<1>2. CASE Lock(w)
  <2>1. job[w] \in Job
    BY <1>2, BusyJob DEF Lock, NeedsLock
  <2>2. job' = [job EXCEPT ![w] = [job[w] EXCEPT !.got = job[w].got + 1]] /\ pc' = pc
    BY <1>2 DEF Lock
  <2>3. job'[w].cmd = job[w].cmd
    BY <2>1, <2>2 DEF Job, TypeOK
  <2>4. QED
    BY <1>2, <2>2, <2>3
<1>3. CASE Authorise(w) \/ Proceed(w)
  BY <1>3 DEF Authorise, Proceed, Move, Ready, TypeOK
<1>4. CASE Replay(w)
  BY <1>4 DEF Replay, Move, Ready, TypeOK, Active
<1>5. CASE Abort(w) \/ Deny(w) \/ Conflict(w) \/ DenyReplay(w) \/ Refuse(w) \/ Respond(w) \/ Fail(w)
  BY <1>5 DEF Abort, Deny, Conflict, DenyReplay, Refuse, Respond, Fail, Release, TypeOK, Active
<1>6. CASE Commit(w)
  BY <1>6, CommitFacts DEF Active
<1>7. QED
  BY <1>1, <1>2, <1>3, <1>4, <1>5, <1>6 DEF Steps, Run, Check

-----------------------------------------------------------------------------
\* Exclusion.

\* A transaction has its organisation's row from its first lock on.
InOrg(w) == pc[w] \in Active /\ job[w].got > 0

OrgExclusive ==
  \A v, w \in Workers :
    InOrg(v) /\ InOrg(w) /\ Org(job[v].cmd) = Org(job[w].cmd) => v = w

\* Whoever passed the check of authority has the row.
Locked == \A w \in Workers : pc[w] \in {"lookup", "working"} => InOrg(w)

\* An acceptance is of an invitation of its organisation that has been issued.
TokensIssued ==
  \A w \in Workers : pc[w] \in Active /\ job[w].cmd.op = "accept" =>
    /\ invitation[job[w].cmd.slot].status # "unused"
    /\ invitation[job[w].cmd.slot].org = Org(job[w].cmd)

\* The authority that was checked stands while the transaction goes on.
AuthorityStands ==
  \A w \in Workers : pc[w] \in {"lookup", "working"} =>
    Admin(Org(job[w].cmd), Authority(job[w].cmd))

\* The key that was looked up has no effect while the transaction goes on.
FreshKeys ==
  \A w \in Workers : pc[w] = "working" =>
    \A i \in DOMAIN ledger : ledger[i].key # job[w].cmd.key

\* A committed transaction knows its effect.
CommittedKnown ==
  \A w \in Workers : pc[w] = "committed" =>
    /\ job[w].event \in DOMAIN ledger
    /\ ledger[job[w].event] = Identity(job[w].cmd)

LockInv == TypeOK /\ OrgExclusive /\ Locked
InvitationInv == LockInv /\ TokensIssued /\ AuthorityStands /\ FreshKeys /\ CommittedKnown

\* Who has the row holds the lock.
LEMMA InOrgHolds ==
  ASSUME TypeOK, NEW w \in Workers, InOrg(w)
  PROVE  <<"org", Org(job[w].cmd)>> \in Held(w)
<1>1. job[w].cmd \in Commands /\ job[w].got \in Nat
  BY BusyJob DEF InOrg, Active
<1>2. 1 \in 1..job[w].got
  BY <1>1 DEF InOrg
<1>3. Plan(job[w].cmd)[1] = <<"org", Org(job[w].cmd)>>
  BY <1>1, OrganisationFirst
<1>4. QED
  BY <1>2, <1>3 DEF Held, InOrg, Active

\* A transaction that has what its phase needs has the row.
LEMMA ReadyInOrg ==
  ASSUME TypeOK, NEW w \in Workers, NEW phase \in Active, Ready(w, phase)
  PROVE  InOrg(w)
<1>1. pc[w] \in Active /\ job[w].cmd \in Commands /\ job[w].got = Goal(w)
  BY BusyJob DEF Ready, Active
<1>2. Goal(w) \in Nat \ {0}
  BY <1>1, OrganisationFirst DEF Goal, Active
<1>3. QED
  BY <1>1, <1>2 DEF InOrg

LEMMA StepExclusive ==
  ASSUME LockInv, [Next]_vars
  PROVE  OrgExclusive'
<1> USE DEF LockInv
<1>1. CASE UNCHANGED <<pc, job>>
  BY <1>1 DEF OrgExclusive, InOrg
<1>2. ASSUME NEW w \in Workers, Steps(w), NEW v \in Workers \ {w},
             InOrg(v)', InOrg(w)', Org(job'[v].cmd) = Org(job'[w].cmd)
      PROVE  FALSE
  <2>1. pc'[v] = pc[v] /\ job'[v] = job[v] /\ InOrg(v)
    BY <1>2, Elsewhere DEF InOrg
  <2>2. CASE InOrg(w) /\ job'[w].cmd = job[w].cmd
    BY <1>2, <2>1, <2>2 DEF OrgExclusive
  <2>3. CASE ~InOrg(w) \/ job'[w].cmd # job[w].cmd
    <3>1. Lock(w) /\ pc'[w] = pc[w] /\ job'[w].cmd = job[w].cmd
      <4>1. pc'[w] \in Active /\ job'[w].got > 0
        BY <1>2 DEF InOrg
      <4>2. ~(Authorise(w) \/ Proceed(w)) \/ job' # job
        BY <2>3, ReadyInOrg DEF Authorise, Proceed, Move, Active
      <4>3. QED
        BY <1>2, <4>1, <4>2, Progress
    <3>2. job[w].got = 0 /\ job[w].cmd \in Commands
      BY <1>2, <2>3, <3>1, BusyJob DEF InOrg, Active
    <3>3. Wants(w) = <<"org", Org(job[w].cmd)>>
      BY <3>2, OrganisationFirst DEF Wants
    <3>4. QED
      BY <1>2, <2>1, <3>1, <3>3, InOrgHolds DEF Lock
  <2>4. QED
    BY <2>2, <2>3
<1>3. QED
  <2>1. ASSUME NEW w \in Workers, Steps(w), NEW u \in Workers, NEW v \in Workers,
               InOrg(u)', InOrg(v)', Org(job'[u].cmd) = Org(job'[v].cmd), u # v
        PROVE  FALSE
    <3>1. CASE u = w \/ v = w
      BY <1>2, <2>1, <3>1
    <3>2. CASE u # w /\ v # w
      <4>1. pc'[u] = pc[u] /\ job'[u] = job[u] /\ pc'[v] = pc[v] /\ job'[v] = job[v]
        BY <2>1, <3>2, Elsewhere
      <4>2. QED
        BY <2>1, <4>1 DEF OrgExclusive, InOrg
    <3>3. QED
      BY <3>1, <3>2
  <2>2. QED
    BY <1>1, <2>1, StepKinds DEF OrgExclusive

LEMMA StepLocked ==
  ASSUME LockInv, [Next]_vars
  PROVE  Locked'
<1> USE DEF LockInv
<1>1. CASE UNCHANGED <<pc, job>>
  BY <1>1 DEF Locked, InOrg
<1>2. ASSUME NEW w \in Workers, Steps(w), NEW v \in Workers, pc'[v] \in {"lookup", "working"}
      PROVE  InOrg(v)'
  <2>1. CASE v # w
    BY <1>2, <2>1, Elsewhere DEF Locked, InOrg
  <2>2. CASE v = w /\ Lock(w)
    <3>1. pc' = pc /\ job[w] \in Job /\ job' = [job EXCEPT ![w].got = job[w].got + 1]
      BY <2>2, BusyJob DEF Lock, NeedsLock
    <3>2. job[w].got \in Nat /\ job[w].got > 0 /\ pc[w] \in Active
      BY <1>2, <2>2, <3>1 DEF Locked, InOrg, Job
    <3>3. QED
      BY <2>2, <3>1, <3>2 DEF InOrg, Job, TypeOK
  <2>3. CASE v = w /\ (Authorise(w) \/ Proceed(w)) /\ job' = job
    <3>1. InOrg(w)
      BY <2>3, ReadyInOrg DEF Authorise, Proceed, Move, Active
    <3>2. QED
      BY <1>2, <2>3, <3>1 DEF InOrg, Active
  <2>4. QED
    BY <1>2, <2>1, <2>2, <2>3, Progress DEF Active
<1>3. QED
  BY <1>1, <1>2, StepKinds DEF Locked

-----------------------------------------------------------------------------
\* What stays as it was checked.

\* The address, the organisation and the issuer of an invitation never change.
LEMMA IssuedStays ==
  ASSUME TypeOK, [Next]_vars, NEW s \in Slots, invitation[s].status # "unused"
  PROVE  /\ invitation'[s].status # "unused"
         /\ invitation'[s].org = invitation[s].org
         /\ invitation'[s].email = invitation[s].email
         /\ invitation'[s].issuer = invitation[s].issuer
<1> USE DEF TypeOK, Invitation
<1>1. CASE UNCHANGED invitation
  BY <1>1
<1>2. CASE \E t \in Slots : Expire(t)
  <2>1. PICK t \in Slots : invitation' = [invitation EXCEPT ![t].expired = TRUE]
    BY <1>2 DEF Expire
  <2>2. QED
    BY <2>1
<1>3. ASSUME NEW w \in Workers, Commit(w)
      PROVE  /\ invitation'[s].status # "unused"
             /\ invitation'[s].org = invitation[s].org
             /\ invitation'[s].email = invitation[s].email
             /\ invitation'[s].issuer = invitation[s].issuer
  <2>1. CASE Create(w)
    <3>1. PICK t \in Slots : /\ invitation[t].status = "unused"
                             /\ \E r : invitation' = [invitation EXCEPT ![t] = r]
      BY <2>1 DEF Create
    <3>2. QED
      BY <3>1
  <2>2. CASE CancelInvitation(w)
    BY <2>2 DEF CancelInvitation
  <2>3. CASE Accept(w)
    <3>1. PICK m : invitation' = [invitation EXCEPT ![job[w].cmd.slot].status = "accepted",
                                                   ![job[w].cmd.slot].mode = m]
      BY <2>3 DEF Accept
    <3>2. QED
      BY <3>1
  <2>4. CASE RevokeMembership(w)
    BY <2>4 DEF RevokeMembership
  <2>5. QED
    BY <1>3, <2>1, <2>2, <2>3, <2>4 DEF Commit
<1>4. QED
  BY <1>1, <1>2, <1>3, StepKinds, OnlyCommitWrites DEF data

\* A commit changes memberships of its own organisation only.
LEMMA MembersOfOthers ==
  ASSUME TypeOK, NEW w \in Workers, Commit(w), NEW o \in Orgs \ {Org(job[w].cmd)}
  PROVE  member'[o] = member[o]
BY DEF Commit, Create, CancelInvitation, Accept, RevokeMembership, TypeOK

LEMMA StepTokens ==
  ASSUME InvitationInv, [Next]_vars
  PROVE  TokensIssued'
<1> USE DEF InvitationInv, LockInv
<1>1. CASE UNCHANGED <<pc, job>>
  <2>1. ASSUME NEW w \in Workers, pc[w] \in Active, job[w].cmd.op = "accept"
        PROVE  /\ invitation'[job[w].cmd.slot].status # "unused"
               /\ invitation'[job[w].cmd.slot].org = Org(job[w].cmd)
    <3>1. job[w].cmd.slot \in Slots
      BY <2>1, BusyJob, CommandFields DEF Active
    <3>2. QED
      BY <2>1, <3>1, IssuedStays DEF TokensIssued
  <2>2. QED
    BY <1>1, <2>1 DEF TokensIssued
<1>2. ASSUME NEW w \in Workers, Steps(w), NEW v \in Workers, pc'[v] \in Active,
             job'[v].cmd.op = "accept"
      PROVE  /\ invitation'[job'[v].cmd.slot].status # "unused"
             /\ invitation'[job'[v].cmd.slot].org = Org(job'[v].cmd)
  <2>1. CASE pc[v] \in Active /\ job'[v].cmd = job[v].cmd
    <3>1. job[v].cmd.slot \in Slots
      BY <1>2, <2>1, BusyJob, CommandFields DEF Active
    <3>2. QED
      BY <1>2, <2>1, <3>1, IssuedStays DEF TokensIssued
  <2>2. ASSUME NEW c \in Commands, v = w, Begin(w, c), job'[w].cmd = c
        PROVE  /\ invitation'[job'[v].cmd.slot].status # "unused"
               /\ invitation'[job'[v].cmd.slot].org = Org(job'[v].cmd)
    BY <1>2, <2>2 DEF Begin, data
  <2>3. CASE v = w /\ ~ \E c \in Commands : Begin(w, c) /\ job'[w].cmd = c
    <3>1. pc[w] \in Active /\ job'[w].cmd = job[w].cmd
      BY <1>2, <2>3, Progress DEF Active
    <3>2. QED
      BY <2>1, <2>3, <3>1
  <2>4. CASE v # w
    BY <1>2, <2>1, <2>4, Elsewhere
  <2>5. QED
    BY <2>2, <2>3, <2>4
<1>3. QED
  BY <1>1, <1>2, StepKinds DEF TokensIssued

\* A transaction past its check is not disturbed: whoever commits meanwhile is of
\* another organisation.
LEMMA Undisturbed ==
  ASSUME LockInv, NEW w \in Workers, Commit(w), NEW v \in Workers \ {w},
         pc[v] \in {"lookup", "working"}
  PROVE  Org(job[w].cmd) # Org(job[v].cmd)
<1>1. InOrg(w) /\ InOrg(v)
  BY CommitFacts, ReadyInOrg DEF LockInv, Locked, Active
<1>2. QED
  BY <1>1 DEF LockInv, OrgExclusive

\* Whose authority a transaction needs does not change.
LEMMA SameAuthority ==
  ASSUME InvitationInv, [Next]_vars, NEW w \in Workers, pc[w] \in Active
  PROVE  LET c == job[w].cmd IN
         /\ c.op = "accept" => invitation'[c.slot].issuer = invitation[c.slot].issuer
         /\ Authority(c) \in People /\ Org(c) \in Orgs
<1> USE DEF InvitationInv, LockInv
<1>1. job[w].cmd \in Commands
  BY BusyJob DEF Active
<1>2. CASE job[w].cmd.op = "accept"
  <2>1. job[w].cmd.slot \in Slots /\ invitation[job[w].cmd.slot].status # "unused"
    BY <1>1, <1>2, CommandFields DEF TokensIssued
  <2>2. QED
    BY <1>1, <1>2, <2>1, IssuedStays, CommandFields DEF Authority, TypeOK, Invitation
<1>3. CASE job[w].cmd.op # "accept"
  BY <1>1, <1>3, CommandFields DEF Authority
<1>4. QED
  BY <1>2, <1>3

LEMMA StepAuthority ==
  ASSUME InvitationInv, [Next]_vars
  PROVE  AuthorityStands'
<1> USE DEF InvitationInv, LockInv
<1>1. ASSUME NEW v \in Workers, pc[v] \in {"lookup", "working"},
             ~ \E w \in Workers : Commit(w) /\ Org(job[w].cmd) = Org(job[v].cmd)
      PROVE  LET c == job[v].cmd IN
             /\ member'[Org(c)] = member[Org(c)]
             /\ Admin(Org(c), Authority(c))
  <2>1. Org(job[v].cmd) \in Orgs
    BY <1>1, SameAuthority DEF Active
  <2>2. CASE \E w \in Workers : Commit(w)
    BY <1>1, <2>1, <2>2, MembersOfOthers DEF AuthorityStands
  <2>3. CASE ~ \E w \in Workers : Commit(w)
    BY <1>1, <2>3, StepKinds, OnlyCommitWrites DEF AuthorityStands, data
  <2>4. QED
    BY <2>2, <2>3
<1>2. CASE UNCHANGED <<pc, job>>
  <2>1. ASSUME NEW v \in Workers, pc[v] \in {"lookup", "working"}
        PROVE  Admin(Org(job[v].cmd), Authority(job[v].cmd))'
    <3>1. ~ \E w \in Workers : Commit(w)
      <4>1. ASSUME NEW w \in Workers, Commit(w)
            PROVE  FALSE
        BY <1>2, <4>1, CommitFacts
      <4>2. QED
        BY <4>1
    <3>2. QED
      BY <1>1, <1>2, <2>1, <3>1, SameAuthority DEF Active, Admin, Authority
  <2>2. QED
    BY <1>2, <2>1 DEF AuthorityStands
<1>3. ASSUME NEW w \in Workers, Steps(w), NEW v \in Workers, pc'[v] \in {"lookup", "working"}
      PROVE  Admin(Org(job[v].cmd), Authority(job[v].cmd))'
  <2>1. CASE v # w
    <3>1. pc'[v] = pc[v] /\ job'[v] = job[v]
      BY <1>3, <2>1, Elsewhere
    <3>2. ~ \E u \in Workers : Commit(u) /\ Org(job[u].cmd) = Org(job[v].cmd)
      <4>1. ASSUME NEW u \in Workers, Commit(u), Org(job[u].cmd) = Org(job[v].cmd)
            PROVE  FALSE
        <5>1. CASE u = v
          BY <1>3, <3>1, <4>1, <5>1, CommitFacts
        <5>2. CASE u # v
          BY <1>3, <3>1, <4>1, <5>2, Undisturbed
        <5>3. QED
          BY <5>1, <5>2
      <4>2. QED
        BY <4>1
    <3>3. QED
      BY <1>1, <1>3, <3>1, <3>2, SameAuthority DEF Active, Admin, Authority
  <2>2. CASE v = w
    <3>1. /\ ~Commit(w) /\ pc[w] \in Active
          /\ job'[w].cmd = job[w].cmd
          /\ Authorise(w) \/ pc[w] \in {"lookup", "working"}
      BY <1>3, <2>2, Progress, CommitFacts DEF Active
    <3>2. UNCHANGED <<member, invitation>>
      BY <1>3, <3>1, OnlyCommitWrites DEF data
    <3>3. Admin(Org(job[w].cmd), Authority(job[w].cmd))
      BY <3>1 DEF Authorise, Authorised, AuthorityStands
    <3>4. QED
      BY <2>2, <3>1, <3>2, <3>3 DEF Admin, Authority
  <2>3. QED
    BY <2>1, <2>2
<1>4. QED
  BY <1>2, <1>3, StepKinds DEF AuthorityStands

\* The ledger grows by the request of the commit.
LEMMA LedgerGrows ==
  ASSUME TypeOK, NEW w \in Workers, Commit(w)
  PROVE  /\ Len(ledger) \in Nat
         /\ DOMAIN ledger' = DOMAIN ledger \cup {Len(ledger) + 1}
         /\ \A i \in DOMAIN ledger : ledger'[i] = ledger[i]
         /\ ledger'[Len(ledger) + 1] = Identity(job[w].cmd)
<1>1. Identity(job[w].cmd) \in Identities /\ ledger \in Seq(Identities)
  BY CommitFacts, IdentityFacts DEF TypeOK
<1>2. ledger' = Append(ledger, Identity(job[w].cmd))
  BY CommitFacts
<1>3. QED
  BY <1>1, <1>2

LEMMA StepFreshKeys ==
  ASSUME LockInv, FreshKeys, [Next]_vars
  PROVE  FreshKeys'
<1> USE DEF LockInv
<1>1. CASE UNCHANGED <<pc, job, ledger>>
  BY <1>1 DEF FreshKeys
<1>2. ASSUME NEW w \in Workers, Steps(w), NEW v \in Workers, pc'[v] = "working",
             NEW i \in DOMAIN ledger'
      PROVE  ledger'[i].key # job'[v].cmd.key
  <2>1. CASE v = w
    <3>1. ledger' = ledger /\ job'[w].cmd = job[w].cmd
      BY <1>2, <2>1, Progress, CommitFacts, OnlyCommitWrites DEF Active, data
    <3>2. pc[w] = "working" \/ Proceed(w)
      BY <1>2, <2>1, Progress DEF Active
    <3>3. QED
      BY <1>2, <2>1, <3>1, <3>2 DEF FreshKeys, Proceed, KeyEvents
  <2>2. CASE v # w /\ ~Commit(w)
    BY <1>2, <2>2, Elsewhere, OnlyCommitWrites DEF FreshKeys, data
  <2>3. CASE v # w /\ Commit(w)
    <3>1. pc[v] = "working" /\ job'[v] = job[v]
      BY <1>2, <2>3, Elsewhere
    <3>2. Org(job[w].cmd) # Org(job[v].cmd)
      BY <2>3, <3>1, Undisturbed
    <3>3. job[w].cmd.key # job[v].cmd.key
      BY <3>2 DEF Org
    <3>4. Identity(job[w].cmd).key = job[w].cmd.key
      BY <2>3, CommitFacts, IdentityFacts
    <3>5. CASE i \in DOMAIN ledger
      BY <2>3, <3>1, <3>5, LedgerGrows DEF FreshKeys
    <3>6. CASE i = Len(ledger) + 1
      BY <2>3, <3>1, <3>3, <3>4, <3>6, LedgerGrows
    <3>7. QED
      BY <1>2, <2>3, <3>5, <3>6, LedgerGrows
  <2>4. QED
    BY <2>1, <2>2, <2>3
<1>3. QED
  BY <1>1, <1>2, StepKinds DEF FreshKeys

LEMMA StepCommitted ==
  ASSUME LockInv, CommittedKnown, [Next]_vars
  PROVE  CommittedKnown'
<1> USE DEF LockInv
<1>1. CASE UNCHANGED <<pc, job, ledger>>
  BY <1>1 DEF CommittedKnown
<1>2. ASSUME NEW w \in Workers, Steps(w), NEW v \in Workers, pc'[v] = "committed"
      PROVE  /\ job'[v].event \in DOMAIN ledger'
             /\ ledger'[job'[v].event] = Identity(job'[v].cmd)
  <2>1. \A i \in DOMAIN ledger : i \in DOMAIN ledger' /\ ledger'[i] = ledger[i]
    BY <1>2, LedgerGrows, OnlyCommitWrites DEF data
  <2>2. CASE v # w
    BY <1>2, <2>1, <2>2, Elsewhere DEF CommittedKnown
  <2>3. CASE v = w /\ Commit(w)
    BY <2>3, CommitFacts, LedgerGrows
  <2>4. CASE v = w /\ Replay(w)
    <3>1. PICK i \in KeyEvents(job[w].cmd) :
            /\ ledger[i] = Identity(job[w].cmd)
            /\ job' = [job EXCEPT ![w].event = i, ![w].got = 0]
      BY <2>4 DEF Replay
    <3>2. job[w] \in Job /\ i \in DOMAIN ledger
      BY <2>4, BusyJob DEF Replay, Move, Ready, KeyEvents
    <3>3. job' = [job EXCEPT ![w] = [job[w] EXCEPT !.event = i, !.got = 0]]
      BY <3>1
    <3>4. job'[w].event = i /\ job'[w].cmd = job[w].cmd
      BY <3>2, <3>3 DEF Job, TypeOK
    <3>5. QED
      BY <2>1, <2>4, <3>1, <3>2, <3>4
  <2>5. CASE v = w /\ ~Commit(w) /\ ~Replay(w)
    <3>1. Lock(w) /\ pc[w] = "committed"
      <4>1. CASE \E c \in Commands : Begin(w, c)
        BY <1>2, <2>5, <4>1 DEF Begin, TypeOK
      <4>2. CASE Authorise(w) \/ Proceed(w)
        BY <1>2, <2>5, <4>2 DEF Authorise, Proceed, Move, TypeOK
      <4>3. CASE Abort(w) \/ Deny(w) \/ Conflict(w) \/ DenyReplay(w) \/ Refuse(w)
                 \/ Respond(w) \/ Fail(w)
        BY <1>2, <2>5, <4>3 DEF Abort, Deny, Conflict, DenyReplay, Refuse, Respond, Fail,
           Release, TypeOK
      <4>4. CASE Lock(w)
        BY <1>2, <2>5, <4>4 DEF Lock
      <4>5. QED
        BY <1>2, <2>5, <4>1, <4>2, <4>3, <4>4 DEF Steps, Run, Check
    <3>2. QED
      BY <3>1, BusyJob DEF Lock, NeedsLock, Goal
  <2>6. QED
    BY <2>2, <2>3, <2>4, <2>5
<1>3. QED
  BY <1>1, <1>2, StepKinds DEF CommittedKnown

\* The inductive invariant.  The organisation's row keeps the transactions of one
\* organisation apart, so that what a transaction has checked stays true until it
\* commits, whatever other organisations do to the same people.
THEOREM InvitationInvariant == Spec => []InvitationInv
<1>1. Init => InvitationInv
  BY InitTypes DEF Init, InvitationInv, LockInv, OrgExclusive, Locked, TokensIssued,
     AuthorityStands, FreshKeys, CommittedKnown, InOrg, Active
<1>2. InvitationInv /\ [Next]_vars => InvitationInv'
  <2> SUFFICES ASSUME InvitationInv, [Next]_vars PROVE InvitationInv'
    OBVIOUS
  <2>1. LockInv'
    BY StepTypes, StepExclusive, StepLocked DEF InvitationInv, LockInv
  <2>2. TokensIssued' /\ AuthorityStands'
    BY StepTokens, StepAuthority
  <2>3. FreshKeys' /\ CommittedKnown'
    BY StepFreshKeys, StepCommitted DEF InvitationInv
  <2>4. QED
    BY <2>1, <2>2, <2>3 DEF InvitationInv
<1>3. QED
  BY <1>1, <1>2, PTL DEF Spec

-----------------------------------------------------------------------------
\* Joining an organisation.

\* A membership becomes active in one way only.
LEMMA OnlyAcceptJoins ==
  ASSUME TypeOK, [Next]_vars, NEW o \in Orgs, NEW p \in People,
         member[o][p] # "active", member'[o][p] = "active"
  PROVE  \E w \in Workers : /\ Accept(w)
                            /\ o = Org(job[w].cmd) /\ p = Email(job[w].cmd)
<1>1. PICK w \in Workers : Commit(w)
  BY StepKinds, OnlyCommitWrites DEF data
<1>2. Accept(w)
  <2>1. ~RevokeMembership(w)
    BY DEF RevokeMembership, TypeOK
  <2>2. QED
    BY <1>1, <2>1 DEF Commit, Create, CancelInvitation
<1>3. o = Org(job[w].cmd) /\ p = Email(job[w].cmd)
  BY <1>2 DEF Accept, TypeOK
<1>4. QED
  BY <1>2, <1>3

\* Nobody joins, or rejoins, but through a pending invitation in date whose issuer
\* administers the organisation in that very state (loadAuthorised), for any
\* organisations, people and interleaving.
THEOREM JoinsAreAuthorised == Spec => JoinUnderAuthority
<1> DEFINE Joins == \A o \in Orgs, p \in People :
       member[o][p] # "active" /\ member'[o][p] = "active" =>
         /\ member[o][p] = "none"
         /\ \E s \in Slots :
              /\ invitation[s].status = "pending" /\ ~invitation[s].expired
              /\ invitation'[s].status = "accepted"
              /\ invitation[s].org = o /\ invitation[s].email = p
              /\ Admin(o, invitation[s].issuer)
<1>1. InvitationInv /\ [Next]_vars => [Joins]_vars
  <2> SUFFICES ASSUME InvitationInv, [Next]_vars, NEW o \in Orgs, NEW p \in People,
                      member[o][p] # "active", member'[o][p] = "active"
               PROVE  /\ member[o][p] = "none"
                      /\ \E s \in Slots :
                           /\ invitation[s].status = "pending" /\ ~invitation[s].expired
                           /\ invitation'[s].status = "accepted"
                           /\ invitation[s].org = o /\ invitation[s].email = p
                           /\ Admin(o, invitation[s].issuer)
    OBVIOUS
  <2> USE DEF InvitationInv, LockInv
  <2>1. PICK w \in Workers : Accept(w) /\ o = Org(job[w].cmd) /\ p = Email(job[w].cmd)
    BY OnlyAcceptJoins
  <2> DEFINE c == job[w].cmd
  <2>2. c \in Commands /\ c.op = "accept" /\ AcceptAcceptable(c) /\ pc[w] = "working"
    BY <2>1, CommitFacts DEF Commit, Accept, Committing, Acceptable
  <2>3. c.slot \in Slots
    BY <2>2, CommandFields
  <2>4. invitation[c.slot].org = o /\ Admin(o, invitation[c.slot].issuer)
    BY <2>1, <2>2 DEF TokensIssued, AuthorityStands, Authority, Active
  <2>5. /\ invitation[c.slot].status = "pending" /\ ~invitation[c.slot].expired
        /\ invitation[c.slot].email = p /\ member[o][p] = "none"
    BY <2>1, <2>2 DEF AcceptAcceptable, Email
  <2>6. invitation'[c.slot].status = "accepted"
    <3>1. PICK m : invitation' = [invitation EXCEPT ![c.slot].status = "accepted",
                                                   ![c.slot].mode = m]
      BY <2>1 DEF Accept
    <3>2. QED
      BY <2>3, <3>1 DEF TypeOK, Invitation
  <2> HIDE DEF c
  <2>7. QED
    BY <2>3, <2>4, <2>5, <2>6
<1>2. QED
  BY <1>1, InvitationInvariant, PTL DEF Spec, JoinUnderAuthority

\* Nobody makes somebody else's account join: its owner is signed in and keeps
\* the password (INVITATION_SIGN_IN_REQUIRED), also when another organisation's
\* acceptance has just created the account.
THEOREM OwnersConsent == Spec => OwnerConsents
<1> DEFINE Consents == \A o \in Orgs, p \in People :
       member[o][p] # "active" /\ member'[o][p] = "active" /\ secret[p] # NoAccount =>
         p \in signedIn /\ secret'[p] = secret[p]
<1>1. TypeOK /\ [Next]_vars => [Consents]_vars
  <2> SUFFICES ASSUME TypeOK, [Next]_vars, NEW o \in Orgs, NEW p \in People,
                      member[o][p] # "active", member'[o][p] = "active",
                      secret[p] # NoAccount
               PROVE  p \in signedIn /\ secret'[p] = secret[p]
    OBVIOUS
  <2>1. PICK w \in Workers : Accept(w) /\ o = Org(job[w].cmd) /\ p = Email(job[w].cmd)
    BY OnlyAcceptJoins
  <2> DEFINE c == job[w].cmd
  <2>2. AcceptAcceptable(c)
    BY <2>1, CommitFacts DEF Commit, Accept, Committing, Acceptable
  <2>3. ExistingMode(c)
    <3>1. invitation[c.slot].status = "pending" /\ Email(c) = p /\ c.op = "accept"
      BY <2>1, <2>2 DEF AcceptAcceptable, Accept, Committing
    <3>2. invitation[c.slot].email = p
      BY <3>1 DEF Email
    <3> HIDE DEF c
    <3>3. QED
      BY <3>1, <3>2 DEF ExistingMode
  <2>4. SignedInOwner(c)
    BY <2>2, <2>3 DEF AcceptAcceptable, OwnershipProved
  <2>5. QED
    BY <2>1, <2>3, <2>4 DEF SignedInOwner, Accept
<1>2. QED
  BY <1>1, InvitationsTyped, PTL DEF Spec, OwnerConsents

-----------------------------------------------------------------------------
\* One outcome and one open invitation.

\* Of acceptance and cancellation exactly one happens to an invitation, and nothing
\* after it ("serializes cancellation against acceptance so the token cannot reach
\* both terminal states").
THEOREM OutcomesAreFinal == Spec => OneOutcome
<1> DEFINE Final == \A s \in Slots : invitation[s].status \in {"accepted", "cancelled"} =>
                      invitation'[s] = invitation[s]
<1>1. InvitationInv /\ [Next]_vars => [Final]_vars
  <2> SUFFICES ASSUME InvitationInv, [Next]_vars, NEW s \in Slots,
                      invitation[s].status \in {"accepted", "cancelled"}
               PROVE  invitation'[s] = invitation[s]
    OBVIOUS
  <2> USE DEF InvitationInv, LockInv, TypeOK
  <2>1. CASE UNCHANGED invitation
    BY <2>1
  <2>2. CASE \E t \in Slots : Expire(t)
    BY <2>2 DEF Expire
  <2>3. ASSUME NEW w \in Workers, Commit(w)
        PROVE  invitation'[s] = invitation[s]
    <3> DEFINE c == job[w].cmd
    <3>1. Acceptable(c)
      BY <2>3, CommitFacts
    <3>2. CASE Create(w)
      <4>1. PICK t \in Slots : /\ invitation[t].status = "unused"
                               /\ \E r : invitation' = [invitation EXCEPT ![t] = r]
        BY <3>2 DEF Create
      <4>2. QED
        BY <4>1
    <3>3. CASE CancelInvitation(w)
      <4>1. invitation[c.slot].status = "pending"
        BY <3>1, <3>3 DEF CancelInvitation, Committing, Acceptable, CancelAcceptable
      <4>2. QED
        BY <3>3, <4>1 DEF CancelInvitation
    <3>4. CASE Accept(w)
      <4>1. invitation[c.slot].status = "pending"
        BY <3>1, <3>4 DEF Accept, Committing, Acceptable, AcceptAcceptable
      <4>2. PICK m : invitation' = [invitation EXCEPT ![c.slot].status = "accepted",
                                                     ![c.slot].mode = m]
        BY <3>4 DEF Accept
      <4>3. QED
        BY <4>1, <4>2
    <3>5. CASE RevokeMembership(w)
      BY <3>5 DEF RevokeMembership
    <3>6. QED
      BY <2>3, <3>2, <3>3, <3>4, <3>5 DEF Commit
  <2>4. QED
    BY <2>1, <2>2, <2>3, StepKinds, OnlyCommitWrites DEF data
<1>2. QED
  BY <1>1, InvitationInvariant, PTL DEF Spec, OneOutcome

Open(s) == invitation[s].status = "pending" /\ ~invitation[s].expired

\* An invitation that is open after a step was open before it, for the same
\* address of the same organisation, unless the step created it.
LEMMA OpenBefore ==
  ASSUME TypeOK, [Next]_vars, NEW s \in Slots, Open(s)'
  PROVE  \/ /\ Open(s)
            /\ invitation'[s].org = invitation[s].org
            /\ invitation'[s].email = invitation[s].email
         \/ \E w \in Workers :
              /\ Create(w)
              /\ invitation'[s].org = Org(job[w].cmd)
              /\ invitation'[s].email = job[w].cmd.email
              /\ \A t \in Slots \ {s} : invitation'[t] = invitation[t]
<1> USE DEF Open
<1>1. CASE UNCHANGED invitation
  BY <1>1
<1>2. CASE \E t \in Slots : Expire(t)
  <2>1. PICK t \in Slots : invitation' = [invitation EXCEPT ![t].expired = TRUE]
    BY <1>2 DEF Expire
  <2>2. QED
    BY <2>1 DEF TypeOK, Invitation
<1>3. ASSUME NEW w \in Workers, Commit(w), ~Create(w)
      PROVE  /\ Open(s)
             /\ invitation'[s].org = invitation[s].org
             /\ invitation'[s].email = invitation[s].email
  <2>1. CASE CancelInvitation(w)
    BY <2>1 DEF CancelInvitation, TypeOK, Invitation
  <2>2. CASE Accept(w)
    <3>1. PICK m : invitation' = [invitation EXCEPT ![job[w].cmd.slot].status = "accepted",
                                                   ![job[w].cmd.slot].mode = m]
      BY <2>2 DEF Accept
    <3>2. QED
      BY <3>1 DEF TypeOK, Invitation
  <2>3. CASE RevokeMembership(w)
    BY <2>3 DEF RevokeMembership
  <2>4. QED
    BY <1>3, <2>1, <2>2, <2>3 DEF Commit
<1>4. ASSUME NEW w \in Workers, Create(w)
      PROVE  \/ /\ Open(s)
                /\ invitation'[s].org = invitation[s].org
                /\ invitation'[s].email = invitation[s].email
             \/ /\ invitation'[s].org = Org(job[w].cmd)
                /\ invitation'[s].email = job[w].cmd.email
                /\ \A t \in Slots \ {s} : invitation'[t] = invitation[t]
  <2> DEFINE row == [status |-> "pending", org |-> Org(job[w].cmd),
                     email |-> job[w].cmd.email, issuer |-> job[w].cmd.actor,
                     expired |-> FALSE, mode |-> "none"]
  <2>1. row.org = Org(job[w].cmd) /\ row.email = job[w].cmd.email
    OBVIOUS
  <2>2. PICK t \in Slots : invitation' = [invitation EXCEPT ![t] = row]
    BY <1>4 DEF Create
  <2> HIDE DEF row
  <2>3. CASE s = t
    BY <2>1, <2>2, <2>3 DEF TypeOK
  <2>4. CASE s # t
    BY <2>2, <2>4 DEF TypeOK
  <2>5. QED
    BY <2>3, <2>4
<1>5. QED
  BY <1>1, <1>2, <1>3, <1>4, StepKinds, OnlyCommitWrites DEF data

\* An organisation never has two open invitations for one address, however many of
\* its administrators invite at once (INVITATION_ALREADY_PENDING).
THEOREM NeverTwoOpen == Spec => []OneOpenInvitation
<1>1. Init => OneOpenInvitation
  BY DEF Init, OneOpenInvitation, Unissued
<1>2. InvitationInv /\ OneOpenInvitation /\ [Next]_vars => OneOpenInvitation'
  <2> SUFFICES ASSUME InvitationInv, OneOpenInvitation, [Next]_vars,
                      NEW s \in Slots, NEW t \in Slots, s # t, Open(s)', Open(t)',
                      invitation'[s].org = invitation'[t].org,
                      invitation'[s].email = invitation'[t].email
               PROVE  FALSE
    BY DEF OneOpenInvitation, Open
  <2> USE DEF InvitationInv, LockInv
  <2>1. ASSUME NEW w \in Workers, Create(w), NEW x \in Slots, NEW y \in Slots, x # y,
               invitation'[x].org = Org(job[w].cmd),
               invitation'[x].email = job[w].cmd.email,
               \A z \in Slots \ {x} : invitation'[z] = invitation[z],
               Open(y)', invitation'[x].org = invitation'[y].org,
               invitation'[x].email = invitation'[y].email
        PROVE  FALSE
    <3>1. InviteAcceptable(job[w].cmd)
      BY <2>1 DEF Create, Committing, Acceptable
    <3>2. /\ Open(y) /\ invitation[y].org = Org(job[w].cmd)
          /\ invitation[y].email = job[w].cmd.email
      BY <2>1 DEF Open
    <3>3. QED
      BY <3>1, <3>2 DEF InviteAcceptable, Open
  <2>2. CASE /\ Open(s) /\ Open(t)
             /\ invitation'[s].org = invitation[s].org
             /\ invitation'[s].email = invitation[s].email
             /\ invitation'[t].org = invitation[t].org
             /\ invitation'[t].email = invitation[t].email
    BY <2>2 DEF OneOpenInvitation, Open
  <2>3. QED
    BY <2>1, <2>2, OpenBefore
<1>3. QED
  BY <1>1, <1>2, InvitationInvariant, PTL DEF Spec

-----------------------------------------------------------------------------
\* The steps that answer, and with what.
LEMMA AnswerSteps ==
  ASSUME [Next]_vars, answers' # answers
  PROVE  \E w \in Workers :
           \/ UNCHANGED ledger /\ \E kind \in {"denied", "refused", "aborted"} : Reply(w, kind, 0)
           \/ Respond(w)
<1>1. PICK w \in Workers : Steps(w)
  BY StepKinds
<1>2. ~Commit(w)
  BY DEF Commit, Create, CancelInvitation, Accept, RevokeMembership, Committing
<1>3. UNCHANGED ledger
  BY <1>1, <1>2, OnlyCommitWrites DEF data
<1>4. Abort(w) \/ Deny(w) \/ Conflict(w) \/ DenyReplay(w) \/ Refuse(w) \/ Respond(w)
  BY <1>1, <1>2 DEF Steps, Run, Check, Begin, Lock, Authorise, Replay, Proceed, Fail
<1>5. QED
  BY <1>3, <1>4 DEF Abort, Deny, Conflict, DenyReplay, Refuse

\* What clients know, in the abstract ledger's terms.
Told == {[cmd |-> a.cmd, event |-> a.event] : a \in {b \in answers : b.kind = "done"}}

\* The transactions implement CommandLedger: across organisations, too, a key takes
\* effect at most once and clients are told of real effects only, whatever
\* PostgreSQL aborts and clients retry.
THEOREM InvitationsTakeEffectOnce == Spec => ExactlyOnce
<1>1. Init => Ledger!Init
  BY DEF Init, Ledger!Init
<1>2. InvitationInv /\ [Next]_vars => [Ledger!Next]_<<ledger, Told>>
  <2> SUFFICES ASSUME InvitationInv, [Next]_vars
               PROVE  [Ledger!Next]_<<ledger, Told>>
    OBVIOUS
  <2> USE DEF InvitationInv, LockInv
  <2>1. CASE UNCHANGED <<ledger, answers>>
    BY <2>1 DEF Told
  <2>2. ASSUME NEW w \in Workers, Commit(w)
        PROVE  \E c \in Identities : Ledger!TakeEffect(c)
    <3>1. /\ pc[w] = "working" /\ job[w].cmd \in Commands
          /\ ledger' = Append(ledger, Identity(job[w].cmd)) /\ UNCHANGED answers
      BY <2>2, CommitFacts
    <3>2. Identity(job[w].cmd) \in Identities /\ Identity(job[w].cmd).key = job[w].cmd.key
      BY <3>1, IdentityFacts
    <3>3. \A i \in DOMAIN ledger : ledger[i].key # Identity(job[w].cmd).key
      BY <3>1, <3>2 DEF FreshKeys
    <3>4. Told' = Told
      BY <3>1 DEF Told
    <3>5. Ledger!TakeEffect(Identity(job[w].cmd))
      BY <3>1, <3>3, <3>4 DEF Ledger!TakeEffect, Told
    <3>6. QED
      BY <3>2, <3>5
  <2>3. CASE UNCHANGED ledger /\ answers' # answers
    <3>1. PICK w \in Workers :
            \/ \E kind \in {"denied", "refused", "aborted"} : Reply(w, kind, 0)
            \/ Respond(w)
      BY <2>3, AnswerSteps
    <3>2. CASE Respond(w)
      <4>1. PICK e \in DOMAIN ledger : job[w].event = e /\ ledger[e] = Identity(job[w].cmd)
        BY <3>2 DEF Respond, CommittedKnown
      <4>2. Told' = Told \cup {[cmd |-> ledger[e], event |-> e]}
        <5> DEFINE a == [cmd |-> Identity(job[w].cmd), kind |-> "done", event |-> e]
        <5>1. answers' = answers \cup {a}
          BY <3>2, <4>1 DEF Respond, Reply
        <5>2. {b \in answers' : b.kind = "done"} = {b \in answers : b.kind = "done"} \cup {a}
          BY <5>1
        <5>3. a.cmd = ledger[e] /\ a.event = e
          BY <4>1
        <5> HIDE DEF a
        <5>4. QED
          BY <5>2, <5>3 DEF Told
      <4>3. Ledger!Tell(e)
        BY <2>3, <4>2 DEF Ledger!Tell, Told
      <4>4. QED
        BY <4>3 DEF Ledger!Next
    <3>3. CASE \E kind \in {"denied", "refused", "aborted"} : Reply(w, kind, 0)
      <4>1. {b \in answers' : b.kind = "done"} = {b \in answers : b.kind = "done"}
        BY <3>3 DEF Reply
      <4>2. Told' = Told
        BY <4>1 DEF Told
      <4>3. UNCHANGED <<ledger, Told>>
        BY <2>3, <4>2
      <4>4. QED
        BY <4>3
    <3>4. QED
      BY <3>1, <3>2, <3>3
  <2>4. QED
    BY <2>1, <2>2, <2>3, StepKinds, OnlyCommitWrites DEF Ledger!Next, data
<1>3. QED
  BY <1>1, <1>2, InvitationInvariant, PTL DEF Spec, ExactlyOnce, Ledger!Spec, Told

=============================================================================
