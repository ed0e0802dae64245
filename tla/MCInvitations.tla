---------------------------- MODULE MCInvitations ----------------------------
(***************************************************************************)
(* Two organisations, one administrator each, who may be a member or an    *)
(* invitee of the other, and a newcomer invited by both.                   *)
(***************************************************************************)
EXTENDS Invitations, TLC

CONSTANTS A, B,             \* organisations
          ann, bob, cat,    \* ann runs A, bob runs B, cat is new
          pw1, pw2,         \* passwords
          s1, s2,           \* invitations
          k1, k2, k3, k4,   \* keys
          w1, w2            \* connections

MCOrgs   == {A, B}
MCPeople == {ann, bob, cat}
MCRank   == ann :> 1 @@ bob :> 2 @@ cat :> 3
MCAdmin  == A :> {ann} @@ B :> {bob}
MCMember == A :> (ann :> "active" @@ bob :> "none" @@ cat :> "none")
         @@ B :> (ann :> "none" @@ bob :> "active" @@ cat :> "none")
MCSecret == ann :> pw1 @@ bob :> pw1 @@ cat :> NoAccount

\* Both organisations invite the newcomer, who accepts on two devices.
Newcomer ==
  [op: {"invite"}, key: {<<A, k1>>}, actor: {ann}, email: {cat}]
  \cup [op: {"invite"}, key: {<<B, k1>>}, actor: {bob}, email: {cat}]
  \cup [op: {"accept"}, key: MCOrgs \X {k2}, slot: {s1, s2}, as: {ann, cat}, password: {pw1}]

\* One organisation: the invitation, its cancellation, its acceptance with two
\* keys and the revocation of its issuer compete.
Lifecycle ==
  [op: {"invite"}, key: {<<A, k1>>, <<A, k4>>}, actor: {ann}, email: {cat}]
  \cup [op: {"cancel"}, key: {<<A, k2>>}, actor: {bob}, slot: {s1}]
  \cup [op: {"revoke"}, key: {<<A, k3>>}, actor: {bob}, target: {ann}]
  \cup [op: {"accept"}, key: {<<A, k4>>}, slot: {s1}, as: {cat},
        password: {pw1, pw2}]
  \cup [op: {"accept"}, key: {<<A, k4>>}, slot: {s2}, as: {cat}, password: {pw1}]

\* The two administrators invite one another.
Crossing ==
  [op: {"invite"}, key: {<<A, k1>>}, actor: {ann}, email: {bob}]
  \cup [op: {"invite"}, key: {<<B, k1>>}, actor: {bob}, email: {ann}]
  \cup [op: {"accept"}, key: MCOrgs \X {k2}, slot: {s1, s2}, as: {ann, bob}, password: {pw1}]

\* The newcomer's and the lifecycle's commands, explored side by side in one run;
\* bob, who runs B, is a second administrator of A.
BothAdmin  == A :> {ann, bob} @@ B :> {bob}
BothMember == A :> (ann :> "active" @@ bob :> "active" @@ cat :> "none")
           @@ B :> (ann :> "none" @@ bob :> "active" @@ cat :> "none")
BothCommands == Newcomer \cup Lifecycle
Seen == {job[w].cmd : w \in {v \in Workers : pc[v] # "idle" /\ job[v] # <<>>}}
Known == {ledger[i] : i \in DOMAIN ledger} \cup {a.cmd : a \in answers}
Only(cmds) == Seen \subseteq cmds /\ Known \subseteq {Identity(c) : c \in cmds}
InTurn == invitation[s2].status # "unused" => invitation[s1].status # "unused"
OneScenario == InTurn /\ (Only(Newcomer) \/ Only(Lifecycle))

MCSymmetry == Permutations({w1, w2})
=============================================================================
