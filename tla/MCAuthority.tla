----------------------------- MODULE MCAuthority -----------------------------
(***************************************************************************)
(* Small instances of OrgAuthority.  Two administrators, a project manager *)
(* and a revoked finance member share one organisation with one project;   *)
(* each configuration chooses the commands that meet.                      *)
(***************************************************************************)
EXTENDS OrgAuthority, TLC

CONSTANTS ann, bob, cara, dan,      \* members
          ta, tb, tc, tc2,          \* session tokens
          p, q,                     \* projects
          g1, g2, g3,               \* grant ids
          k1, k2, k3, k4,           \* idempotency keys
          w1, w2                    \* connections

MCMembers  == {ann, bob, cara, dan}
MCAudience == [m \in MCMembers |-> "internal"]
MCRole     == ann :> "super_admin" @@ bob :> "super_admin"
              @@ cara :> "project_manager" @@ dan :> "finance"
MCTokens   == {ta, tb, tc, tc2}
MCOwner    == ta :> ann @@ tb :> bob @@ tc :> cara @@ tc2 :> cara
OneEach    == {ta, tb, tc}
OwnerOfEach == ta :> ann @@ tb :> bob @@ tc :> cara
MCGrants   == {g1, g2, g3}
Unused     == [status |-> "unused", project |-> p, member |-> ann,
               level |-> "viewer", version |-> 0]
MCGrant    == [g \in MCGrants |->
                IF g = g1 THEN [status |-> "active", project |-> p, member |-> cara,
                                level |-> "editor", version |-> 1]
                ELSE Unused]

Revocations == [op: {"revoke"}, key: {k1}, actor: {ann}, target: {bob}]
  \cup [op: {"revoke"}, key: {k2}, actor: {bob}, target: {ann}]
  \cup [op: {"revoke"}, key: {k2}, actor: {bob}, target: {cara}]

\* Two administrators revoke each other, one reuses a key for another target.
MutualRevocation == Revocations

\* A member is revoked and restored while she works and her grant changes.
Reinstatement ==
  [op: {"revoke"}, key: {k1}, actor: {ann}, target: {cara}]
  \cup [op: {"restore"}, key: {k2}, actor: {bob}, target: {cara}, expected: {2}]
  \cup [op: {"durable"}, key: {k3}, actor: {cara}, project: {p}]
  \cup [op: {"grant"}, key: {k4}, actor: {bob}, target: {cara}, project: {p},
        level: {"editor"}]

\* Two administrators change the role of a member who works.
Administration ==
  [op: {"role"}, key: {k1}, actor: {ann}, target: {cara}, role: {"finance"},
   expected: {1}]
  \cup [op: {"role"}, key: {k2}, actor: {bob}, target: {cara},
        role: {"project_manager"}, expected: {1, 2}]
  \cup [op: {"durable"}, key: {k3}, actor: {cara}, project: {p}]

\* One administrator downgrades and another withdraws the grant a manager works
\* and creates a project under.
Access ==
  [op: {"regrade"}, key: {k1}, actor: {ann}, grant: {g1}, level: {"viewer"},
   expected: {1}]
  \cup [op: {"withdraw"}, key: {k2}, actor: {bob}, grant: {g1}, expected: {1, 2}]
  \cup [op: {"grant"}, key: {k3}, actor: {bob}, target: {cara}, project: {p, q},
        level: {"viewer"}]
  \cup [op: {"create"}, key: {k4}, actor: {cara}, project: {q}, owner: {ann}]
  \cup [op: {"durable"}, key: {k4}, actor: {cara}, project: {p}]

\* Enough for every operation's attempt to end.
Everything == Reinstatement \cup Access \cup
  [op: {"role"}, key: {k1}, actor: {ann}, target: {cara}, role: {"finance"}, expected: {1}]

\* Scenarios one run explores side by side: the commands under way and those with
\* a receipt or an answer belong to one of them.  Nobody signs in or out while
\* only access changes.
Seen == {job[w].cmd : w \in {v \in Workers : pc[v] # "idle" /\ job[v] # <<>>}}
        \cup {r.cmd : r \in receipts} \cup {a.cmd : a \in answers}

Scenarios == {MutualRevocation, Reinstatement, Administration, Access}
AllCommands == UNION Scenarios
OneScenario ==
  \E commands \in Scenarios :
    /\ Seen \subseteq commands
    /\ commands = Access => \A t \in Tokens : session[t] = IF t = tc2 THEN "none" ELSE "live"

\* Connections are interchangeable, and so are grant ids no command names.
MCSymmetry == Permutations({w1, w2}) \cup Permutations({g2, g3})
=============================================================================
