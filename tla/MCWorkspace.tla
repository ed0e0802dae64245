------------------------------ MODULE MCWorkspace ------------------------------
(***************************************************************************)
(* A small workspace.                                                      *)
(***************************************************************************)
EXTENDS Workspace, TLC

CONSTANTS z1, x1, x2, y1, y2, tag, b1, b2,
  o1, o2, l1, l2, f1, t1, t2, t3, e1, e2, e3, j1, j2, i1, i2, h1, h2, h3, k1, k2, w1, w2, w3

\* One piece with a serial number, and two of which any will do; two assets under one tag.
MCKind == x1 :> "serialized" @@ x2 :> "bulk"
MCTotal == x1 :> 1 @@ x2 :> 2
MCTag == y1 :> tag @@ y2 :> tag
MCUnits == b1 :> 1 @@ b2 :> 2

\* A contract for three; amounts that exceed it together or are credited; an order
\* of one and two pieces, delivered in parts, twice, or more than is outstanding.
MCCeiling == f1 :> 3
MCAmounts == {-1, 2}
MCOrdered == l1 :> 1 @@ l2 :> 2
MCItem(l, n) == [line |-> l, quantity |-> n]
MCDeliveries ==
  {<<MCItem(l2, 1)>>, <<MCItem(l2, 1), MCItem(l1, 1)>>, <<MCItem(l2, 2), MCItem(l1, 0)>>}

\* The choices of the initial state are those of the part that moves.
MCInit ==
  /\ WorkspaceInit
  /\ moving = "documents" \/ \A d \in Documents : document[d] = None
  /\ moving = "vendors" \/ \A n \in DOMAIN object : object[n].bank = z1 /\ object[n].restricted = None

MCSpec == MCInit /\ [][WorkspaceNext]_workspaceVars

-----------------------------------------------------------------------------
(* Bounds. *)

OneResource == Cardinality({r \in Resources : resource[r] # None}) <= 1

\* Orders meet at their contract only: one of them goes beyond its creation.
Handled(o) == order[o] # None /\ (order[o].status # "approved" \/ order[o].sent > 0)
OneOrderHandled == Cardinality({o \in Orders : Handled(o)}) <= 1

\* Bank changes are those of the vendor there from the start, and one object at
\* most is other than an approved vendor without risk flags.
FewVendorStates ==
  /\ bankChange = <<>> \/ \A n \in DOMAIN object : object[n].vendor \in Seeded
  /\ \A i \in DOMAIN bankChange : bankChange[i].vendor \in Seeded
  /\ Cardinality({n \in DOMAIN object : object[n].flagged \/ object[n].status # "approved"}) <= 1

\* One statement on requests and one on decisions is under way at a time, and the
\* sample request matters while there is no other.
FewApprovals ==
  /\ Cardinality({n \in DOMAIN asked : asked[n].step = "sent"}) <= 1
  /\ Cardinality({d \in DOMAIN decisions : decisions[d].step = "sent"}) <= 1
  /\ Numbered = {} \/ \A p \in Staff : screen[p] = None \/ screen[p].id # Sample
  /\ Numbered = {} \/ \A d \in DOMAIN decisions : IdOf(d) # Sample

\* Identifiers that only differ in their name are used in turn.
InTurn(used) == \A n \in 1..(Len(used) - 1) : used[n + 1] => used[n]

Used(p) ==
  \/ \E n \in DOMAIN reservation : reservation[n].project = p
  \/ \E n \in DOMAIN assetAllocation : assetAllocation[n].project = p

Busy(i) == \E r \in Requests : request[r].at = i
Sent(k) == \E r \in Requests : request[r].key = k

TakenInTurn ==
  /\ InTurn(<<task[t1] # None, task[t2] # None, task[t3] # None>>)
  /\ InTurn(<<document[e1] # None, document[e2] # None, document[e3] # None>>)
  /\ InTurn(<<order[o1] # None, order[o2] # None>>)
  /\ InTurn(<<asset[y1] # None, asset[y2] # None>>)
  /\ InTurn(<<Used(j1), Used(j2)>>)
  /\ InTurn(<<Busy(i1), Busy(i2)>>)
  /\ InTurn(<<Sent(k1), Sent(k2)>>)
  /\ InTurn(<<request[h1].step # "new", request[h2].step # "new", request[h3].step # "new">>)
  /\ InTurn(<<save[w1].step # "new", save[w2].step # "new", save[w3].step # "new">>)

Scenario == OneResource /\ OneOrderHandled /\ FewVendorStates /\ FewApprovals /\ TakenInTurn

\* Only drafts are saved, and only vendors change.
DraftsScenario == Scenario /\ moving = "drafts"
VendorsScenario == Scenario /\ moving = "vendors"

================================================================================
