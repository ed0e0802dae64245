--------------------------- MODULE ConstraintBoard ---------------------------
(***************************************************************************)
(* What reviewers rely on: the constraints as if one person at a time      *)
(* changed them, each change in one step, from what the constraint is at   *)
(* that moment.  There are no deliveries, locks, failures or restarts.     *)
(***************************************************************************)
EXTENDS Naturals

CONSTANTS Ids, Existing, Docs, None

VARIABLES
  rows,      \* status and version, None for no constraint
  sources,   \* pairs of a constraint and a document attached to it
  evidence,  \* verifications: constraint, document, version
  events     \* their audit events: constraint, version

Init ==
  /\ rows = [id \in Ids |-> IF id \in Existing THEN [status |-> "Draft", version |-> 1]
                            ELSE None]
  /\ sources = {} /\ evidence = {} /\ events = {}

SourcesOf(id) == {doc \in Docs : <<id, doc>> \in sources}

Becomes(id, status) ==
  /\ rows[id] # None
  /\ rows' = [rows EXCEPT ![id] = [status |-> status, version |-> rows[id].version + 1]]

Create(id) ==
  /\ rows[id] = None
  /\ rows' = [rows EXCEPT ![id] = [status |-> "Draft", version |-> 1]]
  /\ UNCHANGED <<sources, evidence, events>>

Attach(id, doc) ==
  /\ Becomes(id, "Source Attached")
  /\ sources' = sources \cup {<<id, doc>>}
  /\ UNCHANGED <<evidence, events>>

Submit(id) ==
  /\ SourcesOf(id) # {}
  /\ Becomes(id, "Under Review")
  /\ UNCHANGED <<sources, evidence, events>>

Verify(id, doc) ==
  /\ rows[id] # None /\ rows[id].status = "Under Review"
  /\ doc \in SourcesOf(id)
  /\ Becomes(id, "Verified")
  /\ evidence' = evidence \cup {<<id, doc, rows[id].version + 1>>}
  /\ events' = events \cup {<<id, rows[id].version + 1>>}
  /\ UNCHANGED sources

Supersede(id) ==
  /\ Becomes(id, "Superseded")
  /\ UNCHANGED <<sources, evidence, events>>

Next == \E id \in Ids :
          \/ Create(id) \/ Submit(id) \/ Supersede(id)
          \/ \E doc \in Docs : Attach(id, doc) \/ Verify(id, doc)

Spec == Init /\ [][Next]_<<rows, sources, evidence, events>>
=============================================================================
