------------------------------ MODULE SourcePins ------------------------------
(***************************************************************************)
(* Requirements, the allocations planned for them, the designs drawn from  *)
(* both, and the reviews of what a changed source means for its users.     *)
(*                                                                         *)
(* Each register keeps an append-only history; the version of a record is  *)
(* the length of its history.  An allocation pins one requirement          *)
(* revision, a design pins requirement and allocation revisions.  Clients  *)
(* prepare a command from what the screens show, with the versions shown,  *)
(* and send it until they are answered, always under one key.  A command   *)
(* is one step: it runs under the organisation's row lock and re-reads     *)
(* everything it decides on (DurableProjectCommand, ProjectAccessService). *)
(***************************************************************************)
EXTENDS Naturals, Sequences, NoValue

CONSTANTS
  Requirements, Allocations, Designs,   \* identifiers of records
  Legacy,       \* requirements of unverified provenance
  Established,  \* requirements recorded earlier
  Clients,
  MaxCommands   \* bound: commands prepared

ASSUME EstablishedAssumption == Established \subseteq Requirements /\ Legacy \subseteq Established
ASSUME IdentifiersAssumption == Allocations \cap Designs = {} /\ None \notin {"done", "refused"}

VARIABLES
  requirement,  \* requirement_revisions of each requirement
  allocation,   \* requirement_allocation_revisions of each allocation
  design,       \* design_package_revisions of each design
  assessments,  \* impact_review_assessments
  receipts,     \* idempotency_records: the keys of committed commands
  form,         \* the command each client has prepared
  told,         \* the answer to it that the client received
  issued        \* number of keys given out

registers == <<requirement, allocation, design, assessments>>
pinsVars == <<registers, receipts, form, told, issued>>

-----------------------------------------------------------------------------
(* What the registers say of themselves. *)

Recorded(table) == {id \in DOMAIN table : table[id] # <<>>}

Latest(history) == history[Len(history)]

PinTo(table, id) == [id |-> id, version |-> Len(table[id])]

Current(table, pin) == pin.version = Len(table[pin.id])

\* staleSource of the allocation register.
StaleAllocation(a) == ~Current(requirement, Latest(allocation[a]).pin)

\* sourceStale of the design register, which looks at the design's own pins.
StaleDesign(d) ==
  \/ \E p \in Latest(design[d]).requirements : ~Current(requirement, p)
  \/ \E p \in Latest(design[d]).allocations : ~Current(allocation, p)

Source(kind, table, pin) ==
  [kind |-> kind, id |-> pin.id, pinned |-> pin.version, current |-> Len(table[pin.id])]

\* What a review shows of an allocation: the requirement it pins.
AllocationSources(a) == {Source("requirement", requirement, Latest(allocation[a]).pin)}

\* Of a design: its pins, and the requirement behind each pinned allocation revision.
DesignSources(d) ==
  LET row == Latest(design[d])
      behind == {allocation[p.id][p.version].pin : p \in row.allocations}
  IN {Source("requirement", requirement, p) : p \in row.requirements \cup behind}
     \cup {Source("allocation", allocation, p) : p \in row.allocations}

Review(target, version, sources) == [target |-> target, version |-> version, sources |-> sources]

Reviews ==
  {Review(a, Len(allocation[a]), AllocationSources(a)) : a \in Recorded(allocation)}
  \cup {Review(d, Len(design[d]), DesignSources(d)) : d \in Recorded(design)}

Changes(review) == {s \in review.sources : s.pinned # s.current}

-----------------------------------------------------------------------------
(* What clients send. *)

\* A command names the record it revises at the version shown, or None, and the
\* sources selected at the versions shown.
Command(op, pin, rs, as, review) ==
  [op |-> op, pin |-> pin, requirements |-> rs, allocations |-> as, review |-> review]

Shown(table) == {PinTo(table, id) : id \in Recorded(table)}

New == [id |-> None, version |-> 0]

Drafts ==
  {Command("requirement", p, {}, {}, None) : p \in Shown(requirement) \cup {New}}
  \cup {Command("allocation", p, {r}, {}, None) :
          p \in Shown(allocation) \cup {New}, r \in Shown(requirement)}
  \cup {Command("design", p, rs, as, None) :
          p \in Shown(design) \cup {New}, rs \in (SUBSET Shown(requirement)) \ {{}},
          as \in SUBSET Shown(allocation)}
  \cup {Command("assess", New, {}, {}, v) : v \in Reviews}

\* A client fills in a form, for which it draws a new key.
Prepare(c) ==
  /\ issued < MaxCommands
  /\ form[c] = None \/ told[c] # None
  /\ issued' = issued + 1
  /\ \E m \in Drafts : form' = [form EXCEPT ![c] = [key |-> issued + 1, cmd |-> m]]
  /\ told' = [told EXCEPT ![c] = None]
  /\ UNCHANGED <<registers, receipts>>

-----------------------------------------------------------------------------
(* How a command is decided. *)

\* Broken variant: an allocation is taken whatever requirement version it rests on.
AnyAllocationVersion(m) ==
  /\ \A p \in m.requirements : p.id \notin Legacy
  /\ \A p \in m.allocations :
       \E q \in m.requirements : q.id = Latest(allocation[p.id]).pin.id

\* capturePins, the versions the client expects aside: the requirements are
\* controlled drafts, and each allocation rests on the current version of one.
Coherent(m) ==
  /\ \A p \in m.requirements : p.id \notin Legacy
  /\ \A p \in m.allocations :
       LET behind == Latest(allocation[p.id]).pin
       IN /\ \E q \in m.requirements : q.id = behind.id
          /\ Current(requirement, behind)

\* Broken variant: an assessment needs no change.
AnyReview(m) == m.review \in Reviews

\* The review is still what the client saw, and shows a change.
Assessable(m) == m.review \in Reviews /\ Changes(m.review) # {}

\* Broken variant: receipts are not looked up.
NeverKnown(key) == FALSE

Known(key) == key \in receipts

RequirementAcceptable(m) == m.pin # New => Current(requirement, m.pin) /\ m.pin.id \notin Legacy

AllocationAcceptable(m) ==
  /\ m.pin # New => Current(allocation, m.pin)
  /\ \A p \in m.requirements :
       /\ Current(requirement, p)
       /\ p.id \notin Legacy
       /\ m.pin # New => Latest(allocation[m.pin.id]).pin.id = p.id

\* Broken variant: the versions of the selected sources are not compared.
AnySourceVersion(m) == m.pin # New => Current(design, m.pin)

DesignAcceptable(m) ==
  /\ m.pin # New => Current(design, m.pin)
  /\ \A p \in m.requirements : Current(requirement, p)
  /\ \A p \in m.allocations : Current(allocation, p)

Acceptable(m) ==
  /\ m.op = "requirement" => RequirementAcceptable(m)
  /\ m.op = "allocation" => AllocationAcceptable(m)
  /\ m.op = "design" => DesignAcceptable(m)

\* The check that comes before the receipt is looked up.
Authorised(m) ==
  /\ m.op = "design" => Coherent(m)
  /\ m.op = "assess" => Assessable(m)

-----------------------------------------------------------------------------
(* How it is carried out. *)

Sending(c) == form[c] # None /\ told[c] = None

\* The answer reaches the client, or is lost and the command will be sent again.
Answer(c, reply) ==
  /\ \/ told' = [told EXCEPT ![c] = reply]
     \/ UNCHANGED told
  /\ UNCHANGED <<form, issued>>

Accepted(c, op) ==
  /\ Sending(c) /\ form[c].cmd.op = op
  /\ Authorised(form[c].cmd)
  /\ ~Known(form[c].key)
  /\ Acceptable(form[c].cmd)
  /\ receipts' = receipts \cup {form[c].key}
  /\ Answer(c, "done")

\* A revision goes to the record named, a first one to a new identifier.
Appended(table, pin, row) ==
  \E id \in DOMAIN table :
    /\ IF pin = New THEN table[id] = <<>> ELSE id = pin.id
    /\ table' = [table EXCEPT ![id] = Append(@, row)]

WriteRequirement(c) ==
  /\ Accepted(c, "requirement")
  /\ Appended(requirement, form[c].cmd.pin, [key |-> form[c].key])
  /\ UNCHANGED <<allocation, design, assessments>>

WriteAllocation(c) ==
  /\ Accepted(c, "allocation")
  /\ \E p \in form[c].cmd.requirements :
       Appended(allocation, form[c].cmd.pin,
                [key |-> form[c].key, pin |-> PinTo(requirement, p.id)])
  /\ UNCHANGED <<requirement, design, assessments>>

\* The pins are taken from the rows, not from the command.
WriteDesign(c) ==
  /\ Accepted(c, "design")
  /\ Appended(design, form[c].cmd.pin,
              [key |-> form[c].key,
               requirements |-> {PinTo(requirement, p.id) : p \in form[c].cmd.requirements},
               allocations |-> {PinTo(allocation, p.id) : p \in form[c].cmd.allocations}])
  /\ UNCHANGED <<requirement, allocation, assessments>>

Assess(c) ==
  /\ Accepted(c, "assess")
  /\ assessments' = Append(assessments, [key |-> form[c].key, review |-> form[c].cmd.review])
  /\ UNCHANGED <<requirement, allocation, design>>

\* A command that committed before is answered from its receipt.
Replay(c) ==
  /\ Sending(c) /\ Authorised(form[c].cmd) /\ Known(form[c].key)
  /\ Answer(c, "done")
  /\ UNCHANGED <<registers, receipts>>

Refuse(c) ==
  /\ Sending(c)
  /\ \/ ~Authorised(form[c].cmd)
     \/ ~Known(form[c].key) /\ ~Acceptable(form[c].cmd)
  /\ Answer(c, "refused")
  /\ UNCHANGED <<registers, receipts>>

PinsInit ==
  /\ requirement = [r \in Requirements |-> IF r \in Established THEN <<[key |-> 0]>> ELSE <<>>]
  /\ allocation = [a \in Allocations |-> <<>>]
  /\ design = [d \in Designs |-> <<>>]
  /\ assessments = <<>> /\ receipts = {} /\ issued = 0
  /\ form = [c \in Clients |-> None]
  /\ told = [c \in Clients |-> None]

PinsStep(c) ==
  \/ Prepare(c)
  \/ WriteRequirement(c) \/ WriteAllocation(c) \/ WriteDesign(c) \/ Assess(c)
  \/ Replay(c) \/ Refuse(c)

PinsNext == \E c \in Clients : PinsStep(c)

PinsSpec == PinsInit /\ [][PinsNext]_pinsVars

-----------------------------------------------------------------------------
(* Properties. *)

Pin(table) == [id: DOMAIN table, version: Nat \ {0}]

\* Every register holds revisions that pin existing records; every key in use was issued.
PinsTypeOK ==
  /\ \A r \in Requirements : \A i \in DOMAIN requirement[r] : requirement[r][i].key \in 0..issued
  /\ \A a \in Allocations : \A i \in DOMAIN allocation[a] : allocation[a][i].pin \in Pin(requirement)
  /\ \A d \in Designs : \A i \in DOMAIN design[d] :
       /\ design[d][i].requirements \subseteq Pin(requirement)
       /\ design[d][i].allocations \subseteq Pin(allocation)
  /\ receipts \subseteq 1..issued
  /\ told \in [Clients -> {None, "done", "refused"}]

DesignsJudgedAlike ==
  \A d \in Recorded(design) :
    /\ StaleDesign(d) <=> Changes(Review(d, Len(design[d]), DesignSources(d))) # {}
    /\ ~StaleDesign(d) => \A p \in Latest(design[d]).allocations : ~StaleAllocation(p.id)

AssessedStaysStale ==
  \A i \in DOMAIN assessments :
    \/ \E a \in Recorded(allocation) :
         assessments[i].review.target = a /\ (assessments[i].review.version = Len(allocation[a]) => StaleAllocation(a))
    \/ \E d \in Recorded(design) :
         assessments[i].review.target = d /\ (assessments[i].review.version = Len(design[d]) => StaleDesign(d))

\* The design register and the impact review decide on staleness apart, the one
\* from a design's own pins, the other also from the requirements behind its pinned
\* allocations; they agree, and behind a fresh design nothing is stale.  An
\* assessment settles nothing: as long as the version it assessed is the current
\* one, that target is stale.
RegistersAgree == DesignsJudgedAlike /\ AssessedStaysStale

Revisions(table) == UNION {{<<id, i>> : i \in DOMAIN table[id]} : id \in DOMAIN table}

Keyed(table, key) == {x \in Revisions(table) : table[x[1]][x[2]].key = key}

WrittenUnder(key) ==
  {<<"requirement", x>> : x \in Keyed(requirement, key)}
  \cup {<<"allocation", x>> : x \in Keyed(allocation, key)}
  \cup {<<"design", x>> : x \in Keyed(design, key)}
  \cup {<<"assessment", i>> : i \in {j \in DOMAIN assessments : assessments[j].key = key}}

WrittenOnce ==
  /\ \A key \in 1..issued : \A x, y \in WrittenUnder(key) : x = y
  /\ \A c \in Clients : told[c] = "done" => WrittenUnder(form[c].key) # {}

RetriesAnswered ==
  \A c \in Clients :
    LET m == form[c].cmd IN
    told[c] = "refused" /\ WrittenUnder(form[c].key) # {} =>
      \/ /\ m.op = "design"
         /\ \/ \E p \in m.requirements : ~Current(requirement, p)
            \/ \E p \in m.allocations : ~Current(allocation, p)
      \/ m.op = "assess" /\ m.review \notin Reviews

\* A command writes one revision or assessment however often it is sent, and a
\* client is told that it is done only if it did.  A client whose command was
\* recorded is told that it was refused only if it was a design or an assessment,
\* for which the sources are checked again before the receipt is looked up, and the
\* sources have moved since.
CommandsSettled == WrittenOnce /\ RetriesAnswered

\* What a design revision pins, and the revision it follows, is what its author
\* was shown when preparing it, whatever others did in the meantime.
DesignedAsShown ==
  [][\A d \in Designs : design'[d] # design[d] =>
       \E c \in Clients :
         /\ Sending(c)
         /\ form[c].cmd.pin \in {New, PinTo(design, d)}
         /\ Latest(design'[d]).requirements = form[c].cmd.requirements
         /\ Latest(design'[d]).allocations = form[c].cmd.allocations]_pinsVars
=============================================================================
