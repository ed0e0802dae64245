--------------------------- MODULE SourcePinsProofs ---------------------------
(***************************************************************************)
(* The registers agree, every command is settled once, and designs rest on *)
(* what their authors were shown, for any records and any clients.         *)
(*                                                                         *)
(* Histories only grow.  What a pin names therefore stays there, a pin     *)
(* that is not current never becomes so again, and a review that is no     *)
(* longer what the registers show never is again.  The other half is about *)
(* keys: a key has a receipt exactly if something was written under it,    *)
(* and clients never share one.                                            *)
(***************************************************************************)
EXTENDS SourcePins, SequenceTheorems, TLAPS

-----------------------------------------------------------------------------
(* The invariant. *)

Pins(S) == [id: S, version: Nat \ {0}]

RequirementRow == [key: Nat]
AllocationRow == [key: Nat, pin: Pins(Requirements)]
DesignRow == [key: Nat, requirements: SUBSET Pins(Requirements), allocations: SUBSET Pins(Allocations)]
SourceRow == [kind: {"requirement"}, id: Requirements, pinned: Nat, current: Nat]
             \cup [kind: {"allocation"}, id: Allocations, pinned: Nat, current: Nat]
ReviewRow == [target: Allocations \cup Designs, version: Nat, sources: SUBSET SourceRow]
AssessmentRow == [key: Nat, review: ReviewRow]

Cmd == [op: {"requirement", "allocation", "design", "assess"},
        pin: [id: Requirements \cup Allocations \cup Designs \cup {None}, version: Nat],
        requirements: SUBSET Pins(Requirements), allocations: SUBSET Pins(Allocations),
        review: ReviewRow \cup {None}]

Form == [key: 1..issued, cmd: Cmd]

Types ==
  /\ requirement \in [Requirements -> Seq(RequirementRow)]
  /\ allocation \in [Allocations -> Seq(AllocationRow)]
  /\ design \in [Designs -> Seq(DesignRow)]
  /\ assessments \in Seq(AssessmentRow)
  /\ issued \in Nat /\ receipts \subseteq 1..issued
  /\ form \in [Clients -> {None} \cup Form]
  /\ told \in [Clients -> {None, "done", "refused"}]

\* The revision that a pin names exists.
Held(table, pin) == pin.version <= Len(table[pin.id])

PinsHeld ==
  /\ \A a \in Allocations : \A i \in 1..Len(allocation[a]) : Held(requirement, allocation[a][i].pin)
  /\ \A d \in Designs : \A i \in 1..Len(design[d]) :
       /\ \A p \in design[d][i].requirements : Held(requirement, p)
       /\ \A p \in design[d][i].allocations : Held(allocation, p)
  /\ \A c \in Clients : form[c] # None =>
       /\ \A p \in form[c].cmd.requirements : Held(requirement, p)
       /\ \A p \in form[c].cmd.allocations : Held(allocation, p)

\* Every pinned allocation revision rests on one of the pinned requirement revisions.
RestingOn(rs, as) ==
  /\ \A p \in rs : p.id \notin Legacy
  /\ \A p \in as : allocation[p.id][p.version].pin \in rs

DesignsRest ==
  \A d \in Designs : \A i \in 1..Len(design[d]) :
    RestingOn(design[d][i].requirements, design[d][i].allocations)

\* A review was made of revisions that exist.
Seen(v) ==
  /\ v.target \in Allocations => v.version <= Len(allocation[v.target])
  /\ v.target \in Designs => v.version <= Len(design[v.target])
  /\ \A s \in v.sources :
       /\ s.kind = "requirement" => s.current <= Len(requirement[s.id])
       /\ s.kind = "allocation" => s.current <= Len(allocation[s.id])

ReviewsSeen ==
  /\ \A i \in 1..Len(assessments) : Seen(assessments[i].review)
  /\ \A c \in Clients : form[c] # None /\ form[c].cmd.op = "assess" =>
       form[c].cmd.review \in ReviewRow /\ Seen(form[c].cmd.review)

PinKeys == Nat \ {0}

KeysSettled ==
  /\ \A k \in PinKeys : WrittenUnder(k) # {} <=> k \in receipts
  /\ \A k \in PinKeys : \A x, y \in WrittenUnder(k) : x = y

Outdated(m) ==
  \/ /\ m.op = "design"
     /\ \/ \E p \in m.requirements : ~Current(requirement, p)
        \/ \E p \in m.allocations : ~Current(allocation, p)
  \/ m.op = "assess" /\ m.review \notin Reviews

OwnKeys ==
  /\ \A c, e \in Clients : form[c] # None /\ form[e] # None /\ form[c].key = form[e].key => c = e
  /\ \A c \in Clients : told[c] # None => form[c] # None

\* What is known of a command that was carried out.
Carried(m) ==
  /\ m.op = "design" => RestingOn(m.requirements, m.allocations)
  /\ m.op = "assess" => Changes(m.review) # {}

FormsSettled ==
  \A c \in Clients : form[c] # None =>
    /\ form[c].key \in receipts => Carried(form[c].cmd)
    /\ told[c] = "done" => form[c].key \in receipts
    /\ told[c] = "refused" /\ form[c].key \in receipts => Outdated(form[c].cmd)

PinsInvariant ==
  Types /\ PinsHeld /\ DesignsRest /\ ReviewsSeen /\ KeysSettled /\ OwnKeys /\ FormsSettled
  /\ AssessedStaysStale

-----------------------------------------------------------------------------
(* Appending to a history. *)

LEMMA Appending ==
  ASSUME NEW S, NEW R, NEW table \in [S -> Seq(R)], NEW id \in S, NEW row \in R,
         NEW new, new = [table EXCEPT ![id] = Append(@, row)]
  PROVE  /\ new \in [S -> Seq(R)]
         /\ Len(new[id]) = Len(table[id]) + 1 /\ Len(table[id]) \in Nat
         /\ new[id][Len(table[id]) + 1] = row
         /\ \A j \in S : j # id => new[j] = table[j]
         /\ \A j \in S : /\ Len(table[j]) <= Len(new[j])
                         /\ \A i \in 1..Len(table[j]) : new[j][i] = table[j][i]
<1> DEFINE h == table[id]
<1>1. h \in Seq(R) /\ Len(h) \in Nat
  OBVIOUS
<1>2. /\ Append(h, row) \in Seq(R) /\ Len(Append(h, row)) = Len(h) + 1
      /\ Append(h, row)[Len(h) + 1] = row
      /\ \A i \in 1..Len(h) : Append(h, row)[i] = h[i]
  BY <1>1
<1>3. new[id] = Append(h, row) /\ \A j \in S : j # id => new[j] = table[j]
  OBVIOUS
<1>4. new \in [S -> Seq(R)]
  BY <1>2, <1>3
<1>5. \A j \in S : Len(table[j]) \in Nat
  OBVIOUS
<1> QED
  BY <1>1, <1>2, <1>3, <1>4, <1>5

LEMMA KeyedAre ==
  ASSUME NEW table, NEW k, \A j \in DOMAIN table : DOMAIN table[j] = 1..Len(table[j])
  PROVE  \A x : x \in Keyed(table, k) <=>
           \E j \in DOMAIN table : \E i \in 1..Len(table[j]) : x = <<j, i>> /\ table[j][i].key = k
<1>1. \A x : x \in Revisions(table) <=>
        \E j \in DOMAIN table : \E i \in 1..Len(table[j]) : x = <<j, i>>
  BY DEF Revisions
<1> QED
  BY <1>1 DEF Keyed

LEMMA KeyedAppended ==
  ASSUME NEW old, NEW new, NEW id \in DOMAIN old, NEW row, NEW k, NEW n,
         DOMAIN new = DOMAIN old,
         \A j \in DOMAIN old : DOMAIN old[j] = 1..Len(old[j]) /\ DOMAIN new[j] = 1..Len(new[j]),
         Len(old[id]) \in Nat, n = Len(old[id]) + 1, Len(new[id]) = n, new[id][n] = row,
         \A j \in DOMAIN old : j # id => new[j] = old[j],
         \A i \in 1..Len(old[id]) : new[id][i] = old[id][i]
  PROVE  Keyed(new, k) = Keyed(old, k) \cup (IF row.key = k THEN {<<id, n>>} ELSE {})
<1>0. /\ \A j \in DOMAIN old : DOMAIN old[j] = 1..Len(old[j])
      /\ \A j \in DOMAIN new : DOMAIN new[j] = 1..Len(new[j])
      /\ DOMAIN new = DOMAIN old
  OBVIOUS
<1>1. 1..n = 1..Len(old[id]) \cup {n}
  OBVIOUS
<1>2. \A x : x \in Keyed(old, k) <=>
        \E j \in DOMAIN old : \E i \in 1..Len(old[j]) : x = <<j, i>> /\ old[j][i].key = k
  BY ONLY <1>0, KeyedAre
<1>3. \A x : x \in Keyed(new, k) <=>
        \E j \in DOMAIN old : \E i \in 1..Len(new[j]) : x = <<j, i>> /\ new[j][i].key = k
  BY ONLY <1>0, KeyedAre
<1>4. ASSUME NEW x, x \in Keyed(new, k)
      PROVE  x \in Keyed(old, k) \cup (IF row.key = k THEN {<<id, n>>} ELSE {})
  <2>1. PICK j \in DOMAIN old : \E i \in 1..Len(new[j]) : x = <<j, i>> /\ new[j][i].key = k
    BY <1>3, <1>4
  <2> PICK i \in 1..Len(new[j]) : x = <<j, i>> /\ new[j][i].key = k
    BY <2>1
  <2>2. CASE j # id
    BY <2>2, <1>2
  <2>3. CASE j = id /\ i = n
    BY <2>3
  <2>4. CASE j = id /\ i \in 1..Len(old[id])
    BY <2>4, <1>2
  <2> QED
    BY <1>1, <2>2, <2>3, <2>4
<1>5. ASSUME NEW x, x \in Keyed(old, k) PROVE x \in Keyed(new, k)
  <2>1. PICK j \in DOMAIN old : \E i \in 1..Len(old[j]) : x = <<j, i>> /\ old[j][i].key = k
    BY <1>2, <1>5
  <2> PICK i \in 1..Len(old[j]) : x = <<j, i>> /\ old[j][i].key = k
    BY <2>1
  <2>2. i \in 1..Len(new[j]) /\ new[j][i] = old[j][i]
    <3>1. CASE j # id
      BY <3>1
    <3>2. CASE j = id
      BY <1>1, <3>2
    <3> QED
      BY <3>1, <3>2
  <2> QED
    BY <2>2, <1>3
<1>6. ASSUME row.key = k PROVE <<id, n>> \in Keyed(new, k)
  <2>1. n \in 1..Len(new[id])
    OBVIOUS
  <2> QED
    BY <1>6, <2>1, <1>3
<1> QED
  BY <1>4, <1>5, <1>6

-----------------------------------------------------------------------------
(* Histories only grow. *)

Growing ==
  /\ \A r \in Requirements : Len(requirement[r]) <= Len(requirement'[r])
  /\ \A a \in Allocations : /\ Len(allocation[a]) <= Len(allocation'[a])
                            /\ \A i \in 1..Len(allocation[a]) : allocation'[a][i] = allocation[a][i]
  /\ \A d \in Designs : /\ Len(design[d]) <= Len(design'[d])
                        /\ \A i \in 1..Len(design[d]) : design'[d][i] = design[d][i]

LEMMA Lengths ==
  ASSUME Types
  PROVE  /\ \A r \in Requirements : Len(requirement[r]) \in Nat /\ DOMAIN requirement[r] = 1..Len(requirement[r])
         /\ \A a \in Allocations : Len(allocation[a]) \in Nat /\ DOMAIN allocation[a] = 1..Len(allocation[a])
         /\ \A d \in Designs : Len(design[d]) \in Nat /\ DOMAIN design[d] = 1..Len(design[d])
         /\ Len(assessments) \in Nat /\ DOMAIN assessments = 1..Len(assessments)
         /\ \A a \in Allocations : \A i \in 1..Len(allocation[a]) : allocation[a][i] \in AllocationRow
         /\ \A d \in Designs : \A i \in 1..Len(design[d]) : design[d][i] \in DesignRow
         /\ \A i \in 1..Len(assessments) : assessments[i] \in AssessmentRow
<1>1. \A r \in Requirements : requirement[r] \in Seq(RequirementRow)
  BY DEF Types
<1>2. \A a \in Allocations : allocation[a] \in Seq(AllocationRow)
  BY DEF Types
<1>3. \A d \in Designs : design[d] \in Seq(DesignRow)
  BY DEF Types
<1>4. assessments \in Seq(AssessmentRow)
  BY DEF Types
<1> QED
  BY <1>1, <1>2, <1>3, <1>4, LenProperties, ElementOfSeq

LEMMA HeldStays ==
  ASSUME Types, Types', Growing
  PROVE  /\ \A p \in Pins(Requirements) : Held(requirement, p) => Held(requirement', p)
         /\ \A p \in Pins(Allocations) : Held(allocation, p) => Held(allocation', p)
<1>1. \A r \in Requirements : Len(requirement[r]) \in Nat /\ Len(requirement'[r]) \in Nat
                              /\ Len(requirement[r]) <= Len(requirement'[r])
  BY Lengths DEF Growing, Types
<1>2. \A a \in Allocations : Len(allocation[a]) \in Nat /\ Len(allocation'[a]) \in Nat
                             /\ Len(allocation[a]) <= Len(allocation'[a])
  BY Lengths DEF Growing, Types
<1> QED
  BY <1>1, <1>2 DEF Held, Pins

\* A pin that is not current never becomes so again.
LEMMA StaleStays ==
  ASSUME Types, Types', Growing
  PROVE  /\ \A p \in Pins(Requirements) :
              Held(requirement, p) /\ ~Current(requirement, p) => ~Current(requirement', p)
         /\ \A p \in Pins(Allocations) :
              Held(allocation, p) /\ ~Current(allocation, p) => ~Current(allocation', p)
<1>1. \A r \in Requirements : Len(requirement[r]) \in Nat /\ Len(requirement'[r]) \in Nat
                              /\ Len(requirement[r]) <= Len(requirement'[r])
  BY Lengths DEF Growing, Types
<1>2. \A a \in Allocations : Len(allocation[a]) \in Nat /\ Len(allocation'[a]) \in Nat
                             /\ Len(allocation[a]) <= Len(allocation'[a])
  BY Lengths DEF Growing, Types
<1> QED
  BY <1>1, <1>2 DEF Held, Pins, Current

LEMMA RestingStays ==
  ASSUME Types, Types', Growing, NEW rs, NEW as \in SUBSET Pins(Allocations),
         \A p \in as : Held(allocation, p), RestingOn(rs, as)
  PROVE  RestingOn(rs, as)'
<1>0. \A a \in Allocations : Len(allocation[a]) \in Nat
  BY Lengths
<1>1. \A p \in as : p.id \in Allocations /\ p.version \in 1..Len(allocation[p.id])
  <2> SUFFICES ASSUME NEW p \in as
               PROVE  p.id \in Allocations /\ p.version \in 1..Len(allocation[p.id])
    OBVIOUS
  <2>1. p.id \in Allocations /\ p.version \in Nat \ {0}
    BY DEF Pins
  <2>2. p.version <= Len(allocation[p.id])
    BY DEF Held
  <2> QED
    BY <1>0, <2>1, <2>2
<1>2. \A p \in as : allocation'[p.id][p.version] = allocation[p.id][p.version]
  BY <1>1 DEF Growing
<1> QED
  BY <1>2 DEF RestingOn

LEMMA SeenStays ==
  ASSUME Types, Types', Growing, NEW v \in ReviewRow, Seen(v)
  PROVE  Seen(v)'
<1>1. /\ v.target \in Allocations => Len(allocation[v.target]) <= Len(allocation'[v.target])
      /\ v.target \in Designs => Len(design[v.target]) <= Len(design'[v.target])
      /\ v.version \in Nat
  BY DEF Growing, ReviewRow
<1>2. \A s \in v.sources :
        /\ s.current \in Nat
        /\ s.kind = "requirement" => s.id \in Requirements
        /\ s.kind = "allocation" => s.id \in Allocations
  BY DEF ReviewRow, SourceRow
<1>3. /\ \A r \in Requirements : Len(requirement[r]) \in Nat /\ Len(requirement'[r]) \in Nat
      /\ \A a \in Allocations : Len(allocation[a]) \in Nat /\ Len(allocation'[a]) \in Nat
      /\ \A d \in Designs : Len(design[d]) \in Nat /\ Len(design'[d]) \in Nat
  BY Lengths DEF Types
<1>4. \A s \in v.sources :
        /\ s.kind = "requirement" => Len(requirement[s.id]) <= Len(requirement'[s.id])
        /\ s.kind = "allocation" => Len(allocation[s.id]) <= Len(allocation'[s.id])
  BY <1>2 DEF Growing
<1>5. v.target \in Allocations => v.version <= Len(allocation'[v.target])
  BY <1>1, <1>3 DEF Seen
<1>6. v.target \in Designs => v.version <= Len(design'[v.target])
  BY <1>1, <1>3 DEF Seen
<1>7. ASSUME NEW s \in v.sources
      PROVE  /\ s.kind = "requirement" => s.current <= Len(requirement'[s.id])
             /\ s.kind = "allocation" => s.current <= Len(allocation'[s.id])
  BY <1>2, <1>3, <1>4 DEF Seen
<1> QED
  BY <1>5, <1>6, <1>7 DEF Seen

-----------------------------------------------------------------------------
(* Staleness and reviews. *)

LEMMA AllocationRows ==
  ASSUME Types, PinsHeld, NEW a \in Allocations, NEW i \in 1..Len(allocation[a])
  PROVE  /\ allocation[a][i].pin \in Pins(Requirements)
         /\ allocation[a][i].pin.id \in Requirements /\ allocation[a][i].pin.version \in Nat \ {0}
         /\ allocation[a][i].pin.version <= Len(requirement[allocation[a][i].pin.id])
<1>1. allocation[a][i] \in AllocationRow
  BY Lengths
<1>2. allocation[a][i].pin \in Pins(Requirements)
  BY <1>1 DEF AllocationRow
<1> QED
  BY <1>2 DEF Pins, PinsHeld, Held

LEMMA DesignRows ==
  ASSUME Types, PinsHeld, NEW d \in Designs, NEW i \in 1..Len(design[d])
  PROVE  /\ design[d][i].requirements \in SUBSET Pins(Requirements)
         /\ design[d][i].allocations \in SUBSET Pins(Allocations)
         /\ \A p \in design[d][i].requirements :
              p.id \in Requirements /\ p.version \in Nat \ {0} /\ p.version <= Len(requirement[p.id])
         /\ \A p \in design[d][i].allocations :
              /\ p.id \in Allocations /\ p.version \in 1..Len(allocation[p.id])
              /\ Held(allocation, p)
<1>1. design[d][i] \in DesignRow
  BY Lengths
<1>2. /\ design[d][i].requirements \in SUBSET Pins(Requirements)
      /\ design[d][i].allocations \in SUBSET Pins(Allocations)
  BY <1>1 DEF DesignRow
<1>3. ASSUME NEW p \in design[d][i].requirements
      PROVE  p.id \in Requirements /\ p.version \in Nat \ {0} /\ p.version <= Len(requirement[p.id])
  BY <1>2 DEF Pins, PinsHeld, Held
<1>4. ASSUME NEW p \in design[d][i].allocations
      PROVE  /\ p.id \in Allocations /\ p.version \in 1..Len(allocation[p.id])
             /\ Held(allocation, p)
  <2>1. p.id \in Allocations /\ p.version \in Nat \ {0}
    BY <1>2 DEF Pins
  <2>2. Held(allocation, p)
    BY DEF PinsHeld
  <2>3. Len(allocation[p.id]) \in Nat /\ p.version <= Len(allocation[p.id])
    BY <2>1, <2>2, Lengths DEF Held
  <2> QED
    BY <2>1, <2>2, <2>3
<1> QED
  BY <1>2, <1>3, <1>4

\* Records that exist have a latest revision.
LEMMA LatestRows ==
  ASSUME Types
  PROVE  /\ \A a \in Recorded(allocation) :
              a \in Allocations /\ Len(allocation[a]) \in 1..Len(allocation[a])
         /\ \A d \in Recorded(design) :
              d \in Designs /\ Len(design[d]) \in 1..Len(design[d])
         /\ \A r \in Recorded(requirement) :
              r \in Requirements /\ Len(requirement[r]) \in 1..Len(requirement[r])
<1>1. /\ DOMAIN allocation = Allocations /\ DOMAIN design = Designs
      /\ DOMAIN requirement = Requirements
  BY DEF Types
<1>2. ASSUME NEW a \in Allocations, allocation[a] # <<>>
      PROVE  Len(allocation[a]) \in 1..Len(allocation[a])
  <2>1. allocation[a] \in Seq(AllocationRow)
    BY DEF Types
  <2> QED
    BY <1>2, <2>1, EmptySeq
<1>3. ASSUME NEW d \in Designs, design[d] # <<>>
      PROVE  Len(design[d]) \in 1..Len(design[d])
  <2>1. design[d] \in Seq(DesignRow)
    BY DEF Types
  <2> QED
    BY <1>3, <2>1, EmptySeq
<1>4. ASSUME NEW r \in Requirements, requirement[r] # <<>>
      PROVE  Len(requirement[r]) \in 1..Len(requirement[r])
  <2>1. requirement[r] \in Seq(RequirementRow)
    BY DEF Types
  <2> QED
    BY <1>4, <2>1, EmptySeq
<1> QED
  BY <1>1, <1>2, <1>3, <1>4 DEF Recorded

SourcesOf(d) ==
  {Source("requirement", requirement, p) :
     p \in Latest(design[d]).requirements
           \cup {allocation[q.id][q.version].pin : q \in Latest(design[d]).allocations}}
  \cup {Source("allocation", allocation, p) : p \in Latest(design[d]).allocations}

LEMMA DesignSourcesAre ==
  ASSUME NEW d PROVE DesignSources(d) = SourcesOf(d)
  BY DEF DesignSources, SourcesOf

\* A design is stale exactly if a review of it shows a change.
LEMMA StaleShows ==
  ASSUME Types, PinsHeld, DesignsRest, NEW d \in Recorded(design)
  PROVE  StaleDesign(d) <=> Changes(Review(d, Len(design[d]), DesignSources(d))) # {}
<1> DEFINE row == Latest(design[d])
           n == Len(design[d])
<1>1. d \in Designs /\ n \in 1..n /\ row = design[d][n]
  BY LatestRows DEF Latest
<1>2. RestingOn(row.requirements, row.allocations)
  BY <1>1 DEF DesignsRest
<1>3. Changes(Review(d, n, DesignSources(d))) = {s \in SourcesOf(d) : s.pinned # s.current}
  BY DesignSourcesAre DEF Changes, Review
<1>4. ASSUME StaleDesign(d) PROVE \E s \in SourcesOf(d) : s.pinned # s.current
  <2>1. CASE \E p \in row.requirements : ~Current(requirement, p)
    <3>1. PICK p \in row.requirements : ~Current(requirement, p)
      BY <2>1
    <3>2. Source("requirement", requirement, p) \in SourcesOf(d)
      BY DEF SourcesOf
    <3>3. Source("requirement", requirement, p).pinned # Source("requirement", requirement, p).current
      BY <3>1 DEF Source, Current
    <3> QED
      BY <3>2, <3>3
  <2>2. CASE \E p \in row.allocations : ~Current(allocation, p)
    <3>1. PICK p \in row.allocations : ~Current(allocation, p)
      BY <2>2
    <3>2. Source("allocation", allocation, p) \in SourcesOf(d)
      BY DEF SourcesOf
    <3>3. Source("allocation", allocation, p).pinned # Source("allocation", allocation, p).current
      BY <3>1 DEF Source, Current
    <3> QED
      BY <3>2, <3>3
  <2> QED
    BY <1>4, <2>1, <2>2 DEF StaleDesign
<1>5. ASSUME NEW s \in SourcesOf(d), s.pinned # s.current PROVE StaleDesign(d)
  <2>1. CASE \E p \in row.requirements : s = Source("requirement", requirement, p)
    BY <1>5, <2>1 DEF Source, Current, StaleDesign
  <2>2. CASE \E q \in row.allocations : s = Source("requirement", requirement, allocation[q.id][q.version].pin)
    <3>1. PICK q \in row.allocations : s = Source("requirement", requirement, allocation[q.id][q.version].pin)
      BY <2>2
    <3>2. allocation[q.id][q.version].pin \in row.requirements
      BY <1>2 DEF RestingOn
    <3> QED
      BY <1>5, <3>1, <3>2 DEF Source, Current, StaleDesign
  <2>3. CASE \E p \in row.allocations : s = Source("allocation", allocation, p)
    BY <1>5, <2>3 DEF Source, Current, StaleDesign
  <2> QED
    BY <2>1, <2>2, <2>3 DEF SourcesOf
<1> QED
  BY <1>3, <1>4, <1>5

LEMMA FreshAllTheWay ==
  ASSUME Types, PinsHeld, DesignsRest, NEW d \in Recorded(design), ~StaleDesign(d),
         NEW p \in Latest(design[d]).allocations
  PROVE  ~StaleAllocation(p.id)
<1> DEFINE row == Latest(design[d])
           n == Len(design[d])
<1>1. d \in Designs /\ n \in 1..n /\ row = design[d][n]
  BY LatestRows DEF Latest
<1>2. allocation[p.id][p.version].pin \in row.requirements
  BY <1>1 DEF DesignsRest, RestingOn
<1>3. p.version = Len(allocation[p.id])
  BY DEF StaleDesign, Current
<1>4. Current(requirement, allocation[p.id][p.version].pin)
  BY <1>2 DEF StaleDesign
<1> QED
  BY <1>3, <1>4 DEF StaleAllocation, Latest

\* Revisions that stayed the latest are as they were.
LEMMA SameLatest ==
  ASSUME Types, Types', Growing
  PROVE  /\ \A a \in Recorded(allocation) :
              /\ a \in Recorded(allocation)'
              /\ Len(allocation'[a]) = Len(allocation[a]) => Latest(allocation'[a]) = Latest(allocation[a])
         /\ \A d \in Recorded(design) :
              /\ d \in Recorded(design)'
              /\ Len(design'[d]) = Len(design[d]) => Latest(design'[d]) = Latest(design[d])
<1>1. ASSUME NEW a \in Recorded(allocation)
      PROVE  /\ a \in Recorded(allocation)'
             /\ Len(allocation'[a]) = Len(allocation[a]) => Latest(allocation'[a]) = Latest(allocation[a])
  <2>1. a \in Allocations /\ Len(allocation[a]) \in 1..Len(allocation[a])
    BY LatestRows
  <2>2. allocation'[a] \in Seq(AllocationRow) /\ a \in DOMAIN allocation'
    BY <2>1 DEF Types
  <2>3. Len(allocation[a]) <= Len(allocation'[a])
    BY <2>1 DEF Growing
  <2>4. allocation'[a] # <<>>
    BY <2>1, <2>2, <2>3
  <2>5. allocation'[a][Len(allocation[a])] = allocation[a][Len(allocation[a])]
    BY <2>1 DEF Growing
  <2> QED
    BY <2>2, <2>4, <2>5 DEF Recorded, Latest
<1>2. ASSUME NEW d \in Recorded(design)
      PROVE  /\ d \in Recorded(design)'
             /\ Len(design'[d]) = Len(design[d]) => Latest(design'[d]) = Latest(design[d])
  <2>1. d \in Designs /\ Len(design[d]) \in 1..Len(design[d])
    BY LatestRows
  <2>2. design'[d] \in Seq(DesignRow) /\ d \in DOMAIN design'
    BY <2>1 DEF Types
  <2>3. Len(design[d]) <= Len(design'[d])
    BY <2>1 DEF Growing
  <2>4. design'[d] # <<>>
    BY <2>1, <2>2, <2>3
  <2>5. design'[d][Len(design[d])] = design[d][Len(design[d])]
    BY <2>1 DEF Growing
  <2> QED
    BY <2>2, <2>4, <2>5 DEF Recorded, Latest
<1> QED
  BY <1>1, <1>2

\* The target of a review is stale as long as the version reviewed is current.
StaysStale(v) ==
  \/ \E a \in Recorded(allocation) :
       v.target = a /\ (v.version = Len(allocation[a]) => StaleAllocation(a))
  \/ \E d \in Recorded(design) :
       v.target = d /\ (v.version = Len(design[d]) => StaleDesign(d))

LEMMA StaleReviewStays ==
  ASSUME Types, Types', Growing, PinsHeld, NEW v \in ReviewRow, Seen(v), StaysStale(v)
  PROVE  StaysStale(v)'
<1>1. ASSUME NEW a \in Recorded(allocation), v.target = a,
             v.version = Len(allocation[a]) => StaleAllocation(a)
      PROVE  StaysStale(v)'
  <2>1. a \in Allocations /\ Len(allocation[a]) \in 1..Len(allocation[a])
    BY LatestRows
  <2>2. v.version <= Len(allocation[a]) /\ Len(allocation[a]) <= Len(allocation'[a])
    BY <1>1, <2>1 DEF Seen, Growing
  <2>3. Len(allocation'[a]) \in Nat /\ v.version \in Nat /\ Len(allocation[a]) \in Nat
    BY <2>1, Lengths DEF Types, ReviewRow
  <2>4. v.version = Len(allocation'[a]) => StaleAllocation(a)'
    <3> SUFFICES ASSUME v.version = Len(allocation'[a]) PROVE StaleAllocation(a)'
      OBVIOUS
    <3>1. v.version = Len(allocation[a]) /\ Len(allocation'[a]) = Len(allocation[a])
      BY <2>2, <2>3
    <3>2. ~Current(requirement, Latest(allocation[a]).pin)
      BY <3>1, <1>1 DEF StaleAllocation
    <3>3. Latest(allocation'[a]) = Latest(allocation[a])
      BY <3>1, SameLatest
    <3>4. Latest(allocation[a]).pin \in Pins(Requirements) /\ Held(requirement, Latest(allocation[a]).pin)
      BY <2>1, AllocationRows DEF Latest, Held
    <3>5. ~Current(requirement', Latest(allocation[a]).pin)
      BY <3>2, <3>4, StaleStays
    <3> QED
      BY <3>3, <3>5 DEF StaleAllocation
  <2>5. a \in Recorded(allocation)'
    BY SameLatest
  <2> QED
    BY <1>1, <2>4, <2>5 DEF StaysStale
<1>2. ASSUME NEW d \in Recorded(design), v.target = d,
             v.version = Len(design[d]) => StaleDesign(d)
      PROVE  StaysStale(v)'
  <2>1. d \in Designs /\ Len(design[d]) \in 1..Len(design[d])
    BY LatestRows
  <2>2. v.version <= Len(design[d]) /\ Len(design[d]) <= Len(design'[d])
    BY <1>2, <2>1 DEF Seen, Growing
  <2>3. Len(design'[d]) \in Nat /\ v.version \in Nat /\ Len(design[d]) \in Nat
    BY <2>1, Lengths DEF Types, ReviewRow
  <2>4. v.version = Len(design'[d]) => StaleDesign(d)'
    <3> SUFFICES ASSUME v.version = Len(design'[d]) PROVE StaleDesign(d)'
      OBVIOUS
    <3> DEFINE row == Latest(design[d])
    <3>1. v.version = Len(design[d]) /\ Len(design'[d]) = Len(design[d])
      BY <2>2, <2>3
    <3>2. Latest(design'[d]) = row
      BY <3>1, SameLatest
    <3>3. /\ row.requirements \in SUBSET Pins(Requirements)
          /\ row.allocations \in SUBSET Pins(Allocations)
          /\ \A p \in row.requirements : Held(requirement, p)
          /\ \A p \in row.allocations : Held(allocation, p)
      BY <2>1, DesignRows DEF Latest, PinsHeld
    <3>4. \/ \E p \in row.requirements : ~Current(requirement, p)
          \/ \E p \in row.allocations : ~Current(allocation, p)
      BY <3>1, <1>2 DEF StaleDesign
    <3>5. \/ \E p \in row.requirements : ~Current(requirement', p)
          \/ \E p \in row.allocations : ~Current(allocation', p)
      BY <3>3, <3>4, StaleStays
    <3> QED
      BY <3>2, <3>5 DEF StaleDesign
  <2>5. d \in Recorded(design)'
    BY SameLatest
  <2> QED
    BY <1>2, <2>4, <2>5 DEF StaysStale
<1> QED
  BY <1>1, <1>2 DEF StaysStale

\* What a review that shows a change is about is stale.
LEMMA ChangedIsStale ==
  ASSUME Types, PinsHeld, DesignsRest, NEW v \in Reviews, Changes(v) # {}
  PROVE  StaysStale(v)
<1>1. ASSUME NEW a \in Recorded(allocation), v = Review(a, Len(allocation[a]), AllocationSources(a))
      PROVE  StaysStale(v)
  <2>1. v.target = a
    BY <1>1 DEF Review
  <2>2. StaleAllocation(a)
    BY <1>1 DEF Review, Changes, AllocationSources, Source, StaleAllocation, Current
  <2> QED
    BY <2>1, <2>2 DEF StaysStale
<1>2. ASSUME NEW d \in Recorded(design), v = Review(d, Len(design[d]), DesignSources(d))
      PROVE  StaysStale(v)
  <2>1. v.target = d
    BY <1>2 DEF Review
  <2>2. StaleDesign(d)
    BY <1>2, StaleShows
  <2> QED
    BY <2>1, <2>2 DEF StaysStale
<1> QED
  BY <1>1, <1>2 DEF Reviews

LEMMA SourceRows ==
  ASSUME Types
  PROVE  /\ \A p \in Pins(Requirements) :
              /\ Source("requirement", requirement, p) \in SourceRow
              /\ Source("requirement", requirement, p).kind = "requirement"
              /\ Source("requirement", requirement, p).id = p.id
              /\ Source("requirement", requirement, p).current = Len(requirement[p.id])
         /\ \A p \in Pins(Allocations) :
              /\ Source("allocation", allocation, p) \in SourceRow
              /\ Source("allocation", allocation, p).kind = "allocation"
              /\ Source("allocation", allocation, p).id = p.id
              /\ Source("allocation", allocation, p).current = Len(allocation[p.id])
<1>1. /\ \A r \in Requirements : Len(requirement[r]) \in Nat
      /\ \A a \in Allocations : Len(allocation[a]) \in Nat
  BY Lengths
<1> QED
  BY <1>1 DEF Source, SourceRow, Pins

\* What a review of a design shows are revisions that exist.
LEMMA DesignSourcesTyped ==
  ASSUME Types, PinsHeld, NEW d \in Recorded(design)
  PROVE  /\ Latest(design[d]).requirements \in SUBSET Pins(Requirements)
         /\ Latest(design[d]).allocations \in SUBSET Pins(Allocations)
         /\ {allocation[q.id][q.version].pin : q \in Latest(design[d]).allocations}
              \in SUBSET Pins(Requirements)
<1>1. d \in Designs /\ Len(design[d]) \in 1..Len(design[d])
  BY LatestRows
<1>2. /\ Latest(design[d]).requirements \in SUBSET Pins(Requirements)
      /\ Latest(design[d]).allocations \in SUBSET Pins(Allocations)
      /\ \A p \in Latest(design[d]).allocations :
           p.id \in Allocations /\ p.version \in 1..Len(allocation[p.id])
  BY <1>1, DesignRows DEF Latest
<1>3. \A q \in Latest(design[d]).allocations : allocation[q.id][q.version].pin \in Pins(Requirements)
  BY <1>2, AllocationRows
<1> QED
  BY <1>2, <1>3

LEMMA ReviewsAreRows ==
  ASSUME Types, PinsHeld, NEW v \in Reviews
  PROVE  v \in ReviewRow /\ Seen(v)
<1>1. ASSUME NEW a \in Recorded(allocation), v = Review(a, Len(allocation[a]), AllocationSources(a))
      PROVE  v \in ReviewRow /\ Seen(v)
  <2> DEFINE p == Latest(allocation[a]).pin
  <2>1. a \in Allocations /\ Len(allocation[a]) \in 1..Len(allocation[a])
    BY LatestRows
  <2>2. p \in Pins(Requirements)
    BY <2>1, AllocationRows DEF Latest
  <2>3. v = [target |-> a, version |-> Len(allocation[a]), sources |-> {Source("requirement", requirement, p)}]
    BY <1>1 DEF Review, AllocationSources
  <2>4. Len(allocation[a]) \in Nat /\ \A r \in Requirements : Len(requirement[r]) \in Nat
    BY <2>1, Lengths
  <2>5. v \in ReviewRow
    BY <2>1, <2>2, <2>3, <2>4, SourceRows DEF ReviewRow
  <2>6. v.target \notin Designs
    BY <2>1, <2>3, IdentifiersAssumption
  <2>7. \A s \in v.sources : s.kind = "requirement" /\ s.current = Len(requirement[s.id]) /\ s.id \in Requirements
    BY <2>2, <2>3, SourceRows DEF Pins
  <2> QED
    BY <2>3, <2>4, <2>5, <2>6, <2>7 DEF Seen
<1>2. ASSUME NEW d \in Recorded(design), v = Review(d, Len(design[d]), DesignSources(d))
      PROVE  v \in ReviewRow /\ Seen(v)
  <2>1. d \in Designs /\ Len(design[d]) \in 1..Len(design[d])
    BY LatestRows
  <2>2. v = [target |-> d, version |-> Len(design[d]), sources |-> SourcesOf(d)]
    BY <1>2, DesignSourcesAre DEF Review
  <2>3. Len(design[d]) \in Nat /\ \A r \in Requirements : Len(requirement[r]) \in Nat
        /\ \A a \in Allocations : Len(allocation[a]) \in Nat
    BY <2>1, Lengths
  <2>4. \A s \in SourcesOf(d) :
          /\ s \in SourceRow
          /\ \/ s.kind = "requirement" /\ s.id \in Requirements /\ s.current = Len(requirement[s.id])
             \/ s.kind = "allocation" /\ s.id \in Allocations /\ s.current = Len(allocation[s.id])
    BY DesignSourcesTyped, SourceRows DEF SourcesOf, Pins
  <2>5. v \in ReviewRow
    BY <2>1, <2>2, <2>3, <2>4 DEF ReviewRow
  <2>6. v.target \notin Allocations
    BY <2>1, <2>2, IdentifiersAssumption
  <2> QED
    BY <2>2, <2>3, <2>4, <2>5, <2>6 DEF Seen
<1> QED
  BY <1>1, <1>2 DEF Reviews

\* What the registers no longer show of a record they never show again.
LEMMA NotSeenAgain ==
  ASSUME Types, Types', Growing, PinsHeld, PinsHeld', NEW v, Seen(v), v \in Reviews'
  PROVE  v \in Reviews
<1>0. /\ \A r \in Requirements : Len(requirement[r]) \in Nat /\ Len(requirement'[r]) \in Nat
                                 /\ Len(requirement[r]) <= Len(requirement'[r])
      /\ \A a \in Allocations : Len(allocation[a]) \in Nat /\ Len(allocation'[a]) \in Nat
                                /\ Len(allocation[a]) <= Len(allocation'[a])
      /\ \A d \in Designs : Len(design[d]) \in Nat /\ Len(design'[d]) \in Nat
                            /\ Len(design[d]) <= Len(design'[d])
  BY Lengths DEF Growing, Types
<1>1. ASSUME NEW a \in Recorded(allocation'), v = Review(a, Len(allocation'[a]), AllocationSources(a)')
      PROVE  v \in Reviews
  <2>1. a \in Allocations /\ allocation'[a] # <<>>
    BY DEF Recorded, Types
  <2>2. v.target = a /\ v.version = Len(allocation'[a]) /\ v.sources = AllocationSources(a)'
    BY <1>1 DEF Review
  <2>3. Len(allocation'[a]) = Len(allocation[a])
    BY <1>0, <2>1, <2>2 DEF Seen
  <2>4. a \in Recorded(allocation)
    <3>1. allocation[a] \in Seq(AllocationRow) /\ allocation'[a] \in Seq(AllocationRow)
      BY <2>1 DEF Types
    <3>2. allocation[a] # <<>>
      BY <2>1, <2>3, <3>1, EmptySeq
    <3> QED
      BY <2>1, <3>2 DEF Recorded, Types
  <2> DEFINE p == Latest(allocation[a]).pin
  <2>5. Latest(allocation'[a]) = Latest(allocation[a])
    BY <2>3, <2>4, SameLatest
  <2>6. AllocationSources(a)' = {Source("requirement", requirement', p)}
    BY <2>5 DEF AllocationSources
  <2>7. p.id \in Requirements
    BY <2>4, LatestRows, AllocationRows DEF Latest
  <2>8. Len(requirement'[p.id]) <= Len(requirement[p.id])
    BY <2>2, <2>6 DEF Seen, Source
  <2>9. Source("requirement", requirement', p) = Source("requirement", requirement, p)
    BY <1>0, <2>7, <2>8 DEF Source
  <2>10. v = Review(a, Len(allocation[a]), AllocationSources(a))
    BY <1>1, <2>3, <2>6, <2>9 DEF AllocationSources
  <2> QED
    BY <2>4, <2>10 DEF Reviews
<1>2. ASSUME NEW d \in Recorded(design'), v = Review(d, Len(design'[d]), DesignSources(d)')
      PROVE  v \in Reviews
  <2>1. d \in Designs /\ design'[d] # <<>>
    BY DEF Recorded, Types
  <2>2. v.target = d /\ v.version = Len(design'[d]) /\ v.sources = SourcesOf(d)'
    BY <1>2, DesignSourcesAre DEF Review, DesignSources, SourcesOf
  <2>3. Len(design'[d]) = Len(design[d])
    BY <1>0, <2>1, <2>2 DEF Seen
  <2>4. d \in Recorded(design)
    <3>1. design[d] \in Seq(DesignRow) /\ design'[d] \in Seq(DesignRow)
      BY <2>1 DEF Types
    <3>2. design[d] # <<>>
      BY <2>1, <2>3, <3>1, EmptySeq
    <3> QED
      BY <2>1, <3>2 DEF Recorded, Types
  <2> DEFINE row == Latest(design[d])
             B == {allocation[q.id][q.version].pin : q \in row.allocations}
  <2>5. Latest(design'[d]) = row
    BY <2>3, <2>4, SameLatest
  <2>6. /\ row.requirements \cup B \in SUBSET Pins(Requirements)
        /\ row.allocations \in SUBSET Pins(Allocations)
    BY <2>4, DesignSourcesTyped
  <2>7. \A q \in row.allocations : allocation'[q.id][q.version] = allocation[q.id][q.version]
    <3>1. \A q \in row.allocations : q.id \in Allocations /\ q.version \in 1..Len(allocation[q.id])
      BY <2>4, LatestRows, DesignRows DEF Latest
    <3> QED
      BY <3>1 DEF Growing
  <2>8. SourcesOf(d)' = {Source("requirement", requirement', p) : p \in row.requirements \cup B}
                        \cup {Source("allocation", allocation', p) : p \in row.allocations}
    BY <2>5, <2>7 DEF SourcesOf
  <2>9. SourcesOf(d) = {Source("requirement", requirement, p) : p \in row.requirements \cup B}
                       \cup {Source("allocation", allocation, p) : p \in row.allocations}
    BY DEF SourcesOf
  <2>10. ASSUME NEW p \in row.requirements \cup B
         PROVE  Source("requirement", requirement', p) = Source("requirement", requirement, p)
    <3>1. Source("requirement", requirement', p) \in v.sources
      BY <2>2, <2>8
    <3>2. Len(requirement'[p.id]) <= Len(requirement[p.id])
      BY <3>1 DEF Seen, Source
    <3>3. p.id \in Requirements
      BY <2>6 DEF Pins
    <3> QED
      BY <1>0, <3>2, <3>3 DEF Source
  <2>11. ASSUME NEW p \in row.allocations
         PROVE  Source("allocation", allocation', p) = Source("allocation", allocation, p)
    <3>1. Source("allocation", allocation', p) \in v.sources
      BY <2>2, <2>8
    <3>2. Len(allocation'[p.id]) <= Len(allocation[p.id])
      BY <3>1 DEF Seen, Source
    <3>3. p.id \in Allocations
      BY <2>6 DEF Pins
    <3> QED
      BY <1>0, <3>2, <3>3 DEF Source
  <2>12. SourcesOf(d)' = SourcesOf(d)
    BY <2>8, <2>9, <2>10, <2>11
  <2>13. v = Review(d, Len(design[d]), DesignSources(d))
    BY <1>2, <2>2, <2>3, <2>12, DesignSourcesAre DEF Review
  <2> QED
    BY <2>4, <2>13 DEF Reviews
<1>3. \/ \E a \in Recorded(allocation') : v = Review(a, Len(allocation'[a]), AllocationSources(a)')
      \/ \E d \in Recorded(design') : v = Review(d, Len(design'[d]), DesignSources(d)')
  BY DEF Reviews
<1> QED
  BY <1>1, <1>2, <1>3

-----------------------------------------------------------------------------
(* What the writes do. *)

LEMMA WroteRequirement ==
  ASSUME Types, NEW id \in Requirements, NEW row \in RequirementRow,
         requirement' = [requirement EXCEPT ![id] = Append(@, row)],
         UNCHANGED <<allocation, design, assessments>>
  PROVE  /\ requirement' \in [Requirements -> Seq(RequirementRow)]
         /\ Growing
         /\ requirement'[id][Len(requirement[id]) + 1] = row
         /\ \A j \in Requirements : \A i \in 1..Len(requirement'[j]) :
              i \notin 1..Len(requirement[j]) => j = id /\ i = Len(requirement[id]) + 1
         /\ \E w : \A k \in PinKeys :
              WrittenUnder(k)' = WrittenUnder(k) \cup (IF row.key = k THEN {w} ELSE {})
<1> DEFINE n == Len(requirement[id]) + 1
<1>1. requirement \in [Requirements -> Seq(RequirementRow)]
  BY DEF Types
<1>2. /\ requirement' \in [Requirements -> Seq(RequirementRow)]
      /\ Len(requirement'[id]) = n /\ Len(requirement[id]) \in Nat
      /\ requirement'[id][n] = row
      /\ \A j \in Requirements : j # id => requirement'[j] = requirement[j]
      /\ \A j \in Requirements : /\ Len(requirement[j]) <= Len(requirement'[j])
                      /\ \A i \in 1..Len(requirement[j]) : requirement'[j][i] = requirement[j][i]
  BY <1>1, Appending
<1>3. Growing
  BY <1>2, Lengths DEF Growing
<1>4. \A j \in Requirements : \A i \in 1..Len(requirement'[j]) :
        i \notin 1..Len(requirement[j]) => j = id /\ i = n
  BY <1>2
<1>5. ASSUME NEW k \in PinKeys
      PROVE  Keyed(requirement', k) = Keyed(requirement, k) \cup (IF row.key = k THEN {<<id, n>>} ELSE {})
  <2>1. n = Len(requirement[id]) + 1
    OBVIOUS
  <2>2. /\ DOMAIN requirement = Requirements /\ DOMAIN requirement' = DOMAIN requirement
        /\ \A j \in DOMAIN requirement :
             DOMAIN requirement[j] = 1..Len(requirement[j]) /\ DOMAIN requirement'[j] = 1..Len(requirement'[j])
    BY <1>1, <1>2, LenProperties
  <2> HIDE DEF n
  <2> QED
    BY ONLY <1>2, <2>1, <2>2, KeyedAppended
<1>6. \A k \in PinKeys : WrittenUnder(k)' =
        WrittenUnder(k) \cup (IF row.key = k THEN {<<"requirement", <<id, n>>>>} ELSE {})
  <2> SUFFICES ASSUME NEW k \in PinKeys
               PROVE  WrittenUnder(k)' = WrittenUnder(k)
                        \cup (IF row.key = k THEN {<<"requirement", <<id, n>>>>} ELSE {})
    OBVIOUS
  <2>1. {<<"requirement", x>> : x \in Keyed(requirement', k)}
          = {<<"requirement", x>> : x \in Keyed(requirement, k)}
            \cup (IF row.key = k THEN {<<"requirement", <<id, n>>>>} ELSE {})
    BY <1>5
  <2> HIDE DEF n
  <2> QED
    BY <2>1 DEF WrittenUnder
<1> QED
  BY <1>2, <1>3, <1>4, <1>6

LEMMA WroteAllocation ==
  ASSUME Types, NEW id \in Allocations, NEW row \in AllocationRow,
         allocation' = [allocation EXCEPT ![id] = Append(@, row)],
         UNCHANGED <<requirement, design, assessments>>
  PROVE  /\ allocation' \in [Allocations -> Seq(AllocationRow)]
         /\ Growing
         /\ allocation'[id][Len(allocation[id]) + 1] = row
         /\ \A j \in Allocations : \A i \in 1..Len(allocation'[j]) :
              i \notin 1..Len(allocation[j]) => j = id /\ i = Len(allocation[id]) + 1
         /\ \E w : \A k \in PinKeys :
              WrittenUnder(k)' = WrittenUnder(k) \cup (IF row.key = k THEN {w} ELSE {})
<1> DEFINE n == Len(allocation[id]) + 1
<1>1. allocation \in [Allocations -> Seq(AllocationRow)]
  BY DEF Types
<1>2. /\ allocation' \in [Allocations -> Seq(AllocationRow)]
      /\ Len(allocation'[id]) = n /\ Len(allocation[id]) \in Nat
      /\ allocation'[id][n] = row
      /\ \A j \in Allocations : j # id => allocation'[j] = allocation[j]
      /\ \A j \in Allocations : /\ Len(allocation[j]) <= Len(allocation'[j])
                      /\ \A i \in 1..Len(allocation[j]) : allocation'[j][i] = allocation[j][i]
  BY <1>1, Appending
<1>3. Growing
  BY <1>2, Lengths DEF Growing
<1>4. \A j \in Allocations : \A i \in 1..Len(allocation'[j]) :
        i \notin 1..Len(allocation[j]) => j = id /\ i = n
  BY <1>2
<1>5. ASSUME NEW k \in PinKeys
      PROVE  Keyed(allocation', k) = Keyed(allocation, k) \cup (IF row.key = k THEN {<<id, n>>} ELSE {})
  <2>1. n = Len(allocation[id]) + 1
    OBVIOUS
  <2>2. /\ DOMAIN allocation = Allocations /\ DOMAIN allocation' = DOMAIN allocation
        /\ \A j \in DOMAIN allocation :
             DOMAIN allocation[j] = 1..Len(allocation[j]) /\ DOMAIN allocation'[j] = 1..Len(allocation'[j])
    BY <1>1, <1>2, LenProperties
  <2> HIDE DEF n
  <2> QED
    BY ONLY <1>2, <2>1, <2>2, KeyedAppended
<1>6. \A k \in PinKeys : WrittenUnder(k)' =
        WrittenUnder(k) \cup (IF row.key = k THEN {<<"allocation", <<id, n>>>>} ELSE {})
  <2> SUFFICES ASSUME NEW k \in PinKeys
               PROVE  WrittenUnder(k)' = WrittenUnder(k)
                        \cup (IF row.key = k THEN {<<"allocation", <<id, n>>>>} ELSE {})
    OBVIOUS
  <2>1. {<<"allocation", x>> : x \in Keyed(allocation', k)}
          = {<<"allocation", x>> : x \in Keyed(allocation, k)}
            \cup (IF row.key = k THEN {<<"allocation", <<id, n>>>>} ELSE {})
    BY <1>5
  <2> HIDE DEF n
  <2> QED
    BY <2>1 DEF WrittenUnder
<1> QED
  BY <1>2, <1>3, <1>4, <1>6

LEMMA WroteDesign ==
  ASSUME Types, NEW id \in Designs, NEW row \in DesignRow,
         design' = [design EXCEPT ![id] = Append(@, row)],
         UNCHANGED <<requirement, allocation, assessments>>
  PROVE  /\ design' \in [Designs -> Seq(DesignRow)]
         /\ Growing
         /\ design'[id][Len(design[id]) + 1] = row
         /\ \A j \in Designs : \A i \in 1..Len(design'[j]) :
              i \notin 1..Len(design[j]) => j = id /\ i = Len(design[id]) + 1
         /\ \E w : \A k \in PinKeys :
              WrittenUnder(k)' = WrittenUnder(k) \cup (IF row.key = k THEN {w} ELSE {})
<1> DEFINE n == Len(design[id]) + 1
<1>1. design \in [Designs -> Seq(DesignRow)]
  BY DEF Types
<1>2. /\ design' \in [Designs -> Seq(DesignRow)]
      /\ Len(design'[id]) = n /\ Len(design[id]) \in Nat
      /\ design'[id][n] = row
      /\ \A j \in Designs : j # id => design'[j] = design[j]
      /\ \A j \in Designs : /\ Len(design[j]) <= Len(design'[j])
                      /\ \A i \in 1..Len(design[j]) : design'[j][i] = design[j][i]
  BY <1>1, Appending
<1>3. Growing
  BY <1>2, Lengths DEF Growing
<1>4. \A j \in Designs : \A i \in 1..Len(design'[j]) :
        i \notin 1..Len(design[j]) => j = id /\ i = n
  BY <1>2
<1>5. ASSUME NEW k \in PinKeys
      PROVE  Keyed(design', k) = Keyed(design, k) \cup (IF row.key = k THEN {<<id, n>>} ELSE {})
  <2>1. n = Len(design[id]) + 1
    OBVIOUS
  <2>2. /\ DOMAIN design = Designs /\ DOMAIN design' = DOMAIN design
        /\ \A j \in DOMAIN design :
             DOMAIN design[j] = 1..Len(design[j]) /\ DOMAIN design'[j] = 1..Len(design'[j])
    BY <1>1, <1>2, LenProperties
  <2> HIDE DEF n
  <2> QED
    BY ONLY <1>2, <2>1, <2>2, KeyedAppended
<1>6. \A k \in PinKeys : WrittenUnder(k)' =
        WrittenUnder(k) \cup (IF row.key = k THEN {<<"design", <<id, n>>>>} ELSE {})
  <2> SUFFICES ASSUME NEW k \in PinKeys
               PROVE  WrittenUnder(k)' = WrittenUnder(k)
                        \cup (IF row.key = k THEN {<<"design", <<id, n>>>>} ELSE {})
    OBVIOUS
  <2>1. {<<"design", x>> : x \in Keyed(design', k)}
          = {<<"design", x>> : x \in Keyed(design, k)}
            \cup (IF row.key = k THEN {<<"design", <<id, n>>>>} ELSE {})
    BY <1>5
  <2> HIDE DEF n
  <2> QED
    BY <2>1 DEF WrittenUnder
<1> QED
  BY <1>2, <1>3, <1>4, <1>6

LEMMA WroteAssessment ==
  ASSUME Types, NEW row \in AssessmentRow, assessments' = Append(assessments, row),
         UNCHANGED <<requirement, allocation, design>>
  PROVE  /\ assessments' \in Seq(AssessmentRow)
         /\ Growing
         /\ Len(assessments') = Len(assessments) + 1
         /\ assessments'[Len(assessments) + 1] = row
         /\ \A i \in 1..Len(assessments) : assessments'[i] = assessments[i]
         /\ \E w : \A k \in PinKeys :
              WrittenUnder(k)' = WrittenUnder(k) \cup (IF row.key = k THEN {w} ELSE {})
<1> DEFINE n == Len(assessments) + 1
<1>1. assessments \in Seq(AssessmentRow) /\ Len(assessments) \in Nat
      /\ DOMAIN assessments = 1..Len(assessments)
  BY Lengths DEF Types
<1>2. /\ assessments' \in Seq(AssessmentRow) /\ Len(assessments') = n
      /\ assessments'[n] = row
      /\ \A i \in 1..Len(assessments) : assessments'[i] = assessments[i]
      /\ DOMAIN assessments' = 1..n
  BY <1>1
<1>3. Growing
  BY Lengths DEF Growing
<1>4. 1..n = 1..Len(assessments) \cup {n}
  BY <1>1
<1>5. \A k \in PinKeys : {j \in DOMAIN assessments' : assessments'[j].key = k} =
        {j \in DOMAIN assessments : assessments[j].key = k} \cup (IF row.key = k THEN {n} ELSE {})
  BY <1>1, <1>2, <1>4
<1>6. \A k \in PinKeys : WrittenUnder(k)' =
        WrittenUnder(k) \cup (IF row.key = k THEN {<<"assessment", n>>} ELSE {})
  BY <1>5 DEF WrittenUnder
<1> QED
  BY <1>2, <1>3, <1>6

\* A key under which nothing was written gets its receipt with the write.
LEMMA KeysKept ==
  ASSUME KeysSettled, NEW key \in PinKeys, key \notin receipts, receipts' = receipts \cup {key},
         \E w : \A k \in PinKeys :
           WrittenUnder(k)' = WrittenUnder(k) \cup (IF key = k THEN {w} ELSE {})
  PROVE  KeysSettled'
<1> PICK w : \A k \in PinKeys : WrittenUnder(k)' = WrittenUnder(k) \cup (IF key = k THEN {w} ELSE {})
  OBVIOUS
<1>1. WrittenUnder(key) = {}
  BY DEF KeysSettled
<1>2. ASSUME NEW k \in PinKeys
      PROVE  /\ WrittenUnder(k)' # {} <=> k \in receipts'
             /\ \A x, y \in WrittenUnder(k)' : x = y
  <2>1. CASE k = key
    BY <1>1, <2>1
  <2>2. CASE k # key
    BY <2>2 DEF KeysSettled
  <2> QED
    BY <2>1, <2>2
<1> QED
  BY <1>2 DEF KeysSettled

\* Without a write nothing changes for keys.
LEMMA NothingWritten ==
  ASSUME KeysSettled, UNCHANGED <<registers, receipts>>
  PROVE  KeysSettled'
<1>1. \A k \in PinKeys : WrittenUnder(k)' = WrittenUnder(k)
  BY DEF registers, WrittenUnder, Keyed, Revisions
<1> QED
  BY <1>1 DEF KeysSettled

LEMMA PinsStayHeld ==
  ASSUME PinsInvariant, Types', Growing, form' = form,
         \A a \in Allocations : \A i \in 1..Len(allocation'[a]) :
           i \notin 1..Len(allocation[a]) => Held(requirement', allocation'[a][i].pin),
         \A d \in Designs : \A i \in 1..Len(design'[d]) :
           i \notin 1..Len(design[d]) =>
             /\ \A p \in design'[d][i].requirements : Held(requirement', p)
             /\ \A p \in design'[d][i].allocations : Held(allocation', p)
  PROVE  PinsHeld'
<1>0. Types /\ PinsHeld
  BY DEF PinsInvariant
<1>1. ASSUME NEW a \in Allocations, NEW i \in 1..Len(allocation'[a])
      PROVE  Held(requirement', allocation'[a][i].pin)
  <2>1. CASE i \in 1..Len(allocation[a])
    <3>1. allocation[a][i].pin \in Pins(Requirements) /\ Held(requirement, allocation[a][i].pin)
      BY <1>0, <2>1, AllocationRows DEF Held
    <3>2. allocation'[a][i] = allocation[a][i]
      BY <2>1 DEF Growing
    <3> QED
      BY <1>0, <3>1, <3>2, HeldStays
  <2> QED
    BY <2>1
<1>2. ASSUME NEW d \in Designs, NEW i \in 1..Len(design'[d])
      PROVE  /\ \A p \in design'[d][i].requirements : Held(requirement', p)
             /\ \A p \in design'[d][i].allocations : Held(allocation', p)
  <2>1. CASE i \in 1..Len(design[d])
    <3>1. /\ design[d][i].requirements \in SUBSET Pins(Requirements)
          /\ design[d][i].allocations \in SUBSET Pins(Allocations)
      BY <1>0, <2>1, DesignRows
    <3>2. /\ \A p \in design[d][i].requirements : Held(requirement, p)
          /\ \A p \in design[d][i].allocations : Held(allocation, p)
      BY <1>0, <2>1 DEF PinsHeld
    <3>3. design'[d][i] = design[d][i]
      BY <2>1 DEF Growing
    <3>4. /\ \A p \in design[d][i].requirements : Held(requirement', p)
          /\ \A p \in design[d][i].allocations : Held(allocation', p)
      BY <1>0, <3>1, <3>2, HeldStays
    <3> QED
      BY <3>3, <3>4
  <2> QED
    BY <2>1
<1>3. ASSUME NEW c \in Clients, form[c] # None
      PROVE  /\ \A p \in form[c].cmd.requirements : Held(requirement', p)
             /\ \A p \in form[c].cmd.allocations : Held(allocation', p)
  <2>1. form[c].cmd \in Cmd
    BY <1>0, <1>3 DEF Types, Form
  <2>2. /\ form[c].cmd.requirements \in SUBSET Pins(Requirements)
        /\ form[c].cmd.allocations \in SUBSET Pins(Allocations)
    BY <2>1 DEF Cmd
  <2>3. /\ \A p \in form[c].cmd.requirements : Held(requirement, p)
        /\ \A p \in form[c].cmd.allocations : Held(allocation, p)
    BY <1>0, <1>3 DEF PinsHeld
  <2> QED
    BY <1>0, <2>2, <2>3, HeldStays
<1> QED
  BY <1>1, <1>2, <1>3 DEF PinsHeld

LEMMA DesignsStayResting ==
  ASSUME PinsInvariant, Types', Growing,
         \A d \in Designs : \A i \in 1..Len(design'[d]) :
           i \notin 1..Len(design[d]) =>
             /\ \A p \in design'[d][i].requirements : p.id \notin Legacy
             /\ \A p \in design'[d][i].allocations :
                  allocation'[p.id][p.version].pin \in design'[d][i].requirements
  PROVE  DesignsRest'
<1>0. Types /\ PinsHeld
  BY DEF PinsInvariant
<1> SUFFICES ASSUME NEW d \in Designs, NEW i \in 1..Len(design'[d])
             PROVE  /\ \A p \in design'[d][i].requirements : p.id \notin Legacy
                    /\ \A p \in design'[d][i].allocations :
                         allocation'[p.id][p.version].pin \in design'[d][i].requirements
  BY DEF DesignsRest, RestingOn
<1>1. CASE i \in 1..Len(design[d])
  <2>1. design'[d][i] = design[d][i]
    BY <1>1 DEF Growing
  <2>2. /\ \A p \in design[d][i].requirements : p.id \notin Legacy
        /\ \A p \in design[d][i].allocations :
             allocation[p.id][p.version].pin \in design[d][i].requirements
    BY <1>1 DEF PinsInvariant, DesignsRest, RestingOn
  <2>3. \A p \in design[d][i].allocations : allocation'[p.id][p.version] = allocation[p.id][p.version]
    BY <1>0, <1>1, DesignRows DEF Growing
  <2> QED
    BY <2>1, <2>2, <2>3
<1>2. CASE i \notin 1..Len(design[d])
  BY <1>2
<1> QED
  BY <1>1, <1>2

-----------------------------------------------------------------------------
(* What every step keeps. *)

\* Assessments recorded before are still of revisions that exist, and stay stale;
\* of a new one both is to be shown.
LEMMA AssessmentsKept ==
  ASSUME PinsInvariant, Types', Growing,
         \A i \in 1..Len(assessments) : assessments'[i] = assessments[i],
         NEW i \in 1..Len(assessments'),
         i \notin 1..Len(assessments) =>
           \E v \in ReviewRow : v = assessments'[i].review /\ Seen(v)' /\ StaysStale(v)'
  PROVE  \E v \in ReviewRow : v = assessments'[i].review /\ Seen(v)' /\ StaysStale(v)'
<1>0. Types /\ PinsHeld
  BY DEF PinsInvariant
<1>1. CASE i \in 1..Len(assessments)
  <2>1. assessments[i] \in AssessmentRow /\ i \in DOMAIN assessments
    BY <1>0, <1>1, Lengths
  <2>2. PICK v \in ReviewRow : v = assessments[i].review
    BY <2>1 DEF AssessmentRow
  <2>3. Seen(v)
    BY <1>1, <2>2 DEF PinsInvariant, ReviewsSeen, Seen
  <2>4. StaysStale(v)
    BY <2>1, <2>2 DEF PinsInvariant, AssessedStaysStale, StaysStale
  <2>5. Seen(v)' /\ StaysStale(v)'
    BY <1>0, <2>3, <2>4, SeenStays, StaleReviewStays
  <2>6. v = assessments'[i].review
    BY <1>1, <2>2
  <2> QED
    BY <2>5, <2>6
<1> QED
  BY <1>1

LEMMA AssessmentsSettled ==
  ASSUME Types', \A i \in 1..Len(assessments') :
           \E v \in ReviewRow : v = assessments'[i].review /\ Seen(v)' /\ StaysStale(v)'
  PROVE  /\ AssessedStaysStale'
         /\ \A i \in 1..Len(assessments') : Seen(assessments[i].review)'
<1>1. DOMAIN assessments' = 1..Len(assessments')
  BY LenProperties DEF Types
<1>2. ASSUME NEW i \in 1..Len(assessments')
      PROVE  /\ Seen(assessments[i].review)'
             /\ \/ \E a \in Recorded(allocation)' :
                     /\ assessments'[i].review.target = a
                     /\ assessments'[i].review.version = Len(allocation'[a]) => StaleAllocation(a)'
                \/ \E d \in Recorded(design)' :
                     /\ assessments'[i].review.target = d
                     /\ assessments'[i].review.version = Len(design'[d]) => StaleDesign(d)'
  <2>1. PICK v \in ReviewRow : v = assessments'[i].review /\ Seen(v)' /\ StaysStale(v)'
    OBVIOUS
  <2>2. Seen(assessments[i].review)'
    BY <2>1 DEF Seen
  <2>3. \/ \E a \in Recorded(allocation)' :
             v.target = a /\ (v.version = Len(allocation'[a]) => StaleAllocation(a)')
        \/ \E d \in Recorded(design)' :
             v.target = d /\ (v.version = Len(design'[d]) => StaleDesign(d)')
    BY <2>1 DEF StaysStale
  <2> QED
    BY <2>1, <2>2, <2>3
<1> QED
  BY <1>1, <1>2 DEF AssessedStaysStale

\* A form that shows an assessment's review shows one that existed.
LEMMA FormsSeen ==
  ASSUME PinsInvariant, Types', Growing, NEW c \in Clients, form[c] # None,
         form'[c] = form[c], form[c].cmd.op = "assess"
  PROVE  form'[c].cmd.review \in ReviewRow /\ Seen(form[c].cmd.review)'
<1>1. form[c].cmd.review \in ReviewRow /\ Seen(form[c].cmd.review)
  BY DEF PinsInvariant, ReviewsSeen
<1>2. PICK v \in ReviewRow : v = form[c].cmd.review
  BY <1>1
<1>3. Seen(v)
  BY <1>1, <1>2 DEF Seen
<1>4. Seen(v)'
  BY <1>3, SeenStays DEF PinsInvariant
<1> QED
  BY <1>2, <1>4 DEF Seen

\* What moved under a command stays moved.
LEMMA MovedStays ==
  ASSUME PinsInvariant, Types', PinsHeld', Growing, NEW c \in Clients, form[c] # None,
         form'[c] = form[c], Outdated(form[c].cmd)
  PROVE  Outdated(form[c].cmd)'
<1>0. Types /\ PinsHeld
  BY DEF PinsInvariant
<1>1. PICK m \in Cmd : m = form[c].cmd
  BY <1>0 DEF Types, Form
<1>2. /\ m.requirements \in SUBSET Pins(Requirements) /\ m.allocations \in SUBSET Pins(Allocations)
      /\ \A p \in m.requirements : Held(requirement, p)
      /\ \A p \in m.allocations : Held(allocation, p)
  BY <1>0, <1>1 DEF PinsHeld, Cmd
<1>3. m = form'[c].cmd
  BY <1>1
<1>4. CASE m.op = "design" /\ \E p \in m.requirements : ~Current(requirement, p)
  <2>1. \E p \in m.requirements : ~Current(requirement', p)
    BY <1>0, <1>2, <1>4, StaleStays
  <2> QED
    BY <1>3, <1>4, <2>1 DEF Outdated
<1>5. CASE m.op = "design" /\ \E p \in m.allocations : ~Current(allocation, p)
  <2>1. \E p \in m.allocations : ~Current(allocation', p)
    BY <1>0, <1>2, <1>5, StaleStays
  <2> QED
    BY <1>3, <1>5, <2>1 DEF Outdated
<1>6. CASE m.op = "assess" /\ m.review \notin Reviews
  <2>1. PICK v \in ReviewRow : v = m.review
    BY <1>1, <1>6 DEF PinsInvariant, ReviewsSeen
  <2>2. Seen(v)
    BY <1>1, <1>6, <2>1 DEF PinsInvariant, ReviewsSeen, Seen
  <2>3. v \notin Reviews'
    BY <1>0, <1>6, <2>1, <2>2, NotSeenAgain
  <2> QED
    BY <1>3, <1>6, <2>1, <2>3 DEF Outdated
<1> QED
  BY <1>1, <1>4, <1>5, <1>6 DEF Outdated

LEMMA CarriedStays ==
  ASSUME PinsInvariant, Types', Growing, NEW c \in Clients, form[c] # None,
         form'[c] = form[c], Carried(form[c].cmd)
  PROVE  Carried(form[c].cmd)'
<1>0. Types /\ PinsHeld
  BY DEF PinsInvariant
<1>1. PICK m \in Cmd : m = form[c].cmd
  BY <1>0 DEF Types, Form
<1>2. m.allocations \in SUBSET Pins(Allocations) /\ \A p \in m.allocations : Held(allocation, p)
  BY <1>0, <1>1 DEF PinsHeld, Cmd
<1>3. m = form'[c].cmd
  BY <1>1
<1>4. PICK rs, as : rs = m.requirements /\ as = m.allocations
  OBVIOUS
<1>5. m.op = "design" => RestingOn(rs, as)
  BY <1>1, <1>4 DEF Carried, RestingOn
<1>6. m.op = "design" => RestingOn(rs, as)'
  BY <1>0, <1>2, <1>4, <1>5, RestingStays
<1>7. m.op = "assess" => Changes(m.review) # {}
  BY <1>1 DEF Carried, Changes
<1> QED
  BY <1>3, <1>4, <1>6, <1>7 DEF Carried, RestingOn, Changes

-----------------------------------------------------------------------------
(* Commands that are carried out. *)

LEMMA AcceptedFacts ==
  ASSUME PinsInvariant, NEW c \in Clients, NEW op, Accepted(c, op)
  PROVE  /\ form[c] # None /\ form[c].cmd \in Cmd /\ form[c].cmd.op = op
         /\ form[c].key \in PinKeys /\ form[c].key \in 1..issued /\ form[c].key \notin receipts
         /\ told[c] = None /\ form' = form /\ issued' = issued
         /\ receipts' = receipts \cup {form[c].key} /\ receipts' \subseteq 1..issued'
         /\ told' \in [Clients -> {None, "done", "refused"}]
         /\ told'[c] \in {None, "done"}
         /\ \A e \in Clients : e # c => told'[e] = told[e]
<1>1. Types
  BY DEF PinsInvariant
<1>2. form[c] # None /\ told[c] = None /\ form[c].cmd.op = op
  BY DEF Accepted, Sending
<1>3. form[c] \in Form
  BY <1>1, <1>2 DEF Types
<1>4. form[c].cmd \in Cmd /\ form[c].key \in 1..issued /\ issued \in Nat
  BY <1>1, <1>3 DEF Form, Types
<1>5. receipts' = receipts \cup {form[c].key} /\ form[c].key \notin receipts
      /\ form' = form /\ issued' = issued
      /\ (told' = [told EXCEPT ![c] = "done"] \/ told' = told)
  BY DEF Accepted, Known, Answer
<1>6. told \in [Clients -> {None, "done", "refused"}] /\ receipts \subseteq 1..issued
  BY <1>1 DEF Types
<1>7. /\ told' \in [Clients -> {None, "done", "refused"}]
      /\ told'[c] \in {None, "done"}
      /\ \A e \in Clients : e # c => told'[e] = told[e]
  BY <1>2, <1>5, <1>6
<1>8. form[c].key \in PinKeys
  BY <1>4 DEF PinKeys
<1>9. receipts' \subseteq 1..issued'
  <2>1. receipts \cup {form[c].key} \subseteq 1..issued
    BY <1>4, <1>6
  <2> QED
    BY <1>5, <2>1
<1> QED
  BY <1>2, <1>4, <1>5, <1>7, <1>8, <1>9

LEMMA PinToCurrent ==
  ASSUME Types
  PROVE  /\ \A p \in Pins(Requirements) : Current(requirement, p) => PinTo(requirement, p.id) = p
         /\ \A p \in Pins(Allocations) : Current(allocation, p) => PinTo(allocation, p.id) = p
  BY DEF Pins, Current, PinTo

\* What a design that is accepted pins is what its command names, at current
\* versions, and its allocations rest on its requirements.
LEMMA DesignAccepted ==
  ASSUME PinsInvariant, NEW c \in Clients, Accepted(c, "design")
  PROVE  /\ form[c].cmd.requirements \in SUBSET Pins(Requirements)
         /\ form[c].cmd.allocations \in SUBSET Pins(Allocations)
         /\ {PinTo(requirement, p.id) : p \in form[c].cmd.requirements} = form[c].cmd.requirements
         /\ {PinTo(allocation, p.id) : p \in form[c].cmd.allocations} = form[c].cmd.allocations
         /\ RestingOn(form[c].cmd.requirements, form[c].cmd.allocations)
<1>0. Types /\ PinsHeld
  BY DEF PinsInvariant
<1>1. form[c] # None /\ form[c].cmd \in Cmd /\ form[c].cmd.op = "design"
  BY AcceptedFacts
<1>2. PICK m \in Cmd : m = form[c].cmd
  BY <1>1
<1>3. /\ m.requirements \in SUBSET Pins(Requirements) /\ m.allocations \in SUBSET Pins(Allocations)
      /\ \A p \in m.allocations : Held(allocation, p)
  BY <1>0, <1>1, <1>2 DEF PinsHeld, Cmd
<1>4. Coherent(m) /\ DesignAcceptable(m)
  BY <1>1, <1>2 DEF Accepted, Authorised, Acceptable
<1>5. /\ \A p \in m.requirements : Current(requirement, p)
      /\ \A p \in m.allocations : Current(allocation, p)
  BY <1>4 DEF DesignAcceptable
<1>6. ASSUME NEW p \in m.allocations PROVE allocation[p.id][p.version].pin \in m.requirements
  <2> DEFINE behind == allocation[p.id][p.version].pin
  <2>1. p.id \in Allocations /\ p.version \in Nat \ {0} /\ p.version = Len(allocation[p.id])
    BY <1>3, <1>5 DEF Pins, Current
  <2>2. behind = Latest(allocation[p.id]).pin
    BY <2>1 DEF Latest
  <2>3. behind \in Pins(Requirements)
    <3>1. p.version \in 1..Len(allocation[p.id])
      BY <2>1
    <3> QED
      BY <1>0, <2>1, <3>1, AllocationRows
  <2>4. Current(requirement, behind) /\ \E q \in m.requirements : q.id = behind.id
    BY <1>4, <2>2 DEF Coherent
  <2>5. PICK q \in m.requirements : q.id = behind.id
    BY <2>4
  <2>6. q \in Pins(Requirements) /\ Current(requirement, q)
    BY <1>3, <1>5
  <2>7. PinTo(requirement, q.id) = q /\ PinTo(requirement, behind.id) = behind
    BY <1>0, <2>3, <2>4, <2>6, PinToCurrent
  <2>8. q = behind
    BY <2>5, <2>7
  <2> QED
    BY <2>8
<1>7. \A p \in m.requirements : p.id \notin Legacy
  BY <1>4 DEF Coherent
<1>8. RestingOn(m.requirements, m.allocations)
  BY <1>6, <1>7 DEF RestingOn
<1>9. /\ \A p \in m.requirements : PinTo(requirement, p.id) = p
      /\ \A p \in m.allocations : PinTo(allocation, p.id) = p
  BY <1>0, <1>3, <1>5, PinToCurrent
<1> QED
  BY <1>2, <1>3, <1>8, <1>9

\* The clients' side of a command that is carried out.
LEMMA FormsKept ==
  ASSUME PinsInvariant, Types', PinsHeld', Growing, NEW c \in Clients, NEW op, Accepted(c, op)
  PROVE  /\ OwnKeys' /\ FormsSettled'
         /\ \A e \in Clients : form'[e] # None /\ form'[e].cmd.op = "assess" =>
              form'[e].cmd.review \in ReviewRow /\ Seen(form[e].cmd.review)'
<1>1. /\ form[c] # None /\ form[c].cmd \in Cmd /\ form[c].cmd.op = op
      /\ form[c].key \notin receipts /\ told[c] = None /\ form' = form
      /\ receipts' = receipts \cup {form[c].key}
      /\ told'[c] \in {None, "done"}
      /\ \A e \in Clients : e # c => told'[e] = told[e]
  BY AcceptedFacts
<1>2. Carried(form[c].cmd)
  <2>1. op = "design" => RestingOn(form[c].cmd.requirements, form[c].cmd.allocations)
    BY DesignAccepted
  <2>2. op = "assess" => Changes(form[c].cmd.review) # {}
    BY <1>1 DEF Accepted, Authorised, Assessable
  <2> QED
    BY <1>1, <2>1, <2>2 DEF Carried
<1>3. OwnKeys'
  BY <1>1 DEF PinsInvariant, OwnKeys
<1>4. ASSUME NEW e \in Clients, form'[e] # None
      PROVE  /\ form'[e].key \in receipts' => Carried(form[e].cmd)'
             /\ told'[e] = "done" => form'[e].key \in receipts'
             /\ told'[e] = "refused" /\ form'[e].key \in receipts' => Outdated(form[e].cmd)'
  <2>1. form'[e] = form[e] /\ form[e] # None
    BY <1>1, <1>4
  <2>2. /\ form[e].key \in receipts => Carried(form[e].cmd)
        /\ told[e] = "done" => form[e].key \in receipts
        /\ told[e] = "refused" /\ form[e].key \in receipts => Outdated(form[e].cmd)
    BY <2>1 DEF PinsInvariant, FormsSettled
  <2>3. CASE e = c
    <3>1. Carried(form[c].cmd)'
      BY <1>1, <1>2, CarriedStays
    <3>2. told'[c] # "refused"
      BY <1>1, IdentifiersAssumption
    <3> QED
      BY <1>1, <2>1, <2>3, <3>1, <3>2
  <2>4. CASE e # c
    <3>1. form[e].key # form[c].key
      BY <1>1, <2>1, <2>4 DEF PinsInvariant, OwnKeys
    <3>2. form[e].key \in receipts => Carried(form[e].cmd)'
      BY <2>1, <2>2, CarriedStays
    <3>3. told[e] = "refused" /\ form[e].key \in receipts => Outdated(form[e].cmd)'
      BY <2>1, <2>2, MovedStays
    <3> QED
      BY <1>1, <2>1, <2>2, <2>4, <3>1, <3>2, <3>3
  <2> QED
    BY <2>3, <2>4
<1>5. FormsSettled'
  BY <1>4 DEF FormsSettled
<1>6. ASSUME NEW e \in Clients, form'[e] # None, form'[e].cmd.op = "assess"
      PROVE  form'[e].cmd.review \in ReviewRow /\ Seen(form[e].cmd.review)'
  BY <1>1, <1>6, FormsSeen
<1> QED
  BY <1>3, <1>5, <1>6

\* A command that is carried out preserves the invariant, provided that histories
\* only grow, that it writes one thing under its key, and that what it writes pins
\* what exists.
LEMMA AcceptedStep ==
  ASSUME PinsInvariant, NEW c \in Clients, NEW op, Accepted(c, op), Growing,
         requirement' \in [Requirements -> Seq(RequirementRow)],
         allocation' \in [Allocations -> Seq(AllocationRow)],
         design' \in [Designs -> Seq(DesignRow)],
         assessments' \in Seq(AssessmentRow),
         \E w : \A k \in PinKeys :
           WrittenUnder(k)' = WrittenUnder(k) \cup (IF form[c].key = k THEN {w} ELSE {}),
         \A a \in Allocations : \A i \in 1..Len(allocation'[a]) :
           i \notin 1..Len(allocation[a]) => Held(requirement', allocation'[a][i].pin),
         \A d \in Designs : \A i \in 1..Len(design'[d]) :
           i \notin 1..Len(design[d]) =>
             /\ \A p \in design'[d][i].requirements : Held(requirement', p)
             /\ \A p \in design'[d][i].allocations : Held(allocation', p)
             /\ \A p \in design'[d][i].requirements : p.id \notin Legacy
             /\ \A p \in design'[d][i].allocations :
                  allocation'[p.id][p.version].pin \in design'[d][i].requirements,
         \A i \in 1..Len(assessments) : assessments'[i] = assessments[i],
         \A i \in 1..Len(assessments') : i \notin 1..Len(assessments) =>
           \E v \in ReviewRow : v = assessments'[i].review /\ Seen(v)' /\ StaysStale(v)'
  PROVE  PinsInvariant'
<1>1. /\ form[c].key \in PinKeys /\ form[c].key \notin receipts
      /\ form' = form /\ issued' = issued
      /\ receipts' = receipts \cup {form[c].key} /\ receipts' \subseteq 1..issued'
      /\ told' \in [Clients -> {None, "done", "refused"}]
  BY AcceptedFacts
<1>2. Types'
  BY <1>1 DEF PinsInvariant, Types, Form
<1>3. PinsHeld'
  BY <1>1, <1>2, PinsStayHeld
<1>4. DesignsRest'
  BY <1>2, DesignsStayResting
<1>5. KeysSettled'
  BY <1>1, KeysKept DEF PinsInvariant
<1>6. /\ OwnKeys' /\ FormsSettled'
      /\ \A e \in Clients : form'[e] # None /\ form'[e].cmd.op = "assess" =>
           form'[e].cmd.review \in ReviewRow /\ Seen(form[e].cmd.review)'
  BY <1>2, <1>3, FormsKept
<1>7. \A i \in 1..Len(assessments') :
        \E v \in ReviewRow : v = assessments'[i].review /\ Seen(v)' /\ StaysStale(v)'
  BY <1>2, AssessmentsKept
<1>8. /\ AssessedStaysStale'
      /\ \A i \in 1..Len(assessments') : Seen(assessments[i].review)'
  BY <1>2, <1>7, AssessmentsSettled
<1>9. ReviewsSeen'
  BY <1>6, <1>8 DEF ReviewsSeen
<1> QED
  BY <1>2, <1>3, <1>4, <1>5, <1>6, <1>8, <1>9 DEF PinsInvariant

LEMMA RequirementStep ==
  ASSUME PinsInvariant, NEW c \in Clients, WriteRequirement(c)
  PROVE  PinsInvariant'
<1> DEFINE row == [key |-> form[c].key]
<1>1. Types /\ Accepted(c, "requirement") /\ UNCHANGED <<allocation, design, assessments>>
  BY DEF PinsInvariant, WriteRequirement
<1>2. row \in RequirementRow
  BY <1>1, AcceptedFacts DEF RequirementRow, PinKeys
<1>3. PICK id \in Requirements : requirement' = [requirement EXCEPT ![id] = Append(@, row)]
  BY <1>1 DEF WriteRequirement, Appended, Types
<1> HIDE DEF row
<1>4. /\ requirement' \in [Requirements -> Seq(RequirementRow)]
      /\ Growing
      /\ \E w : \A k \in PinKeys :
           WrittenUnder(k)' = WrittenUnder(k) \cup (IF row.key = k THEN {w} ELSE {})
  BY <1>1, <1>2, <1>3, WroteRequirement
<1>5. row.key = form[c].key
  BY DEF row
<1>6. /\ allocation' = allocation /\ design' = design /\ assessments' = assessments
      /\ allocation \in [Allocations -> Seq(AllocationRow)]
      /\ design \in [Designs -> Seq(DesignRow)] /\ assessments \in Seq(AssessmentRow)
  BY <1>1 DEF Types
<1> QED
  BY <1>1, <1>4, <1>5, <1>6, AcceptedStep

LEMMA AllocationStep ==
  ASSUME PinsInvariant, NEW c \in Clients, WriteAllocation(c)
  PROVE  PinsInvariant'
<1>1. Types /\ Accepted(c, "allocation") /\ UNCHANGED <<requirement, design, assessments>>
  BY DEF PinsInvariant, WriteAllocation
<1>2. PICK p \in form[c].cmd.requirements :
        Appended(allocation, form[c].cmd.pin,
                 [key |-> form[c].key, pin |-> PinTo(requirement, p.id)])
  BY DEF WriteAllocation
<1> DEFINE row == [key |-> form[c].key, pin |-> PinTo(requirement, p.id)]
<1>3. form[c].cmd \in Cmd /\ form[c].key \in Nat /\ form[c].cmd.op = "allocation"
  BY <1>1, AcceptedFacts DEF PinKeys
<1>4. p \in Pins(Requirements) /\ Current(requirement, p)
  BY <1>1, <1>3 DEF Cmd, Accepted, Acceptable, AllocationAcceptable
<1>5. PinTo(requirement, p.id) = p
  BY <1>1, <1>4, PinToCurrent
<1>6. row \in AllocationRow
  BY <1>3, <1>4, <1>5 DEF AllocationRow
<1>7. PICK id \in Allocations : allocation' = [allocation EXCEPT ![id] = Append(@, row)]
  BY <1>1, <1>2 DEF Appended, Types
<1>8. row.key = form[c].key /\ row.pin = p
  BY <1>5
<1> HIDE DEF row
<1>9. /\ allocation' \in [Allocations -> Seq(AllocationRow)]
      /\ Growing
      /\ allocation'[id][Len(allocation[id]) + 1] = row
      /\ \A j \in Allocations : \A i \in 1..Len(allocation'[j]) :
           i \notin 1..Len(allocation[j]) => j = id /\ i = Len(allocation[id]) + 1
      /\ \E w : \A k \in PinKeys :
           WrittenUnder(k)' = WrittenUnder(k) \cup (IF row.key = k THEN {w} ELSE {})
  BY <1>1, <1>6, <1>7, WroteAllocation
<1>10. /\ requirement' = requirement /\ design' = design /\ assessments' = assessments
       /\ requirement \in [Requirements -> Seq(RequirementRow)]
       /\ design \in [Designs -> Seq(DesignRow)] /\ assessments \in Seq(AssessmentRow)
  BY <1>1 DEF Types
<1>11. Held(requirement, p)
  BY <1>1, <1>4, Lengths DEF Current, Held, Pins
<1>12. \A a \in Allocations : \A i \in 1..Len(allocation'[a]) :
         i \notin 1..Len(allocation[a]) => Held(requirement', allocation'[a][i].pin)
  BY <1>8, <1>9, <1>10, <1>11
<1> QED
  BY <1>1, <1>8, <1>9, <1>10, <1>12, AcceptedStep

LEMMA DesignStep ==
  ASSUME PinsInvariant, NEW c \in Clients, WriteDesign(c)
  PROVE  PinsInvariant'
<1>1. Types /\ PinsHeld /\ Accepted(c, "design") /\ UNCHANGED <<requirement, allocation, assessments>>
  BY DEF PinsInvariant, WriteDesign
<1>2. form[c] # None /\ form[c].cmd \in Cmd /\ form[c].key \in Nat
  BY <1>1, AcceptedFacts DEF PinKeys
<1> DEFINE rs == form[c].cmd.requirements
           as == form[c].cmd.allocations
           row == [key |-> form[c].key, requirements |-> rs, allocations |-> as]
<1>3. /\ rs \in SUBSET Pins(Requirements) /\ as \in SUBSET Pins(Allocations)
      /\ {PinTo(requirement, p.id) : p \in rs} = rs /\ {PinTo(allocation, p.id) : p \in as} = as
      /\ RestingOn(rs, as)
  BY <1>1, DesignAccepted
<1>4. row \in DesignRow
  BY <1>2, <1>3 DEF DesignRow
<1>5. PICK id \in Designs : design' = [design EXCEPT ![id] = Append(@, row)]
  BY <1>1, <1>3 DEF WriteDesign, Appended, Types
<1>6. row.key = form[c].key /\ row.requirements = rs /\ row.allocations = as
  OBVIOUS
<1> HIDE DEF row
<1>7. /\ design' \in [Designs -> Seq(DesignRow)]
      /\ Growing
      /\ design'[id][Len(design[id]) + 1] = row
      /\ \A j \in Designs : \A i \in 1..Len(design'[j]) :
           i \notin 1..Len(design[j]) => j = id /\ i = Len(design[id]) + 1
      /\ \E w : \A k \in PinKeys :
           WrittenUnder(k)' = WrittenUnder(k) \cup (IF row.key = k THEN {w} ELSE {})
  BY <1>1, <1>4, <1>5, WroteDesign
<1>8. /\ requirement' = requirement /\ allocation' = allocation /\ assessments' = assessments
      /\ requirement \in [Requirements -> Seq(RequirementRow)]
      /\ allocation \in [Allocations -> Seq(AllocationRow)] /\ assessments \in Seq(AssessmentRow)
  BY <1>1 DEF Types
<1>9. /\ \A p \in rs : Held(requirement, p)
      /\ \A p \in as : Held(allocation, p)
  BY <1>1, <1>2 DEF PinsHeld
<1>10. /\ \A p \in rs : p.id \notin Legacy
       /\ \A p \in as : allocation[p.id][p.version].pin \in rs
  BY <1>3 DEF RestingOn
<1> HIDE DEF rs, as
<1>11. ASSUME NEW d \in Designs, NEW i \in 1..Len(design'[d]), i \notin 1..Len(design[d])
       PROVE  /\ \A p \in design'[d][i].requirements : Held(requirement', p)
              /\ \A p \in design'[d][i].allocations : Held(allocation', p)
              /\ \A p \in design'[d][i].requirements : p.id \notin Legacy
              /\ \A p \in design'[d][i].allocations :
                   allocation'[p.id][p.version].pin \in design'[d][i].requirements
  <2>1. design'[d][i] = row
    BY <1>7, <1>11
  <2> QED
    BY <1>6, <1>8, <1>9, <1>10, <2>1
<1> QED
  BY <1>1, <1>6, <1>7, <1>8, <1>11, AcceptedStep

LEMMA AssessStep ==
  ASSUME PinsInvariant, NEW c \in Clients, Assess(c)
  PROVE  PinsInvariant'
<1>1. Types /\ PinsHeld /\ DesignsRest /\ Accepted(c, "assess") /\ UNCHANGED <<requirement, allocation, design>>
  BY DEF PinsInvariant, Assess
<1>2. form[c].cmd.op = "assess" /\ form[c].key \in Nat
  BY <1>1, AcceptedFacts DEF PinKeys
<1>3. form[c].cmd.review \in Reviews /\ Changes(form[c].cmd.review) # {}
  BY <1>1, <1>2 DEF Accepted, Authorised, Assessable
<1>4. PICK v \in Reviews : v = form[c].cmd.review
  BY <1>3
<1>5. v \in ReviewRow /\ Seen(v)
  BY <1>1, ReviewsAreRows
<1>6. StaysStale(v)
  <2>1. Changes(v) # {}
    BY <1>3, <1>4 DEF Changes
  <2> QED
    BY <1>1, <2>1, ChangedIsStale
<1>7. Seen(v)' /\ StaysStale(v)'
  BY <1>1, <1>5, <1>6 DEF Seen, StaysStale, Recorded, StaleAllocation, StaleDesign, Current, Latest
<1> DEFINE row == [key |-> form[c].key, review |-> v]
<1>8. row \in AssessmentRow
  BY <1>2, <1>5 DEF AssessmentRow
<1>9. assessments' = Append(assessments, row)
  BY <1>4 DEF Assess
<1>10. row.key = form[c].key /\ row.review = v
  OBVIOUS
<1> HIDE DEF row
<1>11. /\ assessments' \in Seq(AssessmentRow)
       /\ Growing
       /\ Len(assessments') = Len(assessments) + 1
       /\ assessments'[Len(assessments) + 1] = row
       /\ \A i \in 1..Len(assessments) : assessments'[i] = assessments[i]
       /\ \E w : \A k \in PinKeys :
            WrittenUnder(k)' = WrittenUnder(k) \cup (IF row.key = k THEN {w} ELSE {})
  BY <1>1, <1>8, <1>9, WroteAssessment
<1>12. /\ requirement' = requirement /\ allocation' = allocation /\ design' = design
       /\ requirement \in [Requirements -> Seq(RequirementRow)]
       /\ allocation \in [Allocations -> Seq(AllocationRow)]
       /\ design \in [Designs -> Seq(DesignRow)] /\ Len(assessments) \in Nat
  BY <1>1, Lengths DEF Types
<1>13. ASSUME NEW i \in 1..Len(assessments'), i \notin 1..Len(assessments)
       PROVE  \E u \in ReviewRow : u = assessments'[i].review /\ Seen(u)' /\ StaysStale(u)'
  <2>1. assessments'[i] = row
    BY <1>11, <1>12, <1>13
  <2> v \in ReviewRow
    BY <1>5
  <2> WITNESS v \in ReviewRow
  <2> QED
    BY <1>7, <1>10, <2>1
<1> QED
  BY <1>1, <1>10, <1>11, <1>12, <1>13, AcceptedStep

-----------------------------------------------------------------------------
(* Steps that write nothing. *)

LEMMA RegistersUnmoved ==
  ASSUME PinsInvariant, UNCHANGED registers
  PROVE  /\ Growing /\ DesignsRest' /\ AssessedStaysStale'
         /\ \A i \in 1..Len(assessments') : Seen(assessments[i].review)'
         /\ \A a \in Allocations : \A i \in 1..Len(allocation'[a]) :
              Held(requirement', allocation'[a][i].pin)
         /\ \A d \in Designs : \A i \in 1..Len(design'[d]) :
              /\ \A p \in design'[d][i].requirements : Held(requirement', p)
              /\ \A p \in design'[d][i].allocations : Held(allocation', p)
<1>1. /\ requirement' = requirement /\ allocation' = allocation /\ design' = design
      /\ assessments' = assessments
  BY DEF registers
<1>2. Growing
  BY <1>1, Lengths DEF Growing, PinsInvariant
<1>3. DesignsRest'
  BY <1>1 DEF PinsInvariant, DesignsRest, RestingOn
<1>4. AssessedStaysStale'
  BY <1>1 DEF PinsInvariant, AssessedStaysStale, Recorded, StaleAllocation, StaleDesign, Current, Latest
<1>5. \A i \in 1..Len(assessments') : Seen(assessments[i].review)'
  BY <1>1 DEF PinsInvariant, ReviewsSeen, Seen
<1>6. /\ \A a \in Allocations : \A i \in 1..Len(allocation'[a]) :
           Held(requirement', allocation'[a][i].pin)
      /\ \A d \in Designs : \A i \in 1..Len(design'[d]) :
           /\ \A p \in design'[d][i].requirements : Held(requirement', p)
           /\ \A p \in design'[d][i].allocations : Held(allocation', p)
  BY <1>1 DEF PinsInvariant, PinsHeld
<1> QED
  BY <1>2, <1>3, <1>4, <1>5, <1>6

\* A client is answered.
LEMMA AnsweredStep ==
  ASSUME PinsInvariant, NEW c \in Clients, UNCHANGED <<registers, receipts>>,
         NEW reply \in {"done", "refused"}, Answer(c, reply), Sending(c),
         reply = "done" => form[c].key \in receipts,
         reply = "refused" /\ form[c].key \in receipts => Outdated(form[c].cmd)
  PROVE  PinsInvariant'
<1>0. Types /\ PinsHeld /\ OwnKeys /\ FormsSettled
  BY DEF PinsInvariant
<1>1. /\ UNCHANGED registers /\ receipts' = receipts /\ form' = form /\ issued' = issued
      /\ (told' = [told EXCEPT ![c] = reply] \/ told' = told)
  BY DEF Answer
<1>2. form[c] # None /\ told[c] = None
  BY DEF Sending
<1>3. /\ told' \in [Clients -> {None, "done", "refused"}]
      /\ told'[c] \in {None, reply}
      /\ \A e \in Clients : e # c => told'[e] = told[e]
  BY <1>0, <1>1, <1>2 DEF Types
<1>4. Types'
  BY <1>0, <1>1, <1>3 DEF Types, registers, Form
<1>5. /\ Growing /\ DesignsRest' /\ AssessedStaysStale'
      /\ \A i \in 1..Len(assessments') : Seen(assessments[i].review)'
      /\ \A a \in Allocations : \A i \in 1..Len(allocation'[a]) :
           Held(requirement', allocation'[a][i].pin)
      /\ \A d \in Designs : \A i \in 1..Len(design'[d]) :
           /\ \A p \in design'[d][i].requirements : Held(requirement', p)
           /\ \A p \in design'[d][i].allocations : Held(allocation', p)
  BY <1>1, RegistersUnmoved
<1>6. PinsHeld'
  BY <1>1, <1>4, <1>5, PinsStayHeld
<1>7. KeysSettled'
  BY NothingWritten DEF PinsInvariant
<1>8. OwnKeys'
  BY <1>0, <1>1, <1>2, <1>3 DEF OwnKeys
<1>9. ReviewsSeen'
  <2>1. ASSUME NEW e \in Clients, form'[e] # None, form'[e].cmd.op = "assess"
        PROVE  form'[e].cmd.review \in ReviewRow /\ Seen(form[e].cmd.review)'
    BY <1>1, <1>4, <1>5, <2>1, FormsSeen
  <2> QED
    BY <1>5, <2>1 DEF ReviewsSeen
<1>10. FormsSettled'
  <2>1. ASSUME NEW e \in Clients, form'[e] # None
        PROVE  /\ form'[e].key \in receipts' => Carried(form[e].cmd)'
               /\ told'[e] = "done" => form'[e].key \in receipts'
               /\ told'[e] = "refused" /\ form'[e].key \in receipts' => Outdated(form[e].cmd)'
    <3>1. form'[e] = form[e] /\ form[e] # None /\ receipts' = receipts
      BY <1>1, <2>1
    <3>2. /\ form[e].key \in receipts => Carried(form[e].cmd)
          /\ told'[e] = "done" => form[e].key \in receipts
          /\ told'[e] = "refused" /\ form[e].key \in receipts => Outdated(form[e].cmd)
      BY <1>0, <1>3, <3>1, IdentifiersAssumption DEF FormsSettled
    <3>3. form[e].key \in receipts => Carried(form[e].cmd)'
      BY <1>4, <1>5, <3>1, <3>2, CarriedStays
    <3>4. told'[e] = "refused" /\ form[e].key \in receipts => Outdated(form[e].cmd)'
      BY <1>4, <1>5, <1>6, <3>1, <3>2, MovedStays
    <3> QED
      BY <3>1, <3>2, <3>3, <3>4
  <2> QED
    BY <2>1 DEF FormsSettled
<1> QED
  BY <1>4, <1>5, <1>6, <1>7, <1>8, <1>9, <1>10 DEF PinsInvariant

LEMMA ReplayStep ==
  ASSUME PinsInvariant, NEW c \in Clients, Replay(c)
  PROVE  PinsInvariant'
<1>1. /\ UNCHANGED <<registers, receipts>> /\ Answer(c, "done") /\ Sending(c)
      /\ form[c].key \in receipts
  BY DEF Replay, Known
<1> QED
  BY <1>1, AnsweredStep

\* A command that was carried out is refused only when something moved.
LEMMA RefuseStep ==
  ASSUME PinsInvariant, NEW c \in Clients, Refuse(c)
  PROVE  PinsInvariant'
<1>0. Types /\ PinsHeld /\ FormsSettled
  BY DEF PinsInvariant
<1>1. UNCHANGED <<registers, receipts>> /\ Answer(c, "refused") /\ Sending(c)
  BY DEF Refuse
<1>2. ASSUME form[c].key \in receipts PROVE Outdated(form[c].cmd)
  <2>1. form[c] # None /\ form[c] \in Form
    BY <1>0, <1>1 DEF Sending, Types
  <2>2. PICK m \in Cmd : m = form[c].cmd
    BY <2>1 DEF Form
  <2>3. ~Authorised(m)
    BY <1>2, <2>2 DEF Refuse, Known
  <2>4. /\ m.op = "design" => RestingOn(m.requirements, m.allocations)
        /\ m.op = "assess" => Changes(m.review) # {}
    BY <1>0, <1>2, <2>1, <2>2 DEF FormsSettled, Carried
  <2>5. CASE m.op = "assess" /\ ~Assessable(m)
    BY <2>2, <2>4, <2>5 DEF Assessable, Outdated
  <2>6. CASE m.op = "design" /\ ~Coherent(m)
    <3>1. SUFFICES ASSUME \A p \in m.requirements : Current(requirement, p),
                          \A p \in m.allocations : Current(allocation, p)
                   PROVE  Coherent(m)
      BY <2>2, <2>6 DEF Outdated
    <3>2. \A p \in m.requirements : p.id \notin Legacy
      BY <2>4, <2>6 DEF RestingOn
    <3>3. ASSUME NEW p \in m.allocations
          PROVE  Latest(allocation[p.id]).pin \in m.requirements
      <4>1. allocation[p.id][p.version].pin \in m.requirements
        BY <2>4, <2>6 DEF RestingOn
      <4>2. p.version = Len(allocation[p.id])
        BY <3>1 DEF Current
      <4> QED
        BY <4>1, <4>2 DEF Latest
    <3> QED
      BY <3>1, <3>2, <3>3 DEF Coherent
  <2> QED
    BY <2>3, <2>5, <2>6 DEF Authorised
<1> QED
  BY <1>1, <1>2, AnsweredStep

LEMMA DraftsTyped ==
  ASSUME Types, PinsHeld, NEW m \in Drafts
  PROVE  /\ m \in Cmd
         /\ \A p \in m.requirements : Held(requirement, p)
         /\ \A p \in m.allocations : Held(allocation, p)
         /\ m.op = "assess" => m.review \in ReviewRow /\ Seen(m.review)
<1> DEFINE Target == [id: Requirements \cup Allocations \cup Designs \cup {None}, version: Nat]
<1>1. /\ \A p \in Shown(requirement) : p \in Pins(Requirements) /\ Held(requirement, p) /\ p \in Target
      /\ \A p \in Shown(allocation) : p \in Pins(Allocations) /\ Held(allocation, p) /\ p \in Target
      /\ \A p \in Shown(design) : p \in Target
  <2>1. ASSUME NEW r \in Recorded(requirement)
        PROVE  /\ PinTo(requirement, r) \in Pins(Requirements)
               /\ Held(requirement, PinTo(requirement, r)) /\ PinTo(requirement, r) \in Target
    <3>1. r \in Requirements /\ Len(requirement[r]) \in Nat \ {0}
      BY LatestRows
    <3> QED
      BY <3>1 DEF PinTo, Pins, Held
  <2>2. ASSUME NEW a \in Recorded(allocation)
        PROVE  /\ PinTo(allocation, a) \in Pins(Allocations)
               /\ Held(allocation, PinTo(allocation, a)) /\ PinTo(allocation, a) \in Target
    <3>1. a \in Allocations /\ Len(allocation[a]) \in Nat \ {0}
      BY LatestRows
    <3> QED
      BY <3>1 DEF PinTo, Pins, Held
  <2>3. ASSUME NEW d \in Recorded(design) PROVE PinTo(design, d) \in Target
    <3>1. d \in Designs /\ Len(design[d]) \in Nat \ {0}
      BY LatestRows
    <3> QED
      BY <3>1 DEF PinTo
  <2> QED
    BY <2>1, <2>2, <2>3 DEF Shown
<1>2. New \in Target
  BY DEF New
<1> HIDE DEF Target
<1>3. ASSUME NEW op \in {"requirement", "allocation", "design"}, NEW p \in Target,
             NEW rs \in SUBSET Shown(requirement), NEW as \in SUBSET Shown(allocation),
             m = Command(op, p, rs, as, None)
      PROVE  /\ m \in Cmd /\ m.op # "assess"
             /\ \A q \in m.requirements : Held(requirement, q)
             /\ \A q \in m.allocations : Held(allocation, q)
  <2>1. rs \in SUBSET Pins(Requirements) /\ as \in SUBSET Pins(Allocations)
    BY <1>1
  <2>2. m = [op |-> op, pin |-> p, requirements |-> rs, allocations |-> as, review |-> None]
    BY <1>3 DEF Command
  <2>3. m \in Cmd
    BY <2>1, <2>2 DEF Cmd, Target
  <2> QED
    BY <1>1, <2>2, <2>3
<1>4. ASSUME NEW v \in Reviews, m = Command("assess", New, {}, {}, v)
      PROVE  /\ m \in Cmd /\ m.review \in ReviewRow /\ Seen(m.review)
             /\ m.requirements = {} /\ m.allocations = {}
  <2>1. v \in ReviewRow /\ Seen(v)
    BY ReviewsAreRows
  <2>2. m = [op |-> "assess", pin |-> New, requirements |-> {}, allocations |-> {}, review |-> v]
    BY <1>4 DEF Command
  <2>3. m \in Cmd
    BY <1>2, <2>1, <2>2 DEF Cmd, Target
  <2> QED
    BY <2>1, <2>2, <2>3
<1>5. \/ \E p \in Target : m = Command("requirement", p, {}, {}, None)
      \/ \E p \in Target, r \in Shown(requirement) : m = Command("allocation", p, {r}, {}, None)
      \/ \E p \in Target, rs \in SUBSET Shown(requirement), as \in SUBSET Shown(allocation) :
           m = Command("design", p, rs, as, None)
      \/ \E v \in Reviews : m = Command("assess", New, {}, {}, v)
  <2> DEFINE First == {Command("requirement", p, {}, {}, None) : p \in Shown(requirement) \cup {New}}
             Second == {Command("allocation", p, {r}, {}, None) :
                          p \in Shown(allocation) \cup {New}, r \in Shown(requirement)}
             Third == {Command("design", p, rs, as, None) :
                         p \in Shown(design) \cup {New}, rs \in (SUBSET Shown(requirement)) \ {{}},
                         as \in SUBSET Shown(allocation)}
             Fourth == {Command("assess", New, {}, {}, v) : v \in Reviews}
  <2>1. ASSUME m \in First PROVE \E p \in Target : m = Command("requirement", p, {}, {}, None)
    BY <1>1, <1>2, <2>1
  <2>2. ASSUME m \in Second
        PROVE  \E p \in Target, r \in Shown(requirement) : m = Command("allocation", p, {r}, {}, None)
    <3>1. PICK p \in Shown(allocation) \cup {New}, r \in Shown(requirement) :
            m = Command("allocation", p, {r}, {}, None)
      BY <2>2
    <3> p \in Target
      BY <1>1, <1>2
    <3> WITNESS p \in Target, r \in Shown(requirement)
    <3> QED
      BY <3>1
  <2>3. ASSUME m \in Third
        PROVE  \E p \in Target, rs \in SUBSET Shown(requirement), as \in SUBSET Shown(allocation) :
                 m = Command("design", p, rs, as, None)
    BY <1>1, <1>2, <2>3
  <2>4. ASSUME m \in Fourth PROVE \E v \in Reviews : m = Command("assess", New, {}, {}, v)
    BY <2>4
  <2>5. Drafts = First \cup Second \cup Third \cup Fourth
    BY DEF Drafts
  <2> HIDE DEF First, Second, Third, Fourth
  <2>6. m \in First \/ m \in Second \/ m \in Third \/ m \in Fourth
    BY <2>5
  <2> QED
    BY <2>1, <2>2, <2>3, <2>4, <2>6
<1>6. CASE \E p \in Target : m = Command("requirement", p, {}, {}, None)
  <2>1. PICK p \in Target : m = Command("requirement", p, {}, {}, None)
    BY <1>6
  <2>2. {} \in SUBSET Shown(requirement) /\ {} \in SUBSET Shown(allocation)
    OBVIOUS
  <2> QED
    BY <1>3, <2>1, <2>2
<1>7. CASE \E p \in Target, r \in Shown(requirement) : m = Command("allocation", p, {r}, {}, None)
  <2>1. PICK p \in Target, r \in Shown(requirement) : m = Command("allocation", p, {r}, {}, None)
    BY <1>7
  <2>2. {r} \in SUBSET Shown(requirement) /\ {} \in SUBSET Shown(allocation)
    OBVIOUS
  <2> QED
    BY <1>3, <2>1, <2>2
<1>8. CASE \E p \in Target, rs \in SUBSET Shown(requirement), as \in SUBSET Shown(allocation) :
             m = Command("design", p, rs, as, None)
  BY <1>3, <1>8
<1>9. CASE \E v \in Reviews : m = Command("assess", New, {}, {}, v)
  BY <1>4, <1>9
<1> QED
  BY <1>5, <1>6, <1>7, <1>8, <1>9

LEMMA PrepareStep ==
  ASSUME PinsInvariant, NEW c \in Clients, Prepare(c)
  PROVE  PinsInvariant'
<1>0. Types /\ PinsHeld /\ OwnKeys /\ FormsSettled
  BY DEF PinsInvariant
<1>1. UNCHANGED registers /\ receipts' = receipts /\ issued' = issued + 1
      /\ told' = [told EXCEPT ![c] = None]
  BY DEF Prepare
<1>2. PICK m \in Drafts : form' = [form EXCEPT ![c] = [key |-> issued + 1, cmd |-> m]]
  BY DEF Prepare
<1>3. /\ m \in Cmd
      /\ \A p \in m.requirements : Held(requirement, p)
      /\ \A p \in m.allocations : Held(allocation, p)
      /\ m.op = "assess" => m.review \in ReviewRow /\ Seen(m.review)
  BY <1>0, DraftsTyped
<1>4. /\ issued \in Nat /\ issued + 1 \notin 1..issued /\ 1..issued \subseteq 1..(issued + 1)
      /\ issued + 1 \in 1..(issued + 1) /\ receipts \subseteq 1..issued
  BY <1>0 DEF Types
<1>5. /\ form'[c] = [key |-> issued + 1, cmd |-> m]
      /\ \A e \in Clients : e # c => form'[e] = form[e]
      /\ told'[c] = None
      /\ \A e \in Clients : e # c => told'[e] = told[e]
      /\ told' \in [Clients -> {None, "done", "refused"}]
  BY <1>0, <1>1, <1>2 DEF Types
<1>6. form' \in [Clients -> {None} \cup Form']
  <2>1. ASSUME NEW e \in Clients PROVE form'[e] \in {None} \cup [key: 1..(issued + 1), cmd: Cmd]
    <3>1. CASE e = c
      BY <1>3, <1>4, <1>5, <3>1
    <3>2. CASE e # c
      <4>1. form[e] \in {None} \cup [key: 1..issued, cmd: Cmd]
        BY <1>0 DEF Types, Form
      <4>2. [key: 1..issued, cmd: Cmd] \subseteq [key: 1..(issued + 1), cmd: Cmd]
        BY <1>4
      <4> QED
        BY <1>5, <3>2, <4>1, <4>2
    <3> QED
      BY <3>1, <3>2
  <2>2. form' \in [Clients -> {None} \cup [key: 1..(issued + 1), cmd: Cmd]]
    BY <1>0, <1>2, <2>1 DEF Types
  <2> QED
    BY <1>1, <2>2 DEF Form
<1>7. Types'
  <2>1. issued' \in Nat /\ receipts' \subseteq 1..issued'
    BY <1>1, <1>4
  <2> QED
    BY <1>0, <1>1, <1>5, <1>6, <2>1 DEF Types, registers
<1>8. /\ Growing /\ DesignsRest' /\ AssessedStaysStale'
      /\ \A i \in 1..Len(assessments') : Seen(assessments[i].review)'
      /\ \A a \in Allocations : \A i \in 1..Len(allocation'[a]) :
           Held(requirement', allocation'[a][i].pin)
      /\ \A d \in Designs : \A i \in 1..Len(design'[d]) :
           /\ \A p \in design'[d][i].requirements : Held(requirement', p)
           /\ \A p \in design'[d][i].allocations : Held(allocation', p)
  BY <1>1, RegistersUnmoved
<1>9. requirement' = requirement /\ allocation' = allocation /\ design' = design
  BY <1>1 DEF registers
<1>10. PinsHeld'
  <2>1. ASSUME NEW e \in Clients, form'[e] # None
        PROVE  /\ \A p \in form'[e].cmd.requirements : Held(requirement', p)
               /\ \A p \in form'[e].cmd.allocations : Held(allocation', p)
    BY <1>0, <1>3, <1>5, <1>9, <2>1 DEF PinsHeld
  <2> QED
    BY <1>8, <2>1 DEF PinsHeld
<1>11. KeysSettled'
  BY <1>1, NothingWritten DEF PinsInvariant
<1>12. OwnKeys'
  <2>1. \A e \in Clients : form[e] # None => form[e].key \in 1..issued
    BY <1>0 DEF Types, Form
  <2>2. \A e \in Clients : e # c /\ form'[e] # None => form'[e].key # issued + 1
    BY <1>4, <1>5, <2>1
  <2>3. form'[c].key = issued + 1
    BY <1>5
  <2>4. \A e, f \in Clients : form'[e] # None /\ form'[f] # None /\ form'[e].key = form'[f].key => e = f
    BY <1>0, <1>5, <2>2, <2>3 DEF OwnKeys
  <2>5. \A e \in Clients : told'[e] # None => form'[e] # None
    BY <1>0, <1>5 DEF OwnKeys
  <2> QED
    BY <2>4, <2>5 DEF OwnKeys
<1>13. ReviewsSeen'
  <2>1. ASSUME NEW e \in Clients, form'[e] # None, form'[e].cmd.op = "assess"
        PROVE  form'[e].cmd.review \in ReviewRow /\ Seen(form[e].cmd.review)'
    <3>1. CASE e = c
      <4>1. form'[e].cmd = m
        BY <1>5, <3>1
      <4>2. m.review \in ReviewRow /\ Seen(m.review)
        BY <1>3, <2>1, <4>1
      <4> QED
        BY <1>9, <4>1, <4>2 DEF Seen
    <3>2. CASE e # c
      BY <1>5, <1>7, <1>8, <2>1, <3>2, FormsSeen
    <3> QED
      BY <3>1, <3>2
  <2> QED
    BY <1>8, <2>1 DEF ReviewsSeen
<1>14. FormsSettled'
  <2>1. ASSUME NEW e \in Clients, form'[e] # None
        PROVE  /\ form'[e].key \in receipts' => Carried(form[e].cmd)'
               /\ told'[e] = "done" => form'[e].key \in receipts'
               /\ told'[e] = "refused" /\ form'[e].key \in receipts' => Outdated(form[e].cmd)'
    <3>1. CASE e = c
      <4>1. form'[e].key \notin receipts'
        BY <1>1, <1>4, <1>5, <3>1
      <4>2. told'[e] \notin {"done", "refused"}
        BY <1>5, <3>1, IdentifiersAssumption
      <4> QED
        BY <4>1, <4>2
    <3>2. CASE e # c
      <4>1. form'[e] = form[e] /\ form[e] # None /\ told'[e] = told[e] /\ receipts' = receipts
        BY <1>1, <1>5, <2>1, <3>2
      <4>2. /\ form[e].key \in receipts => Carried(form[e].cmd)
            /\ told[e] = "done" => form[e].key \in receipts
            /\ told[e] = "refused" /\ form[e].key \in receipts => Outdated(form[e].cmd)
        BY <1>0, <4>1 DEF FormsSettled
      <4>3. form[e].key \in receipts => Carried(form[e].cmd)'
        BY <1>7, <1>8, <4>1, <4>2, CarriedStays
      <4>4. told[e] = "refused" /\ form[e].key \in receipts => Outdated(form[e].cmd)'
        BY <1>7, <1>8, <1>10, <4>1, <4>2, MovedStays
      <4> QED
        BY <4>1, <4>2, <4>3, <4>4
    <3> QED
      BY <3>1, <3>2
  <2> QED
    BY <2>1 DEF FormsSettled
<1> QED
  BY <1>7, <1>8, <1>10, <1>11, <1>12, <1>13, <1>14 DEF PinsInvariant

-----------------------------------------------------------------------------
(* The theorems. *)

LEMMA PinsStart ==
  ASSUME PinsInit
  PROVE  PinsInvariant
<1>1. /\ requirement \in [Requirements -> Seq(RequirementRow)]
      /\ allocation = [a \in Allocations |-> <<>>] /\ design = [d \in Designs |-> <<>>]
      /\ assessments = <<>> /\ receipts = {} /\ issued = 0
      /\ form = [c \in Clients |-> None] /\ told = [c \in Clients |-> None]
  <2>1. [key |-> 0] \in RequirementRow
    BY DEF RequirementRow
  <2>2. <<[key |-> 0]>> \in Seq(RequirementRow) /\ <<>> \in Seq(RequirementRow)
    BY <2>1
  <2> QED
    BY <2>2 DEF PinsInit
<1>2. /\ allocation \in [Allocations -> Seq(AllocationRow)] /\ design \in [Designs -> Seq(DesignRow)]
      /\ assessments \in Seq(AssessmentRow) /\ DOMAIN assessments = {} /\ Len(assessments) = 0
  BY <1>1
<1>3. Types
  BY <1>1, <1>2 DEF Types
<1>4. /\ \A a \in Allocations : Len(allocation[a]) = 0 /\ DOMAIN allocation[a] = {}
      /\ \A d \in Designs : Len(design[d]) = 0 /\ DOMAIN design[d] = {}
  BY <1>1
<1>5. PinsHeld /\ DesignsRest /\ ReviewsSeen /\ OwnKeys /\ FormsSettled /\ AssessedStaysStale
  BY <1>1, <1>2, <1>4 DEF PinsHeld, DesignsRest, ReviewsSeen, OwnKeys, FormsSettled, AssessedStaysStale
<1>6. ASSUME NEW k \in PinKeys PROVE WrittenUnder(k) = {}
  <2>1. \A r \in DOMAIN requirement : \A i \in DOMAIN requirement[r] : requirement[r][i].key # k
    <3>1. k # 0
      BY DEF PinKeys
    <3> QED
      BY <3>1 DEF PinsInit
  <2>2. Revisions(allocation) = {} /\ Revisions(design) = {}
    BY <1>1, <1>4 DEF Revisions
  <2>3. Keyed(requirement, k) = {} /\ Keyed(allocation, k) = {} /\ Keyed(design, k) = {}
    BY <2>1, <2>2 DEF Keyed, Revisions
  <2> QED
    BY <1>2, <2>3 DEF WrittenUnder
<1>7. KeysSettled
  BY <1>1, <1>6 DEF KeysSettled
<1> QED
  BY <1>3, <1>5, <1>7 DEF PinsInvariant

\* A step that leaves every variable as it is.
LEMMA PinsStutter ==
  ASSUME PinsInvariant, UNCHANGED pinsVars
  PROVE  PinsInvariant'
<1>1. /\ UNCHANGED <<registers, receipts>> /\ form' = form /\ told' = told /\ issued' = issued
      /\ UNCHANGED registers
  BY DEF pinsVars
<1>2. Types' /\ OwnKeys'
  BY <1>1 DEF PinsInvariant, Types, OwnKeys, registers, Form
<1>3. /\ Growing /\ DesignsRest' /\ AssessedStaysStale'
      /\ \A i \in 1..Len(assessments') : Seen(assessments[i].review)'
      /\ \A a \in Allocations : \A i \in 1..Len(allocation'[a]) :
           Held(requirement', allocation'[a][i].pin)
      /\ \A d \in Designs : \A i \in 1..Len(design'[d]) :
           /\ \A p \in design'[d][i].requirements : Held(requirement', p)
           /\ \A p \in design'[d][i].allocations : Held(allocation', p)
  BY <1>1, RegistersUnmoved
<1>4. PinsHeld' /\ KeysSettled'
  BY <1>1, <1>2, <1>3, PinsStayHeld, NothingWritten DEF PinsInvariant
<1>5. ReviewsSeen'
  <2>1. ASSUME NEW e \in Clients, form'[e] # None, form'[e].cmd.op = "assess"
        PROVE  form'[e].cmd.review \in ReviewRow /\ Seen(form[e].cmd.review)'
    BY <1>1, <1>2, <1>3, <2>1, FormsSeen
  <2> QED
    BY <1>3, <2>1 DEF ReviewsSeen
<1>6. FormsSettled'
  <2>1. ASSUME NEW e \in Clients, form'[e] # None
        PROVE  /\ form'[e].key \in receipts' => Carried(form[e].cmd)'
               /\ told'[e] = "done" => form'[e].key \in receipts'
               /\ told'[e] = "refused" /\ form'[e].key \in receipts' => Outdated(form[e].cmd)'
    <3>1. /\ form[e].key \in receipts => Carried(form[e].cmd)
          /\ told[e] = "done" => form[e].key \in receipts
          /\ told[e] = "refused" /\ form[e].key \in receipts => Outdated(form[e].cmd)
      BY <1>1, <2>1 DEF PinsInvariant, FormsSettled
    <3>2. form[e] # None /\ form'[e] = form[e]
      BY <1>1, <2>1
    <3>3. form[e].key \in receipts => Carried(form[e].cmd)'
      BY <1>2, <1>3, <3>1, <3>2, CarriedStays
    <3>4. told[e] = "refused" /\ form[e].key \in receipts => Outdated(form[e].cmd)'
      BY <1>2, <1>3, <1>4, <3>1, <3>2, MovedStays
    <3> QED
      BY <1>1, <3>1, <3>3, <3>4
  <2> QED
    BY <2>1 DEF FormsSettled
<1> QED
  BY <1>2, <1>3, <1>4, <1>5, <1>6 DEF PinsInvariant

LEMMA PinsAlways == PinsSpec => []PinsInvariant
<1>1. PinsInit => PinsInvariant
  BY PinsStart
<1>2. PinsInvariant /\ [PinsNext]_pinsVars => PinsInvariant'
  <2> SUFFICES ASSUME PinsInvariant, [PinsNext]_pinsVars PROVE PinsInvariant'
    OBVIOUS
  <2>1. ASSUME NEW c \in Clients, PinsStep(c) PROVE PinsInvariant'
    BY <2>1, PrepareStep, RequirementStep, AllocationStep, DesignStep, AssessStep, ReplayStep, RefuseStep
       DEF PinsStep
  <2>2. CASE UNCHANGED pinsVars
    BY <2>2, PinsStutter
  <2> QED
    BY <2>1, <2>2 DEF PinsNext
<1> QED
  BY <1>1, <1>2, PTL DEF PinsSpec

\* The registers pin existing records, and every key in use was issued.
THEOREM PinsTyped == PinsSpec => []PinsTypeOK
<1>1. PinsInvariant => PinsTypeOK
  <2> SUFFICES ASSUME PinsInvariant PROVE PinsTypeOK
    OBVIOUS
  <2>0. Types /\ PinsHeld /\ KeysSettled
    BY DEF PinsInvariant
  <2>1. ASSUME NEW r \in Requirements, NEW i \in DOMAIN requirement[r]
        PROVE  requirement[r][i].key \in 0..issued
    <3>1. requirement[r] \in Seq(RequirementRow) /\ DOMAIN requirement = Requirements
      BY <2>0 DEF Types
    <3>2. requirement[r][i].key \in Nat
      <4>1. requirement[r][i] \in RequirementRow
        BY <3>1
      <4> QED
        BY <4>1 DEF RequirementRow
    <3>3. ASSUME requirement[r][i].key \in PinKeys PROVE requirement[r][i].key \in receipts
      <4>1. <<r, i>> \in Keyed(requirement, requirement[r][i].key)
        BY <3>1 DEF Keyed, Revisions
      <4>2. WrittenUnder(requirement[r][i].key) # {}
        BY <4>1 DEF WrittenUnder
      <4> QED
        BY <2>0, <3>3, <4>2 DEF KeysSettled
    <3>4. receipts \subseteq 1..issued /\ issued \in Nat
      BY <2>0 DEF Types
    <3> QED
      BY <3>2, <3>3, <3>4 DEF PinKeys
  <2>2. /\ \A a \in Allocations : DOMAIN allocation[a] = 1..Len(allocation[a])
        /\ \A d \in Designs : DOMAIN design[d] = 1..Len(design[d])
        /\ DOMAIN requirement = Requirements /\ DOMAIN allocation = Allocations
    BY <2>0, Lengths DEF Types
  <2>3. \A a \in Allocations : \A i \in DOMAIN allocation[a] : allocation[a][i].pin \in Pin(requirement)
    <3> SUFFICES ASSUME NEW a \in Allocations, NEW i \in DOMAIN allocation[a]
                 PROVE  allocation[a][i].pin \in Pin(requirement)
      OBVIOUS
    <3>1. i \in 1..Len(allocation[a])
      BY <2>2
    <3>2. allocation[a][i].pin \in Pins(Requirements)
      BY <2>0, <3>1, AllocationRows
    <3> QED
      BY <2>2, <3>2 DEF Pin, Pins
  <2>4. \A d \in Designs : \A i \in DOMAIN design[d] :
          /\ design[d][i].requirements \subseteq Pin(requirement)
          /\ design[d][i].allocations \subseteq Pin(allocation)
    BY <2>0, <2>2, DesignRows DEF Pin, Pins
  <2>5. receipts \subseteq 1..issued /\ told \in [Clients -> {None, "done", "refused"}]
    BY <2>0 DEF Types
  <2> QED
    BY <2>1, <2>3, <2>4, <2>5 DEF PinsTypeOK
<1> QED
  BY <1>1, PinsAlways, PTL

\* The design register and the impact review judge staleness alike, and what was
\* assessed stays stale until it is revised.
THEOREM PinsAgree == PinsSpec => []RegistersAgree
<1>1. PinsInvariant => RegistersAgree
  <2> SUFFICES ASSUME PinsInvariant PROVE RegistersAgree
    OBVIOUS
  <2>1. DesignsJudgedAlike
    BY StaleShows, FreshAllTheWay DEF PinsInvariant, DesignsJudgedAlike
  <2> QED
    BY <2>1 DEF PinsInvariant, RegistersAgree
<1> QED
  BY <1>1, PinsAlways, PTL

\* Each command is written once and answered truly, but for designs and
\* assessments whose sources have moved.
THEOREM PinsSettled == PinsSpec => []CommandsSettled
<1>1. PinsInvariant => CommandsSettled
  <2> SUFFICES ASSUME PinsInvariant PROVE CommandsSettled
    OBVIOUS
  <2>0. Types /\ KeysSettled /\ OwnKeys /\ FormsSettled
    BY DEF PinsInvariant
  <2>1. \A c \in Clients : told[c] # None => form[c] # None /\ form[c].key \in PinKeys
    BY <2>0 DEF Types, OwnKeys, Form, PinKeys
  <2>2. \A key \in 1..issued : \A x, y \in WrittenUnder(key) : x = y
    BY <2>0 DEF KeysSettled, PinKeys, Types
  <2>3. \A c \in Clients : told[c] = "done" => WrittenUnder(form[c].key) # {}
    BY <2>0, <2>1, IdentifiersAssumption DEF KeysSettled, FormsSettled
  <2>4. ASSUME NEW c \in Clients, told[c] = "refused", WrittenUnder(form[c].key) # {}
        PROVE  Outdated(form[c].cmd)
    BY <2>0, <2>1, <2>4, IdentifiersAssumption DEF KeysSettled, FormsSettled
  <2> QED
    BY <2>2, <2>3, <2>4 DEF CommandsSettled, WrittenOnce, RetriesAnswered, Outdated
<1> QED
  BY <1>1, PinsAlways, PTL

\* Designs pin what their authors were shown, and follow the revision shown.
THEOREM PinsDesigned == PinsSpec => DesignedAsShown
<1> DEFINE Shows(d) == \E c \in Clients :
             /\ Sending(c)
             /\ form[c].cmd.pin \in {New, PinTo(design, d)}
             /\ Latest(design'[d]).requirements = form[c].cmd.requirements
             /\ Latest(design'[d]).allocations = form[c].cmd.allocations
<1>1. PinsInvariant /\ [PinsNext]_pinsVars =>
        [\A d \in Designs : design'[d] # design[d] => Shows(d)]_pinsVars
  <2> SUFFICES ASSUME PinsInvariant, PinsNext, NEW d \in Designs, design'[d] # design[d]
               PROVE  Shows(d)
    OBVIOUS
  <2>1. PICK c \in Clients : WriteDesign(c)
    BY DEF PinsNext, PinsStep, Prepare, WriteRequirement, WriteAllocation, Assess, Replay, Refuse, registers
  <2>2. Types /\ Accepted(c, "design")
    BY <2>1 DEF PinsInvariant, WriteDesign
  <2>3. form[c].cmd \in Cmd /\ form[c].key \in Nat /\ form[c].cmd.op = "design"
    BY <2>2, AcceptedFacts DEF PinKeys
  <2> DEFINE rs == form[c].cmd.requirements
             as == form[c].cmd.allocations
             row == [key |-> form[c].key, requirements |-> rs, allocations |-> as]
  <2>4. /\ rs \in SUBSET Pins(Requirements) /\ as \in SUBSET Pins(Allocations)
        /\ {PinTo(requirement, p.id) : p \in rs} = rs /\ {PinTo(allocation, p.id) : p \in as} = as
    BY <2>2, DesignAccepted
  <2>5. Appended(design, form[c].cmd.pin, row)
    BY <2>1, <2>4 DEF WriteDesign
  <2>6. PICK id \in Designs :
          /\ form[c].cmd.pin # New => id = form[c].cmd.pin.id
          /\ design' = [design EXCEPT ![id] = Append(@, row)]
    BY <2>2, <2>5 DEF Appended, Types
  <2>7. id = d
    BY <2>2, <2>6 DEF Types
  <2>8. Latest(design'[d]) = row
    <3>1. design[d] \in Seq(DesignRow) /\ design'[d] = Append(design[d], row)
      BY <2>2, <2>6, <2>7 DEF Types
    <3> HIDE DEF row
    <3>2. Len(design'[d]) = Len(design[d]) + 1 /\ design'[d][Len(design[d]) + 1] = row
      BY <3>1
    <3> QED
      BY <3>2 DEF Latest
  <2>9. Sending(c)
    BY <2>2 DEF Accepted
  <2>10. form[c].cmd.pin # New => form[c].cmd.pin = PinTo(design, d)
    <3> SUFFICES ASSUME form[c].cmd.pin # New PROVE form[c].cmd.pin = PinTo(design, d)
      OBVIOUS
    <3>1. form[c].cmd.pin.version = Len(design[form[c].cmd.pin.id]) /\ form[c].cmd.pin.id = d
      BY <2>2, <2>3, <2>6, <2>7 DEF Accepted, Acceptable, DesignAcceptable, Current
    <3>2. form[c].cmd.pin \in [id: Requirements \cup Allocations \cup Designs \cup {None}, version: Nat]
      BY <2>3 DEF Cmd
    <3> QED
      BY <3>1, <3>2 DEF PinTo
  <2> QED
    BY <2>8, <2>9, <2>10
<1>2. PinsInvariant /\ [PinsNext]_pinsVars =>
        [\A d \in Designs : design'[d] # design[d] =>
           \E c \in Clients :
             /\ Sending(c)
             /\ form[c].cmd.pin \in {New, PinTo(design, d)}
             /\ Latest(design'[d]).requirements = form[c].cmd.requirements
             /\ Latest(design'[d]).allocations = form[c].cmd.allocations]_pinsVars
  BY <1>1
<1> QED
  BY <1>2, PinsAlways, PTL DEF PinsSpec, DesignedAsShown
===============================================================================
