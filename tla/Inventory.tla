------------------------------- MODULE Inventory -------------------------------
(***************************************************************************)
(* Resources that projects reserve and that go on maintenance hold, and    *)
(* assets that are allocated to projects and moved between warehouse and   *)
(* site.  All of it is in maps of the process, and every handler runs to   *)
(* its end without an await, so that each request is one step.             *)
(*                                                                         *)
(* Every reservation and allocation is confirmed from its creation: no     *)
(* handler makes one tentative, releases or cancels it.  Assets are        *)
(* single pieces here, and what is logged of a movement is left out.       *)
(***************************************************************************)
EXTENDS Naturals, Sequences, FiniteSets, FiniteSetsExt, NoValue

CONSTANTS
  Resources, Kind, Total,  \* "serialized" or "bulk", and how many pieces
  Assets, TagOf,           \* the tag on each asset, which is not unique
  Projects,
  Moments,                 \* points in time
  MaxReservations, MaxHolds, MaxAllocations, MaxMovements,  \* bounds
  Unreadable               \* the window of dates that cannot be parsed

Tags == {TagOf[a] : a \in Assets}

Conditions == {"good", "damaged"}

ResourceRow ==
  [usable: Nat, status: {"serviceable", "in_maintenance"}, writer: {"EOS", "LEGACY_LOCKED"}]

AssetRow ==
  [condition: Conditions,
   availability: {"available", "allocated", "damaged", "dispatched", "returned"}]

\* Identifiers are made up at random, so that no tag is one.
ASSUME InventoryAssumption ==
  /\ Kind \in [Resources -> {"serialized", "bulk"}]
  /\ Total \in [Resources -> Nat \ {0}]
  /\ Moments \subseteq Int
  /\ Tags \cap Assets = {}
  /\ None \notin Assets \cup ResourceRow \cup AssetRow

VARIABLES
  resource,         \* resourceRepository
  reservation,      \* reservationRepository, in order of creation
  hold,             \* maintenanceHoldRepository, in order of creation
  asset,            \* assetRepository: the assets by id
  named,            \* assetRepository: which asset a tag finds
  assetAllocation,  \* assetAllocationRepository, in order of creation
  movements         \* number of movements executed

stockVars == <<resource, reservation, hold>>
assetVars == <<asset, named, assetAllocation, movements>>
inventoryVars == <<stockVars, assetVars>>

-----------------------------------------------------------------------------
(* Windows are half-open; the dates of a request are not compared. *)

Windows == [start: Moments, end: Moments] \cup {Unreadable}

Senseless(w) == w # Unreadable /\ w.start >= w.end

\* Two windows that can be compared and share a moment.
Overlap(v, w) ==
  /\ Unreadable \notin {v, w}
  /\ ~Senseless(v) /\ ~Senseless(w)
  /\ v.start < w.end /\ w.start < v.end

\* TimeUtil.overlaps returns true, or throws, which refuses a request as well.
Meets(v, w) == Overlap(v, w) \/ Senseless(v) \/ Senseless(w)

-----------------------------------------------------------------------------
(* Resources. *)

CreateResource(r) ==
  /\ resource[r] = None
  /\ \E writer \in {"EOS", "LEGACY_LOCKED"} :
       resource' = [resource EXCEPT ![r] =
         [usable |-> Total[r], status |-> "serviceable", writer |-> writer]]
  /\ UNCHANGED <<reservation, hold, assetVars>>

ReservationsOf(r) == {i \in DOMAIN reservation : reservation[i].resource = r}

\* Broken variant: the project's own reservations do not count.
FreeOfOthers(r, p, w) ==
  /\ resource[r].status = "serviceable" /\ resource[r].usable >= 1
  /\ resource[r].writer = "EOS"
  /\ \A i \in ReservationsOf(r) : reservation[i].project # p => ~Meets(reservation[i].window, w)

\* validateSerializedReservation.
Free(r, p, w) ==
  /\ resource[r].status = "serviceable" /\ resource[r].usable >= 1
  /\ resource[r].writer = "EOS"
  /\ \A i \in ReservationsOf(r) : ~Meets(reservation[i].window, w)

\* validateBulkReservation, which looks neither at the status nor at the writer.
Enough(r, n, w) ==
  LET others == ReservationsOf(r)
      Quantity(i) == reservation[i].quantity
  IN /\ \A i \in others : ~Senseless(reservation[i].window)
     /\ others # {} => ~Senseless(w)
     /\ MapThenSumSet(Quantity, {i \in others : Overlap(reservation[i].window, w)}) + n <= resource[r].usable

\* The last field is the number of reservations there were when this one was last
\* confirmed, zero if never (history).
Reservation(r, p, w, n) ==
  [resource |-> r, project |-> p, window |-> w, quantity |-> n, confirmed |-> 0]

Reserve(r, p, w, n) ==
  /\ resource[r] # None
  /\ Len(reservation) < MaxReservations
  /\ IF Kind[r] = "serialized" THEN Free(r, p, w) ELSE Enough(r, n, w)
  /\ reservation' = Append(reservation, Reservation(r, p, w, n))
  /\ UNCHANGED <<resource, hold, assetVars>>

\* Window and quantity are taken from the request, and nothing is looked at.
ConfirmReservation(i, w, n) ==
  /\ reservation' = [reservation EXCEPT
       ![i].window = w, ![i].quantity = n, ![i].confirmed = Len(reservation)]
  /\ UNCHANGED <<resource, hold, assetVars>>

PlaceHold(r) ==
  /\ resource[r] # None
  /\ Len(hold) < MaxHolds
  /\ hold' = Append(hold, [resource |-> r, active |-> TRUE])
  /\ resource' = [resource EXCEPT ![r].status = "in_maintenance",
       ![r].usable = IF Kind[r] = "serialized" \/ @ = 0 THEN 0 ELSE @ - 1]
  /\ UNCHANGED <<reservation, assetVars>>

\* Other holds of the resource are not looked at.
ReleaseHold(h) ==
  LET r == hold[h].resource
  IN /\ hold[h].active
     /\ hold' = [hold EXCEPT ![h].active = FALSE]
     /\ resource' = [resource EXCEPT ![r].status = "serviceable",
          ![r].usable = IF Kind[r] = "serialized" THEN Total[r] ELSE @ + 1]
     /\ UNCHANGED <<reservation, assetVars>>

-----------------------------------------------------------------------------
(* Assets. *)

RegisterAsset(a) ==
  /\ asset[a] = None
  /\ \E c \in Conditions : asset' = [asset EXCEPT ![a] = [condition |-> c, availability |-> "available"]]
  /\ named' = [named EXCEPT ![TagOf[a]] = a]
  /\ UNCHANGED <<assetAllocation, movements, stockVars>>

\* An asset is asked for by its id or by its tag.
Found(ref) == IF ref \in Assets THEN ref ELSE named[ref]

References == {a \in Assets : asset[a] # None} \cup {t \in DOMAIN named : named[t] # None}

\* Broken variant: allocations are looked up by the reference of the request.
AllocationsByReference(ref) == {i \in DOMAIN assetAllocation : assetAllocation[i].asset = ref}

AllocationsOf(ref) == {i \in DOMAIN assetAllocation : assetAllocation[i].asset = Found(ref)}

\* validateAssetProjectAllocation: a project's own allocations do not count.
Allocate(ref, p, w) ==
  /\ Len(assetAllocation) < MaxAllocations
  /\ asset[Found(ref)].condition # "damaged"
  /\ \A i \in AllocationsOf(ref) :
       assetAllocation[i].project # p => ~Meets(assetAllocation[i].window, w)
  /\ assetAllocation' = Append(assetAllocation, [asset |-> Found(ref), project |-> p, window |-> w])
  /\ asset' = [asset EXCEPT ![Found(ref)].availability = "allocated"]
  /\ UNCHANGED <<named, movements, stockVars>>

\* What a movement makes of an asset's availability, in its condition after it.
Moved(type, condition, before) ==
  CASE type = "inspected" -> IF condition = "damaged" THEN "damaged" ELSE "available"
    [] type = "restocked" -> "available"
    [] type \in {"dispatched", "returned"} -> type
    [] OTHER -> before

\* The tag now finds this asset, whatever it found before.
ExecuteMovement(ref, type, condition) ==
  /\ movements < MaxMovements
  /\ movements' = movements + 1
  /\ asset' = [asset EXCEPT ![Found(ref)] =
       [condition |-> condition, availability |-> Moved(type, condition, @.availability)]]
  /\ named' = [named EXCEPT ![TagOf[Found(ref)]] = Found(ref)]
  /\ UNCHANGED <<assetAllocation, stockVars>>

-----------------------------------------------------------------------------
Quantities(r) == IF Kind[r] = "serialized" THEN {1} ELSE 1 .. Total[r]

MovementTypes == {"received", "dispatched", "returned", "inspected", "restocked"}

InventoryInit ==
  /\ resource = [r \in Resources |-> None]
  /\ reservation = <<>>
  /\ hold = <<>>
  /\ asset = [a \in Assets |-> None]
  /\ named = [t \in Tags |-> None]
  /\ assetAllocation = <<>>
  /\ movements = 0

InventoryNext ==
  \/ \E r \in Resources :
       \/ CreateResource(r) \/ PlaceHold(r)
       \/ \E p \in Projects, w \in Windows, n \in Quantities(r) : Reserve(r, p, w, n)
  \/ \E i \in DOMAIN reservation :
       \E w \in Windows, n \in Quantities(reservation[i].resource) : ConfirmReservation(i, w, n)
  \/ \E h \in DOMAIN hold : ReleaseHold(h)
  \/ \E a \in Assets : RegisterAsset(a)
  \/ \E ref \in References :
       \/ \E p \in Projects, w \in Windows : Allocate(ref, p, w)
       \/ \E type \in MovementTypes, c \in Conditions : ExecuteMovement(ref, type, c)

InventorySpec == InventoryInit /\ [][InventoryNext]_inventoryVars

-----------------------------------------------------------------------------
(* Properties. *)

\* Resources, reservations and allocations refer to what exists.
InventoryTypeOK ==
  /\ resource \in [Resources -> {None} \cup ResourceRow]
  /\ asset \in [Assets -> {None} \cup AssetRow]
  /\ \A i \in DOMAIN reservation :
       /\ resource[reservation[i].resource] # None
       /\ reservation[i].window \in Windows /\ reservation[i].confirmed <= Len(reservation)
  /\ \A t \in Tags : named[t] # None => TagOf[named[t]] = t /\ asset[named[t]] # None
  /\ \A i \in DOMAIN assetAllocation : asset[assetAllocation[i].asset] # None

\* An asset is allocated to two projects for no common moment, however it was
\* named in the requests and wherever it was moved in between.
AssetsApart ==
  \A i, j \in DOMAIN assetAllocation :
    assetAllocation[i].asset = assetAllocation[j].asset /\ assetAllocation[i].project # assetAllocation[j].project
      => ~Overlap(assetAllocation[i].window, assetAllocation[j].window)

\* Two reservations of a serialized resource share a moment only if one of them
\* was confirmed for other dates after the later one was made.
ReservedApart ==
  \A i, j \in DOMAIN reservation :
    /\ i < j /\ reservation[i].resource = reservation[j].resource
    /\ Kind[reservation[i].resource] = "serialized"
    /\ Overlap(reservation[i].window, reservation[j].window)
    => reservation[i].confirmed >= j \/ reservation[j].confirmed > 0

Covers(i, t) ==
  LET w == reservation[i].window IN w # Unreadable /\ w.start <= t /\ t < w.end

\* As long as none of its reservations was confirmed for other dates and no piece
\* was held, a bulk resource is never promised beyond its total at any moment.
BulkWithinTotal ==
  \A r \in Resources :
    LET mine == ReservationsOf(r)
        Quantity(i) == reservation[i].quantity
    IN /\ Kind[r] = "bulk"
       /\ \A i \in mine : reservation[i].confirmed = 0
       /\ \A h \in DOMAIN hold : hold[h].resource # r
       => \A t \in Moments : MapThenSumSet(Quantity, {i \in mine : Covers(i, t)}) <= Total[r]

\* What was promised to one project is not promised to another.
PromisesApart == AssetsApart /\ ReservedApart /\ BulkWithinTotal

\* packages/domain/src/inventory.ts:67, two projects cannot confirm the same
\* exclusive asset for overlapping intervals.
ConfirmedApart ==
  \A i, j \in DOMAIN reservation :
    /\ reservation[i].resource = reservation[j].resource
    /\ Kind[reservation[i].resource] = "serialized"
    /\ reservation[i].project # reservation[j].project
    => ~Overlap(reservation[i].window, reservation[j].window)
=============================================================================
