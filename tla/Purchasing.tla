------------------------------- MODULE Purchasing -------------------------------
(***************************************************************************)
(* Vendors and their bank details, framework contracts, and the orders     *)
(* called off against them, sent to a supplier and received in parts.      *)
(* All of it is in maps of the process and every handler runs to its end   *)
(* without an await, so that each request is one step.                     *)
(*                                                                         *)
(* A vendor is found by its identifier and by its code.  Both keys hold a  *)
(* reference to an object; some handlers change the object they find, and  *)
(* verifying a bank change stores a copy under the identifier alone.       *)
(* Amounts are in one currency.  What a vendor needs to be approved beyond *)
(* bank details and the absence of risk flags is taken to be there.        *)
(***************************************************************************)
EXTENDS Integers, Sequences, FiniteSets, FiniteSetsExt, SequencesExt, NoValue

CONSTANTS
  Vendors, Seeded,            \* vendors, and those there from the start
  Banks,                      \* bank details
  VendorStatuses,             \* among them "approved" and "blacklisted"
  People,
  Contracts, Ceiling,         \* framework contracts and their ceilings
  Orders, Amounts,            \* purchase orders and their totals
  Lines, Ordered,             \* the lines of an order and the quantity of each
  Deliveries,                 \* the sequences of items a receipt may list
  ReleaseKeys,
  MaxBankChanges, MaxCleared  \* bounds

OrderStatuses ==
  {"approved", "released", "reconciliation_needed", "acknowledged", "partially_received",
   "fully_received", "compensating_cancellation_issued"}

OrderRow ==
  [contract: Contracts \cup {None}, amount: Int, status: OrderStatuses, key: ReleaseKeys \cup {None},
   received: [Lines -> Nat], sent: Nat, cleared: Nat]

ASSUME PurchasingAssumption ==
  /\ Seeded \subseteq Vendors /\ IsFiniteSet(Seeded)
  /\ {"approved", "blacklisted", "under_review"} \subseteq VendorStatuses
  /\ Ceiling \in [Contracts -> Int] /\ Amounts \subseteq Int
  /\ Ordered \in [Lines -> Nat \ {0}]
  /\ Deliveries \subseteq Seq([line: Lines, quantity: Nat])
  /\ None \notin Int \cup People \cup Contracts \cup OrderRow

VARIABLES
  object,      \* the vendor objects made, in order of creation
  byId,        \* vendorRepository: which object an identifier finds
  byCode,      \* vendorRepository: which object a vendor code finds
  bankChange,  \* bankChangeRepository, in order of creation
  consumed,    \* frameworkContractRepository: consumedAmount, None when absent
  order,       \* poRepository
  lost         \* history: contracts charged for an order that was then refused

vendorVars == <<object, byId, byCode, bankChange>>
orderVars == <<consumed, order, lost>>
purchaseVars == <<vendorVars, orderVars>>

-----------------------------------------------------------------------------
(* Vendors. *)

Approvable(o) ==
  o.status # "blacklisted" /\ ~o.flagged /\ {o.bank, o.restricted} # {None}

\* The status asked for, or what the policy recommends instead of "approved".
Granted(asked, o) ==
  IF asked # "approved" \/ Approvable(o) THEN asked ELSE "under_review"

CreateVendor(v) ==
  /\ byId[v] = 0
  /\ \E bank \in Banks \cup {None}, asked \in VendorStatuses, flagged \in BOOLEAN :
       LET fresh == [vendor |-> v, bank |-> bank, restricted |-> bank,
                     flagged |-> flagged, status |-> asked]
       IN object' = Append(object, [fresh EXCEPT !.status = Granted(asked, fresh)])
  /\ byId' = [byId EXCEPT ![v] = Len(object) + 1]
  /\ byCode' = [byCode EXCEPT ![v] = Len(object) + 1]
  /\ UNCHANGED <<bankChange, orderVars>>

\* createExtendedVendor: approved without a look at the policy.
CreateExtendedVendor(v) ==
  /\ byId[v] = 0
  /\ \E bank \in Banks \cup {None} :
       object' = Append(object,
         [vendor |-> v, bank |-> bank, restricted |-> None, flagged |-> FALSE, status |-> "approved"])
  /\ byId' = [byId EXCEPT ![v] = Len(object) + 1]
  /\ byCode' = [byCode EXCEPT ![v] = Len(object) + 1]
  /\ UNCHANGED <<bankChange, orderVars>>

\* The objects a request can name: by the vendor's identifier and by its code.
ObjectsOf(v) == {byId[v], byCode[v]} \ {0}

\* The object found is changed, and both keys refer to it from then on.
TransitionVendorStatus(v) ==
  /\ \E n \in ObjectsOf(v), asked \in VendorStatuses, flags \in {{}, {TRUE}, {FALSE}} :
       /\ asked = "approved" => Approvable(object[n])
       /\ \E flagged \in (IF flags = {} THEN {object[n].flagged} ELSE flags) :
            object' = [object EXCEPT ![n].status = asked, ![n].flagged = flagged]
       /\ byId' = [byId EXCEPT ![v] = n]
       /\ byCode' = [byCode EXCEPT ![v] = n]
  /\ UNCHANGED <<bankChange, orderVars>>

RequestBankChange(v) ==
  /\ byId[v] # 0
  /\ Len(bankChange) < MaxBankChanges
  /\ \E bank \in Banks, person \in People :
       bankChange' = Append(bankChange,
         [vendor |-> v, bank |-> bank, requestedBy |-> person, verifiedBy |-> None])
  /\ UNCHANGED <<object, byId, byCode, orderVars>>

\* Broken variant: whoever asks for a change may verify it.
AnyVerifier(c, person) == c.verifiedBy = None

\* verifyBankChange of the domain: the request is pending and another's.
Verifiable(c, person) == c.verifiedBy = None /\ c.requestedBy # person

\* A changed copy is stored under the identifier; the code still finds the old one.
VerifyBankChange(i) ==
  LET v == bankChange[i].vendor
  IN /\ \E person \in People :
          /\ Verifiable(bankChange[i], person)
          /\ bankChange' = [bankChange EXCEPT ![i].verifiedBy = person]
     /\ object' = Append(object, [object[byId[v]] EXCEPT !.bank = bankChange[i].bank])
     /\ byId' = [byId EXCEPT ![v] = Len(object) + 1]
     /\ UNCHANGED <<byCode, orderVars>>

-----------------------------------------------------------------------------
(* Contracts and orders. *)

CreateFrameworkContract(c) ==
  /\ consumed[c] = None
  /\ consumed' = [consumed EXCEPT ![c] = 0]
  /\ UNCHANGED <<order, lost, vendorVars>>

\* consumeFrameworkCeiling.
WithinCeiling(c, amount) == consumed[c] + amount <= Ceiling[c]

Charged(c, amount) == IF c = None THEN consumed ELSE [consumed EXCEPT ![c] = @ + amount]

\* The vendor and the contract are there, and the ceiling has room.
Orderable(c, amount) ==
  /\ \E v \in Vendors : ObjectsOf(v) # {}
  /\ c # None => consumed[c] # None /\ WithinCeiling(c, amount)

NewOrder(c, amount) ==
  [contract |-> c, amount |-> amount, status |-> "approved", key |-> None,
   received |-> [l \in Lines |-> 0], sent |-> 0, cleared |-> 0]

CreatePurchaseOrder(o) ==
  /\ order[o] = None
  /\ \E c \in Contracts \cup {None}, amount \in Amounts :
       /\ Orderable(c, amount)
       /\ consumed' = Charged(c, amount)
       /\ order' = [order EXCEPT ![o] = NewOrder(c, amount)]
  /\ UNCHANGED <<lost, vendorVars>>

\* A line's quantity or cost cannot be read, which shows after the ceiling is charged.
RefuseUnreadableLines ==
  /\ \E c \in Contracts, amount \in Amounts :
       /\ c \notin lost
       /\ Orderable(c, amount)
       /\ consumed' = Charged(c, amount)
       /\ lost' = lost \cup {c}
  /\ UNCHANGED <<order, vendorVars>>

\* Broken variant: an order whose answer is awaited may be released.
ReleaseUnlessReceived(o) == order[o].status \in {"approved", "reconciliation_needed"}

Releasable(o) == order[o].status = "approved"

\* A repeated release is answered without a change.  `sent` and `cleared` count,
\* for the properties, the releases and the reconciliations that found nothing.
ReleasePurchaseOrder(o) ==
  /\ order[o] # None /\ Releasable(o)
  /\ \E k \in ReleaseKeys :
       order' = [order EXCEPT ![o].status = "released", ![o].key = k, ![o].sent = @ + 1]
  /\ UNCHANGED <<consumed, lost, vendorVars>>

\* Whatever the status is.
SimulateTimeout(o) ==
  /\ order[o] # None
  /\ order' = [order EXCEPT ![o].status = "reconciliation_needed"]
  /\ UNCHANGED <<consumed, lost, vendorVars>>

ReconcileRemoteOrder(o) ==
  /\ order[o] # None /\ order[o].status = "reconciliation_needed"
  /\ \/ order' = [order EXCEPT ![o].status = "acknowledged"]
     \/ /\ order[o].cleared < MaxCleared
        /\ order' = [order EXCEPT ![o].status = "approved", ![o].key = None, ![o].cleared = @ + 1]
  /\ UNCHANGED <<consumed, lost, vendorVars>>

\* Broken variant: each item of a receipt is compared with the order by itself.
CountEach(done, item) ==
  IF done.all /\ item.quantity <= Ordered[item.line]
  THEN [done EXCEPT !.lines[item.line] = @ + item.quantity]
  ELSE [done EXCEPT !.all = FALSE]

\* receivePOLine, for the items of a receipt in turn, until one does not fit.
Count(done, item) ==
  IF done.all /\ done.lines[item.line] + item.quantity <= Ordered[item.line]
  THEN [done EXCEPT !.lines[item.line] = @ + item.quantity]
  ELSE [done EXCEPT !.all = FALSE]

\* Items before one that does not fit stay counted, although the receipt is
\* refused; the order's status then stays what it was, else it is set anew.
RecordReceipt(o, items) ==
  LET done == FoldLeft(Count, [all |-> TRUE, lines |-> order[o].received], items)
  IN /\ order[o] # None
     /\ order' = [order EXCEPT ![o].received = done.lines,
          ![o].status = IF ~done.all THEN @
                        ELSE IF done.lines = Ordered THEN "fully_received"
                        ELSE "partially_received"]
     /\ UNCHANGED <<consumed, lost, vendorVars>>

\* The compensating cancellation: the ceiling it consumed is not given back.
CompensatingCancellation(o) ==
  /\ order[o] # None
  /\ order' = [order EXCEPT ![o].status = "compensating_cancellation_issued"]
  /\ UNCHANGED <<consumed, lost, vendorVars>>

-----------------------------------------------------------------------------
SeededList == SetToSeq(Seeded)

PurchasesInit ==
  /\ \E bank \in Banks : \E restricted \in {None, bank} :
       object = [n \in 1..Len(SeededList) |->
         [vendor |-> SeededList[n], bank |-> bank, restricted |-> restricted,
          flagged |-> FALSE, status |-> "approved"]]
  /\ byId = [v \in Vendors |-> IF v \in Seeded THEN CHOOSE n \in DOMAIN SeededList : SeededList[n] = v ELSE 0]
  /\ byCode = byId
  /\ bankChange = <<>>
  /\ consumed = [c \in Contracts |-> None]
  /\ order = [o \in Orders |-> None]
  /\ lost = {}

PurchasesNext ==
  \/ \E v \in Vendors :
       \/ CreateVendor(v) \/ CreateExtendedVendor(v)
       \/ TransitionVendorStatus(v) \/ RequestBankChange(v)
  \/ \E i \in DOMAIN bankChange : VerifyBankChange(i)
  \/ \E c \in Contracts : CreateFrameworkContract(c)
  \/ \E o \in Orders :
       \/ CreatePurchaseOrder(o) \/ ReleasePurchaseOrder(o) \/ SimulateTimeout(o)
       \/ ReconcileRemoteOrder(o) \/ CompensatingCancellation(o)
       \/ \E items \in Deliveries : RecordReceipt(o, items)
  \/ RefuseUnreadableLines

PurchasesSpec == PurchasesInit /\ [][PurchasesNext]_purchaseVars

-----------------------------------------------------------------------------
(* Properties. *)

\* References lead to objects of their vendor, orders name contracts that exist.
PurchasesTypeOK ==
  /\ \A n \in DOMAIN object :
       /\ object[n].vendor \in Vendors /\ object[n].bank \in Banks \cup {None}
       /\ object[n].status \in VendorStatuses
  /\ \A v \in Vendors : \A n \in ObjectsOf(v) : object[n].vendor = v
  /\ \A v \in Vendors : byId[v] = 0 <=> byCode[v] = 0
  /\ \A o \in Orders : order[o] # None =>
       /\ order[o].contract = None \/ consumed[order[o].contract] # None
       /\ order[o].key \in ReleaseKeys \cup {None}

CallOffs(c) == {o \in Orders : order[o] # None /\ order[o].contract = c}

\* What is consumed of a framework contract is never beyond the ceiling, which may
\* be negative from the start, and it is the sum of the call-offs, cancelled ones
\* included, unless an order was refused after the ceiling was charged (AT-044).
CeilingAccounted ==
  \A c \in Contracts : consumed[c] # None =>
    /\ consumed[c] = 0 \/ consumed[c] <= Ceiling[c]
    /\ c \notin lost =>
         LET Amount(o) == order[o].amount
         IN consumed[c] = MapThenSumSet(Amount, CallOffs(c))

\* An order is sent to its supplier once more only after a reconciliation found
\* that it had not arrived, whatever was timed out, received or cancelled between
\* (AT-043, AT-045).
SentWhenCleared == \A o \in Orders : order[o] # None => order[o].sent <= order[o].cleared + 1

\* No line counts more than was ordered, through partial, refused and repeated
\* receipts, and an order that says so is fully received (AT-053).
ReceiptsWithinOrder ==
  \A o \in Orders : order[o] # None =>
    /\ \A l \in Lines : order[o].received[l] <= Ordered[l]
    /\ order[o].status = "fully_received" => order[o].received = Ordered

\* The bank details a vendor is found with are those it was created with or those
\* of a change one person asked for and another verified (AT-046).
BankChangesVerified ==
  \A v \in Vendors : \A n \in ObjectsOf(v) :
    \/ object[n].bank = object[CHOOSE m \in DOMAIN object :
                                 object[m].vendor = v /\ \A k \in 1..(m - 1) : object[k].vendor # v].bank
    \/ \E i \in DOMAIN bankChange :
         /\ bankChange[i].vendor = v /\ bankChange[i].bank = object[n].bank
         /\ bankChange[i].verifiedBy \notin {None, bankChange[i].requestedBy}

\* Contracts, orders, receipts and bank details are accounted for.
PurchasesSound ==
  CeilingAccounted /\ SentWhenCleared /\ ReceiptsWithinOrder /\ BankChangesVerified

\* packages/domain/src/procurement.ts:307, an ordinary vendor update cannot silently
\* redirect bank details: those under an identifier change in verifications only.
OnlyVerifiedRedirect ==
  [][\A v \in Vendors :
       byId[v] # 0 /\ object'[byId'[v]].bank # object[byId[v]].bank
         => \E i \in DOMAIN bankChange : bankChange'[i] # bankChange[i]]_purchaseVars
=============================================================================
