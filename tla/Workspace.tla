------------------------------- MODULE Workspace -------------------------------
(***************************************************************************)
(* The registers of a project's work side by side: requirements and what   *)
(* rests on them, the schedule, documents and questions, the inventory,    *)
(* what goes through the integrations, purchases, and approvals.  They     *)
(* share no state, so that the states worth visiting are those in which    *)
(* one of them has moved.                                                  *)
(***************************************************************************)
EXTENDS SourcePins, ProjectSchedule, ControlledRecords, Inventory, IntegrationStore, Purchasing,
  Approvals

VARIABLE moving  \* the part that moves, as no part can tell whether another has moved

parts == <<pinsVars, scheduleVars, recordVars, inventoryVars, integrationVars, purchaseVars,
           approvalVars>>
workspaceVars == <<moving, parts>>

WorkspaceInit ==
  /\ moving \in {"pins", "schedule", "documents", "questions", "stock", "assets", "bookings",
                "drafts", "vendors", "orders", "approvals"}
  /\ PinsInit /\ ScheduleInit /\ RecordsInit /\ InventoryInit /\ IntegrationInit /\ PurchasesInit
  /\ ApprovalsInit

PinsAlone ==
  moving = "pins" /\ UNCHANGED <<moving, approvalVars, purchaseVars, scheduleVars, recordVars, inventoryVars, integrationVars>>
ScheduleAlone ==
  moving = "schedule" /\ UNCHANGED <<moving, approvalVars, purchaseVars, pinsVars, recordVars, inventoryVars, integrationVars>>
DocumentsAlone ==
  moving = "documents" /\ UNCHANGED <<moving, approvalVars, purchaseVars, pinsVars, scheduleVars, inventoryVars, integrationVars>>
QuestionsAlone ==
  moving = "questions" /\ UNCHANGED <<moving, approvalVars, purchaseVars, pinsVars, scheduleVars, inventoryVars, integrationVars>>
StockAlone ==
  moving = "stock" /\ UNCHANGED <<moving, approvalVars, purchaseVars, pinsVars, scheduleVars, recordVars, integrationVars>>
AssetsAlone ==
  moving = "assets" /\ UNCHANGED <<moving, approvalVars, purchaseVars, pinsVars, scheduleVars, recordVars, integrationVars>>
BookingsAlone ==
  moving = "bookings" /\ UNCHANGED <<moving, approvalVars, purchaseVars, pinsVars, scheduleVars, recordVars, inventoryVars>>
DraftsAlone ==
  moving = "drafts" /\ UNCHANGED <<moving, approvalVars, purchaseVars, pinsVars, scheduleVars, recordVars, inventoryVars>>
VendorsAlone ==
  /\ moving = "vendors"
  /\ UNCHANGED <<moving, approvalVars, pinsVars, scheduleVars, recordVars, inventoryVars, integrationVars>>
OrdersAlone ==
  /\ moving = "orders"
  /\ UNCHANGED <<moving, approvalVars, pinsVars, scheduleVars, recordVars, inventoryVars, integrationVars>>

ApprovalsAlone ==
  /\ moving = "approvals"
  /\ UNCHANGED <<moving, pinsVars, scheduleVars, recordVars, inventoryVars, integrationVars, purchaseVars>>

WorkspaceNext ==
  \/ PinsAlone /\ \E c \in Clients : Prepare(c)
  \/ PinsAlone /\ \E c \in Clients : WriteRequirement(c)
  \/ PinsAlone /\ \E c \in Clients : WriteAllocation(c)
  \/ PinsAlone /\ \E c \in Clients : WriteDesign(c)
  \/ PinsAlone /\ \E c \in Clients : Assess(c)
  \/ PinsAlone /\ \E c \in Clients : Replay(c)
  \/ PinsAlone /\ \E c \in Clients : Refuse(c)
  \/ ScheduleAlone /\ \E t \in Tasks : CreateTask(t)
  \/ ScheduleAlone /\ \E t \in Tasks : CompleteTask(t)
  \/ ScheduleAlone /\ \E t \in Tasks : Forecast(t)
  \/ ScheduleAlone /\ \E a, b \in Tasks : AddDependency(a, b)
  \/ ScheduleAlone /\ \E i \in DOMAIN dependency : ArchiveDependency(i)
  \/ ScheduleAlone /\ \E p \in Plans : CreatePlan(p)
  \/ ScheduleAlone /\ \E p \in Plans : RevisePlan(p)
  \/ ScheduleAlone /\ \E c \in Planners : Preview(c)
  \/ ScheduleAlone /\ \E c \in Planners : Capture(c)
  \/ DocumentsAlone /\ \E d \in Documents, s \in Series : Register(d, s)
  \/ DocumentsAlone /\ \E d \in Documents, code \in Codes : AddRevision(d, code)
  \/ QuestionsAlone /\ \E q \in Questions : Ask(q)
  \/ QuestionsAlone /\ \E q \in Questions : Respond(q)
  \/ QuestionsAlone /\ \E q \in Questions : Reopen(q)
  \/ StockAlone /\ \E r \in Resources : CreateResource(r)
  \/ StockAlone /\ \E r \in Resources, p \in Projects, w \in Windows : \E n \in Quantities(r) :
       Reserve(r, p, w, n)
  \/ StockAlone /\ \E i \in DOMAIN reservation, w \in Windows : \E n \in Quantities(reservation[i].resource) :
       ConfirmReservation(i, w, n)
  \/ StockAlone /\ \E r \in Resources : PlaceHold(r)
  \/ StockAlone /\ \E h \in DOMAIN hold : ReleaseHold(h)
  \/ AssetsAlone /\ \E a \in Assets : RegisterAsset(a)
  \/ AssetsAlone /\ \E ref \in References, p \in Projects, w \in Windows : Allocate(ref, p, w)
  \/ AssetsAlone /\ \E ref \in References, type \in MovementTypes, c \in Conditions :
       ExecuteMovement(ref, type, c)
  \/ BookingsAlone /\ \E r \in Requests, i \in Instances, k \in Keys, p \in Payloads :
       LookUpReservation(r, i, k, p)
  \/ BookingsAlone /\ \E r \in Requests : BookReservation(r)
  \/ BookingsAlone /\ \E r \in Requests : PersistReservation(r)
  \/ BookingsAlone /\ \E r \in Requests : DatastoreUnavailable(r)
  \/ BookingsAlone /\ \E i \in Instances : Restart(i)
  \/ DraftsAlone /\ \E s \in Saves, d \in SharedDrafts, e \in Expectations : ReadDraft(s, d, e)
  \/ DraftsAlone /\ \E s \in Saves : UpdateDraft(s)
  \/ DraftsAlone /\ \E s \in Saves : InsertDraft(s)
  \/ DraftsAlone /\ \E s \in Saves : SaveUnavailable(s)
  \/ VendorsAlone /\ \E v \in Vendors : CreateVendor(v)
  \/ VendorsAlone /\ \E v \in Vendors : CreateExtendedVendor(v)
  \/ VendorsAlone /\ \E v \in Vendors : TransitionVendorStatus(v)
  \/ VendorsAlone /\ \E v \in Vendors : RequestBankChange(v)
  \/ VendorsAlone /\ \E i \in DOMAIN bankChange : VerifyBankChange(i)
  \/ OrdersAlone /\ \E c \in Contracts : CreateFrameworkContract(c)
  \/ OrdersAlone /\ \E o \in Orders : CreatePurchaseOrder(o)
  \/ OrdersAlone /\ RefuseUnreadableLines
  \/ OrdersAlone /\ \E o \in Orders : ReleasePurchaseOrder(o)
  \/ OrdersAlone /\ \E o \in Orders : SimulateTimeout(o)
  \/ OrdersAlone /\ \E o \in Orders : ReconcileRemoteOrder(o)
  \/ OrdersAlone /\ \E o \in Orders, items \in Deliveries : RecordReceipt(o, items)
  \/ OrdersAlone /\ \E o \in Orders : CompensatingCancellation(o)
  \/ ApprovalsAlone /\ \E p \in Staff, id \in ApprovalIds, t \in Targets : RequestApproval(p, id, t)
  \/ ApprovalsAlone /\ \E n \in DOMAIN asked : StoreRequest(n)
  \/ ApprovalsAlone /\ \E n \in DOMAIN asked : RequestNotStored(n)
  \/ ApprovalsAlone /\ \E p \in Staff, id \in ApprovalIds \cup {Sample} : ShowApproval(p, id)
  \/ ApprovalsAlone /\ \E p \in Staff, outcome \in Outcomes : DecideApproval(p, outcome)
  \/ ApprovalsAlone /\ \E d \in DOMAIN decisions : RecordDecision(d)
  \/ ApprovalsAlone /\ \E d \in DOMAIN decisions : DecisionNotRecorded(d)
  \/ ApprovalsAlone /\ RestartApprovals

WorkspaceSpec == WorkspaceInit /\ [][WorkspaceNext]_workspaceVars

-----------------------------------------------------------------------------
\* Every part is of its type.
TypeOK == PinsTypeOK /\ ScheduleTypeOK /\ RecordsTypeOK /\ InventoryTypeOK /\ IntegrationTypeOK
          /\ PurchasesTypeOK /\ ApprovalsTypeOK
================================================================================
