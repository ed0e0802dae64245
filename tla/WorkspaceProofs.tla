---------------------------- MODULE WorkspaceProofs ----------------------------
(***************************************************************************)
(* The registers side by side.  A step of the workspace is a step of one   *)
(* register and none of the others', so that what holds of each register   *)
(* by itself holds of it in the workspace.                                 *)
(***************************************************************************)
EXTENDS Workspace, SourcePinsProofs, ScheduleProofs, RegistersProofs

\* What each step of the workspace is to the registers that do not move.
LEMMA OthersStay ==
  ASSUME [WorkspaceNext]_workspaceVars
  PROVE  /\ PinsAlone \/ UNCHANGED pinsVars
         /\ ScheduleAlone \/ UNCHANGED scheduleVars
         /\ DocumentsAlone \/ QuestionsAlone \/ UNCHANGED recordVars
         /\ StockAlone \/ AssetsAlone \/ UNCHANGED inventoryVars
         /\ BookingsAlone \/ DraftsAlone \/ UNCHANGED integrationVars
         /\ VendorsAlone \/ OrdersAlone \/ UNCHANGED purchaseVars
         /\ ApprovalsAlone \/ UNCHANGED approvalVars
<1>1. CASE UNCHANGED workspaceVars
  BY <1>1 DEF workspaceVars, parts
<1>2. CASE PinsAlone
  BY <1>2 DEF PinsAlone
<1>3. CASE ScheduleAlone
  BY <1>3 DEF ScheduleAlone
<1>4. CASE DocumentsAlone
  BY <1>4 DEF DocumentsAlone
<1>5. CASE QuestionsAlone
  BY <1>5 DEF QuestionsAlone
<1>6. CASE StockAlone
  BY <1>6 DEF StockAlone
<1>7. CASE AssetsAlone
  BY <1>7 DEF AssetsAlone
<1>8. CASE BookingsAlone
  BY <1>8 DEF BookingsAlone
<1>9. CASE DraftsAlone
  BY <1>9 DEF DraftsAlone
<1>10. CASE VendorsAlone
  BY <1>10 DEF VendorsAlone
<1>11. CASE OrdersAlone
  BY <1>11 DEF OrdersAlone
<1>12. CASE ApprovalsAlone
  BY <1>12 DEF ApprovalsAlone
<1>13. QED
  BY <1>1, <1>2, <1>3, <1>4, <1>5, <1>6, <1>7, <1>8, <1>9, <1>10, <1>11, <1>12 DEF WorkspaceNext

\* One part moves at a time.
LEMMA OneMoves ==
  /\ PinsAlone => moving = "pins"
  /\ ScheduleAlone => moving = "schedule"
  /\ DocumentsAlone => moving = "documents"
  /\ QuestionsAlone => moving = "questions"
  /\ StockAlone => moving = "stock"
  /\ AssetsAlone => moving = "assets"
  /\ BookingsAlone => moving = "bookings"
  /\ DraftsAlone => moving = "drafts"
  /\ VendorsAlone => moving = "vendors"
  /\ OrdersAlone => moving = "orders"
  /\ ApprovalsAlone => moving = "approvals"
BY DEF PinsAlone, ScheduleAlone, DocumentsAlone, QuestionsAlone, StockAlone, AssetsAlone,
  BookingsAlone, DraftsAlone, VendorsAlone, OrdersAlone, ApprovalsAlone

LEMMA PinsMove == [WorkspaceNext]_workspaceVars => [PinsNext]_pinsVars
<1>1. ASSUME WorkspaceNext, PinsAlone PROVE PinsNext
  BY <1>1, OneMoves DEF WorkspaceNext, PinsNext, PinsStep
<1>2. QED
  BY <1>1, OthersStay DEF workspaceVars, parts

LEMMA ScheduleMoves == [WorkspaceNext]_workspaceVars => [ScheduleNext]_scheduleVars
<1>1. ASSUME WorkspaceNext, ScheduleAlone PROVE ScheduleNext
  BY <1>1, OneMoves DEF WorkspaceNext, ScheduleNext
<1>2. QED
  BY <1>1, OthersStay DEF workspaceVars, parts

LEMMA RecordsMove == [WorkspaceNext]_workspaceVars => [RecordsNext]_recordVars
<1>1. ASSUME WorkspaceNext, DocumentsAlone PROVE RecordsNext
  BY <1>1, OneMoves DEF WorkspaceNext, RecordsNext
<1>2. ASSUME WorkspaceNext, QuestionsAlone PROVE RecordsNext
  BY <1>2, OneMoves DEF WorkspaceNext, RecordsNext
<1>3. QED
  BY <1>1, <1>2, OthersStay DEF workspaceVars, parts

LEMMA InventoryMoves == [WorkspaceNext]_workspaceVars => [InventoryNext]_inventoryVars
<1>1. ASSUME WorkspaceNext, StockAlone PROVE InventoryNext
  BY <1>1, OneMoves DEF WorkspaceNext, InventoryNext
<1>2. ASSUME WorkspaceNext, AssetsAlone PROVE InventoryNext
  BY <1>2, OneMoves DEF WorkspaceNext, InventoryNext
<1>3. QED
  BY <1>1, <1>2, OthersStay DEF workspaceVars, parts

LEMMA IntegrationMoves == [WorkspaceNext]_workspaceVars => [IntegrationNext]_integrationVars
<1>1. ASSUME WorkspaceNext, BookingsAlone PROVE IntegrationNext
  BY <1>1, OneMoves DEF WorkspaceNext, IntegrationNext
<1>2. ASSUME WorkspaceNext, DraftsAlone PROVE IntegrationNext
  BY <1>2, OneMoves DEF WorkspaceNext, IntegrationNext
<1>3. QED
  BY <1>1, <1>2, OthersStay DEF workspaceVars, parts

LEMMA PurchasesMove == [WorkspaceNext]_workspaceVars => [PurchasesNext]_purchaseVars
<1>1. ASSUME WorkspaceNext, VendorsAlone PROVE PurchasesNext
  BY <1>1, OneMoves DEF WorkspaceNext, PurchasesNext
<1>2. ASSUME WorkspaceNext, OrdersAlone PROVE PurchasesNext
  BY <1>2, OneMoves DEF WorkspaceNext, PurchasesNext
<1>3. QED
  BY <1>1, <1>2, OthersStay DEF workspaceVars, parts

LEMMA ApprovalsMove == [WorkspaceNext]_workspaceVars => [ApprovalsNext]_approvalVars
<1>1. ASSUME WorkspaceNext, ApprovalsAlone PROVE ApprovalsNext
  BY <1>1, OneMoves DEF WorkspaceNext, ApprovalsNext
<1>2. QED
  BY <1>1, OthersStay DEF workspaceVars, parts

\* In the workspace every register behaves as its own specification says, so that
\* what is proved of a register holds where a project uses them all: no handler of
\* one register writes another's tables or maps.
THEOREM PartsBehave ==
  WorkspaceSpec => /\ PinsSpec /\ ScheduleSpec /\ RecordsSpec /\ InventorySpec
                   /\ IntegrationSpec /\ PurchasesSpec /\ ApprovalsSpec
<1>1. WorkspaceInit => /\ PinsInit /\ ScheduleInit /\ RecordsInit /\ InventoryInit
                       /\ IntegrationInit /\ PurchasesInit /\ ApprovalsInit
  BY DEF WorkspaceInit
<1>2. QED
  BY <1>1, PinsMove, ScheduleMoves, RecordsMove, InventoryMoves, IntegrationMoves, PurchasesMove,
     ApprovalsMove, PTL
     DEF WorkspaceSpec, PinsSpec, ScheduleSpec, RecordsSpec, InventorySpec, IntegrationSpec,
         PurchasesSpec, ApprovalsSpec

\* All tables and maps of the workspace hold what they should.
THEOREM WorkspaceTyped == WorkspaceSpec => []TypeOK
BY PartsBehave, PinsTyped, ScheduleTyped, RecordsTyped, InventoryTyped, IntegrationTyped,
   PurchasesTyped, DecisionsSafe, PTL DEF TypeOK

\* What the registers promise, they promise side by side.
THEOREM WorkspaceSafe ==
  WorkspaceSpec => [](/\ RegistersAgree /\ CommandsSettled /\ Acyclic /\ CandidateAsReviewed
                      /\ RecordsWhole /\ PromisesApart /\ AcknowledgedKept /\ PurchasesSound
                      /\ DecisionsStand)
BY PartsBehave, PinsAgree, PinsSettled, ScheduleAcyclic, CandidatesAreReviewed, RecordsStayWhole,
   PromisesStandApart, AcknowledgedStands, PurchasesStaySound, DecisionsSafe, PTL

\* So does what a step of the design register may do.
THEOREM WorkspaceDesigned == WorkspaceSpec => DesignedAsShown
BY PartsBehave, PinsDesigned, PTL
================================================================================
