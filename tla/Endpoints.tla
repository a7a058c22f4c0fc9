----------------------------- MODULE Endpoints -----------------------------
(***************************************************************************)
(* What each authenticated endpoint does, as data: the handler (where it   *)
(* is mounted, whether it binds a body, the code of its success) and the   *)
(* plan of the service function it calls (the roles it admits, then its    *)
(* statements in order).  Access runs the plans.  What the statements put  *)
(* in the tables is the matter of Leases, Payments, Accounts, Inventory    *)
(* and Reminders; filters, paging, and statements that only decorate an    *)
(* answer with more of what it shows (a unit's occupancy) are left out.    *)
(*                                                                         *)
(* A definition whose name is another's with a suffix (LeasesGetUnscoped)  *)
(* is a faulty variant of it that no run uses: put in its place, it shows  *)
(* that a property would notice the fault.                                 *)
(***************************************************************************)
EXTENDS Sequences

(***************************************************************************)
(* Statements.  "does" names the effect, "fails" the code that answers the *)
(* request when the statement fails or refuses; Unheeded: its error is     *)
(* dropped; Late: its error is looked at after the statements that follow. *)
(***************************************************************************)
Unheeded == 0
Late     == 1

Stmt(does, fails) == [does |-> does, fails |-> fails]

Find          == Stmt("find", 500)      \* SELECT or count the row that is named
GetLeaseScope == Stmt("find", 404)
ReadIds       == Stmt("ids", 500)       \* a manager's buildings
InIds         == Stmt("inIds", 500)     \* a query: the unit is in one of them
Assigned      == Stmt("assigned", 500)  \* both at once, compared in memory
OwnId         == Stmt("ownId", 500)     \* the tenant linked to the caller
Own           == Stmt("own", 500)       \* the same, and the named row is its
Self          == Stmt("self", 500)      \* the caller's user is active
Rows          == Stmt("rows", 500)      \* the organization's rows
RowsLate      == Stmt("rows", Late)
RowsInIds     == Stmt("rowsInIds", 500) \* for a manager, those in ReadIds instead
RowsUnheeded  == Stmt("rowsInIds", Unheeded)
RowsOfOwn     == Stmt("rowsOfOwn", 500) \* for a tenant its own, answered at once
RowsScoped    == Stmt("rowsScoped", 500) \* by what ReadIds and OwnId found
RowsOfNamed   == Stmt("rowsOfNamed", 500) \* of the building or tenant named
Valid         == Stmt("check", 400)     \* the values make sense
Governed      == Stmt("check", 403)     \* actorCanAssignRole, actorCanModifyTarget
Vacant        == Stmt("check", 409)     \* a query: nothing stands against it
Unchanged     == Stmt("unchanged", 500) \* an empty patch is answered at once
Store         == Stmt("store", 500)     \* INSERT, UPDATE or soft deletion
StoreNew      == Stmt("store", 409)
StoreUnheeded == Stmt("store", Unheeded)
Reload        == Stmt("read", 500)
ReloadUnheeded == Stmt("read", Unheeded)
CallGateway   == Stmt("read", 500)

\* A plan: the roles admitted, the roles a building scope narrows, whether the
\* service compares the path's organization with the caller's, the statements.
Plan(admits, managers, asserts, steps) ==
    [admits |-> admits, managers |-> managers, asserts |-> asserts, steps |-> steps]

\* tree: mounted under /organizations/{id}/..., behind RequireOrganizationParam.
Handler(tree, binds, code, plan) ==
    [tree |-> tree, binds |-> binds, code |-> code, plan |-> plan]

AllRoles == {"admin", "landlord", "manager", "property_manager", "accountant",
             "staff", "tenant"}

-----------------------------------------------------------------------------
(***************************************************************************)
(* buildings and units.                                                    *)
(***************************************************************************)
canReadBuildings   == {"admin", "landlord", "manager", "staff"}
canMutateBuildings == {"admin", "landlord", "manager"}
isManager          == {"manager"}

BuildingsList   == Plan(canReadBuildings, isManager, TRUE, <<RowsLate, ReadIds, RowsUnheeded>>)
BuildingsCreate == Plan(canMutateBuildings \ isManager, isManager, TRUE, <<Store>>)
BuildingsGet    == Plan(canReadBuildings, isManager, TRUE, <<Find, Assigned>>)
BuildingsPatch  == Plan(canMutateBuildings, isManager, TRUE,
                        <<Find, Assigned, Valid, Unchanged, Store, Reload>>)
BuildingsDelete == Plan(canMutateBuildings, isManager, TRUE, <<Find, Assigned, Vacant, Store>>)

BuildingsListHandler   == Handler(TRUE, FALSE, 200, BuildingsList)
BuildingsCreateHandler == Handler(TRUE, TRUE, 201, BuildingsCreate)
BuildingsGetHandler    == Handler(TRUE, FALSE, 200, BuildingsGet)
BuildingsPatchHandler  == Handler(TRUE, TRUE, 200, BuildingsPatch)
BuildingsDeleteHandler == Handler(TRUE, FALSE, 204, BuildingsDelete)

canReadUnits   == {"admin", "landlord", "manager", "staff"}
canMutateUnits == {"admin", "landlord", "manager"}

ensureBuilding              == <<Find>>
ensureManagerBuildingAccess == <<Assigned>>
InBuilding == ensureBuilding \o ensureManagerBuildingAccess

UnitsList   == Plan(canReadUnits, isManager, TRUE, InBuilding \o <<RowsOfNamed>>)
UnitsCreate == Plan(canMutateUnits, isManager, TRUE, InBuilding \o <<StoreNew>>)
UnitsGet    == Plan(canReadUnits, isManager, TRUE, InBuilding \o <<Find>>)
UnitsPatch  == Plan(canMutateUnits, isManager, TRUE,
                    InBuilding \o <<Find, Valid, Unchanged, Store, Reload>>)
UnitsDelete == Plan(canMutateUnits, isManager, TRUE, InBuilding \o <<Find, Vacant, Store>>)

UnitsListHandler   == Handler(TRUE, FALSE, 200, UnitsList)
UnitsCreateHandler == Handler(TRUE, TRUE, 201, UnitsCreate)
UnitsGetHandler    == Handler(TRUE, FALSE, 200, UnitsGet)
UnitsPatchHandler  == Handler(TRUE, TRUE, 200, UnitsPatch)
UnitsDeleteHandler == Handler(TRUE, FALSE, 204, UnitsDelete)

-----------------------------------------------------------------------------
(***************************************************************************)
(* tenants, users and organizations.  Create of a tenant provisions its    *)
(* login after the INSERT, and Create and Patch of a user look at the      *)
(* building list after theirs: a refusal then comes with a row stored.     *)
(***************************************************************************)
canReadTenants   == {"admin", "landlord", "manager", "staff", "tenant"}
canMutateTenants == {"admin", "landlord"}

TenantsList   == Plan(canReadTenants, isManager, TRUE,
                      <<RowsLate, ReadIds, RowsInIds, OwnId, RowsOfOwn>>)
TenantsCreate == Plan(canMutateTenants, isManager, TRUE,
                      <<Store, Vacant, Store, Store, StoreUnheeded>>)
TenantsGet    == Plan(canReadTenants, isManager, TRUE, <<Find, ReadIds, InIds, Own>>)
TenantsPatch  == Plan(canMutateTenants, isManager, TRUE,
                      <<Find, Valid, Unchanged, Store, Reload>>)
TenantsDelete == Plan(canMutateTenants, isManager, TRUE, <<Find, Vacant, Store>>)

TenantsListHandler   == Handler(TRUE, FALSE, 200, TenantsList)
TenantsCreateHandler == Handler(TRUE, TRUE, 201, TenantsCreate)
TenantsGetHandler    == Handler(TRUE, FALSE, 200, TenantsGet)
TenantsPatchHandler  == Handler(TRUE, TRUE, 200, TenantsPatch)
TenantsDeleteHandler == Handler(TRUE, FALSE, 204, TenantsDelete)

canManageUsers == {"admin", "landlord", "manager", "property_manager"}

UsersList   == Plan(canManageUsers, {}, TRUE, <<Rows>>)
UsersCreate == Plan(canManageUsers, {}, TRUE, <<Valid, Governed, Vacant, StoreNew, Valid, Store>>)
UsersPatch  == Plan(canManageUsers, {}, TRUE,
                    <<Find, Governed, Vacant, Valid, Unchanged, Store, Reload, Valid, Store>>)

UsersListHandler   == Handler(TRUE, FALSE, 200, UsersList)
UsersCreateHandler == Handler(TRUE, TRUE, 201, UsersCreate)
UsersPatchHandler  == Handler(TRUE, TRUE, 200, UsersPatch)

isAdmin              == {"admin"}
canPatchOrganization == {"admin", "landlord", "manager"}

OrganizationsCreate == Plan(isAdmin, {}, FALSE, <<Valid, Vacant, StoreNew>>)
OrganizationsGet    == Plan(AllRoles, {}, TRUE, <<Find>>)
OrganizationsPatch  == Plan(canPatchOrganization, {}, TRUE,
                            <<Find, Valid, Unchanged, Store, Reload>>)

OrganizationsCreateHandler == Handler(FALSE, TRUE, 201, OrganizationsCreate)
OrganizationsGetHandler    == Handler(FALSE, FALSE, 200, OrganizationsGet)
OrganizationsPatchHandler  == Handler(FALSE, TRUE, 200, OrganizationsPatch)

Me        == Plan(AllRoles, {}, FALSE, <<Self>>)
MeHandler == Handler(FALSE, FALSE, 200, Me)

-----------------------------------------------------------------------------
(***************************************************************************)
(* leases.  The occupancy recalculation is a Store; the audit row, whose   *)
(* error is dropped, is left out.                                          *)
(***************************************************************************)
canReadLeases   == AllRoles
canMutateLeases == {"admin", "landlord", "manager", "property_manager"}
isManagerRole   == {"manager", "property_manager"}
isTenantRole    == {"tenant"}

managerCanAccessUnit == <<ReadIds, InIds>>
syncUnitOccupancy    == <<Store>>

LeasesList   == Plan(canReadLeases, isManagerRole, TRUE, <<ReadIds, OwnId, RowsScoped>>)
LeasesCreate == Plan(canMutateLeases, isManagerRole, TRUE,
                     <<Valid, Find>> \o managerCanAccessUnit \o <<Vacant, Store>>
                     \o syncUnitOccupancy)
LeasesGetUnscoped == Plan(canReadLeases, isManagerRole, TRUE, <<Find, ReadIds, Own>>)
LeasesGet    == Plan(canReadLeases, isManagerRole, TRUE,
                     <<Find>> \o managerCanAccessUnit \o <<Own>>)
LeasesPatch  == Plan(canMutateLeases, isManagerRole, TRUE,
                     <<Find>> \o managerCanAccessUnit \o <<Valid>> \o managerCanAccessUnit
                     \o <<Valid, Vacant, Unchanged, Store, Reload>>
                     \o syncUnitOccupancy \o syncUnitOccupancy)
LeasesEnd    == Plan(canMutateLeases, isManagerRole, TRUE,
                     <<Find>> \o managerCanAccessUnit \o <<Valid, Store, Reload>>
                     \o syncUnitOccupancy)
LeasesApprove == Plan(isTenantRole, isManagerRole, FALSE,
                      <<Find, Own, Store, Reload>> \o syncUnitOccupancy)
LeasesReject  == Plan(isTenantRole, isManagerRole, FALSE,
                      <<Find, Own, Store, Reload>> \o syncUnitOccupancy)
LeasesHistory == Plan(canReadLeases, isManagerRole, TRUE,
                      <<Find>> \o managerCanAccessUnit \o <<Own, RowsOfNamed>>)
LeasesCreateRenewalOffer == Plan(canMutateLeases, isManagerRole, TRUE,
                                 <<Find>> \o managerCanAccessUnit \o <<Store>>)
LeasesAcceptRenewalOffer == Plan(isTenantRole, isManagerRole, TRUE,
                                 <<Find, Own, Find, Valid, Store, StoreUnheeded, Store>>
                                 \o syncUnitOccupancy \o <<ReloadUnheeded>>)
LeasesRejectRenewalOffer == Plan(isTenantRole, isManagerRole, TRUE,
                                 <<Find, Own, Find, Store, ReloadUnheeded>>)
LeasesCloseoutUnheeded == Plan(canMutateLeases, isManagerRole, TRUE,
                               <<Find>> \o managerCanAccessUnit \o <<Store, StoreUnheeded>>
                               \o syncUnitOccupancy)
LeasesCloseout == Plan(canMutateLeases, isManagerRole, TRUE,
                       <<Find>> \o managerCanAccessUnit \o <<Store, Store>>
                       \o syncUnitOccupancy)
LeasesTenantStatement == Plan(canReadLeases, isManagerRole, TRUE, <<Own, RowsOfNamed>>)

LeasesListHandler    == Handler(TRUE, FALSE, 200, LeasesList)
LeasesCreateHandler  == Handler(TRUE, TRUE, 201, LeasesCreate)
LeasesGetHandler     == Handler(TRUE, FALSE, 200, LeasesGet)
LeasesPatchHandler   == Handler(TRUE, TRUE, 200, LeasesPatch)
LeasesEndHandler     == Handler(TRUE, TRUE, 200, LeasesEnd)
LeasesApproveHandler == Handler(TRUE, TRUE, 200, LeasesApprove)
LeasesRejectHandler  == Handler(TRUE, TRUE, 200, LeasesReject)
LeasesHistoryHandler == Handler(TRUE, FALSE, 200, LeasesHistory)
LeasesCreateRenewalOfferHandler == Handler(TRUE, TRUE, 201, LeasesCreateRenewalOffer)
LeasesAcceptRenewalOfferHandler == Handler(TRUE, TRUE, 200, LeasesAcceptRenewalOffer)
LeasesRejectRenewalOfferHandler == Handler(TRUE, TRUE, 200, LeasesRejectRenewalOffer)
LeasesCloseoutHandler           == Handler(TRUE, TRUE, 201, LeasesCloseout)
LeasesTenantStatementHandler       == Handler(TRUE, FALSE, 200, LeasesTenantStatement)
LeasesTenantStatementExportHandler == Handler(TRUE, FALSE, 200, LeasesTenantStatement)

-----------------------------------------------------------------------------
(***************************************************************************)
(* payments.  Of the submission to the gateway and of what a status query  *)
(* stores, only that every error on the way is dropped.                    *)
(***************************************************************************)
canInitiatePayments == {"admin", "landlord", "manager", "property_manager", "accountant",
                        "tenant"}
canReadPayments     == {"admin", "landlord", "manager", "property_manager", "accountant",
                        "tenant"}
canMutatePayments   == {"admin", "landlord", "manager", "property_manager", "accountant"}

PaymentsInitiate     == Plan(canInitiatePayments, isManager, TRUE,
                             <<GetLeaseScope, Own, ReadIds, InIds, Store, StoreUnheeded>>)
PaymentsRecordManual == Plan(canMutatePayments, isManager, TRUE,
                             <<GetLeaseScope, ReadIds, InIds, Store>>)
PaymentsSummary      == Plan(canReadPayments, isManager, TRUE, <<Rows>>)
PaymentsMethodSplit  == Plan(canReadPayments, isManager, TRUE, <<Rows>>)
PaymentsReminderCandidates == Plan(canReadPayments, isManager, TRUE, <<Rows>>)
PaymentsReminderHistory    == Plan(canReadPayments, isManager, TRUE, <<Rows>>)
PaymentsSendReminders      == Plan(canMutatePayments, isManager, TRUE, <<Rows, Store>>)
PaymentsListPesapalIPN       == Plan(canReadPayments, isManager, FALSE, <<CallGateway>>)
PaymentsRegisterPesapalIPN   == Plan(canMutatePayments, isManager, FALSE, <<CallGateway>>)
PaymentsGetTransactionStatus == Plan(canReadPayments, isManager, FALSE,
                                     <<CallGateway, StoreUnheeded, StoreUnheeded>>)

PaymentsInitiateHandler     == Handler(TRUE, TRUE, 201, PaymentsInitiate)
PaymentsRecordManualHandler == Handler(TRUE, TRUE, 201, PaymentsRecordManual)
PaymentsSummaryHandler      == Handler(TRUE, FALSE, 200, PaymentsSummary)
PaymentsMethodSplitHandler  == Handler(TRUE, FALSE, 200, PaymentsMethodSplit)
PaymentsReminderCandidatesHandler == Handler(TRUE, FALSE, 200, PaymentsReminderCandidates)
PaymentsReminderHistoryHandler    == Handler(TRUE, FALSE, 200, PaymentsReminderHistory)
PaymentsSendRemindersHandler      == Handler(TRUE, TRUE, 200, PaymentsSendReminders)
PaymentsListPesapalIPNHandler       == Handler(FALSE, FALSE, 200, PaymentsListPesapalIPN)
PaymentsRegisterPesapalIPNHandler   == Handler(FALSE, TRUE, 200, PaymentsRegisterPesapalIPN)
PaymentsGetTransactionStatusHandler == Handler(FALSE, TRUE, 200, PaymentsGetTransactionStatus)

-----------------------------------------------------------------------------
\* The routes of the authenticated API, router.go and the modules' routes.
Routes == [
    BuildingsList |-> BuildingsListHandler, BuildingsCreate |-> BuildingsCreateHandler,
    BuildingsGet |-> BuildingsGetHandler, BuildingsPatch |-> BuildingsPatchHandler,
    BuildingsDelete |-> BuildingsDeleteHandler,
    UnitsList |-> UnitsListHandler, UnitsCreate |-> UnitsCreateHandler,
    UnitsGet |-> UnitsGetHandler, UnitsPatch |-> UnitsPatchHandler,
    UnitsDelete |-> UnitsDeleteHandler,
    TenantsList |-> TenantsListHandler, TenantsCreate |-> TenantsCreateHandler,
    TenantsGet |-> TenantsGetHandler, TenantsPatch |-> TenantsPatchHandler,
    TenantsDelete |-> TenantsDeleteHandler,
    UsersList |-> UsersListHandler, UsersCreate |-> UsersCreateHandler,
    UsersPatch |-> UsersPatchHandler, Me |-> MeHandler,
    OrganizationsCreate |-> OrganizationsCreateHandler,
    OrganizationsGet |-> OrganizationsGetHandler,
    OrganizationsPatch |-> OrganizationsPatchHandler,
    LeasesList |-> LeasesListHandler, LeasesCreate |-> LeasesCreateHandler,
    LeasesGet |-> LeasesGetHandler, LeasesPatch |-> LeasesPatchHandler,
    LeasesEnd |-> LeasesEndHandler, LeasesApprove |-> LeasesApproveHandler,
    LeasesReject |-> LeasesRejectHandler, LeasesHistory |-> LeasesHistoryHandler,
    LeasesCreateRenewalOffer |-> LeasesCreateRenewalOfferHandler,
    LeasesAcceptRenewalOffer |-> LeasesAcceptRenewalOfferHandler,
    LeasesRejectRenewalOffer |-> LeasesRejectRenewalOfferHandler,
    LeasesCloseout |-> LeasesCloseoutHandler,
    LeasesTenantStatement |-> LeasesTenantStatementHandler,
    LeasesTenantStatementExport |-> LeasesTenantStatementExportHandler,
    PaymentsInitiate |-> PaymentsInitiateHandler,
    PaymentsRecordManual |-> PaymentsRecordManualHandler,
    PaymentsSummary |-> PaymentsSummaryHandler,
    PaymentsMethodSplit |-> PaymentsMethodSplitHandler,
    PaymentsReminderCandidates |-> PaymentsReminderCandidatesHandler,
    PaymentsReminderHistory |-> PaymentsReminderHistoryHandler,
    PaymentsSendReminders |-> PaymentsSendRemindersHandler,
    PaymentsListPesapalIPN |-> PaymentsListPesapalIPNHandler,
    PaymentsRegisterPesapalIPN |-> PaymentsRegisterPesapalIPNHandler,
    PaymentsGetTransactionStatus |-> PaymentsGetTransactionStatusHandler]
=============================================================================
