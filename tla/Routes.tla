------------------------------- MODULE Routes -------------------------------
(***************************************************************************)
(* Who may call what.  The API names a permission at every handler of the  *)
(* controllers the pages call, the shared package grants permissions to    *)
(* roles, and the pages of the web application call handlers, unasked when *)
(* they load and when a button is pressed.  A call is <<controller,        *)
(* handler>>.  Calls whose refusal a page ignores are not among its loads. *)
(***************************************************************************)
LOCAL INSTANCE TLC

ConsumerRole == {"consumer", "lawyer", "company"}
StaffRole == {"super-admin", "manager-admin", "staff-admin", "lead-admin"}
Role == ConsumerRole \cup StaffRole \cup {"representative", "investor"}

Session == "a valid token"      \* a handler without a permission
Public == "nothing"

PERMISSIONS ==
    {"users.read", "users.write", "tickets.read", "tickets.write", "tickets.create",
     "tickets.clerk", "finance.read", "finance.write", "wallet.read", "wallet.write",
     "wallet.topup", "costs.read", "costs.write", "elections.read", "elections.write",
     "elections.vote", "reports.read", "documents.read", "audit.read", "cases.read",
     "cases.write", "settings.read", "settings.write", "promos.write"}

ROLE_PERMISSIONS ==
    LET consumer == {"tickets.read", "tickets.create", "wallet.read", "wallet.topup",
                     "documents.read", "cases.read"}
        votes == {"elections.read", "elections.vote"}
        lead == votes \cup {"tickets.read", "tickets.write", "tickets.create", "tickets.clerk",
                            "reports.read", "documents.read", "audit.read", "cases.read",
                            "cases.write", "settings.read"}
    IN [r \in Role |->
        CASE r = "super-admin" -> PERMISSIONS
          [] r = "manager-admin" -> lead \cup {"users.read", "finance.read", "wallet.read",
               "wallet.topup", "costs.read", "costs.write", "settings.write", "promos.write"}
          [] r = "staff-admin" -> (lead \ {"elections.vote"}) \cup {"users.read", "users.write",
               "wallet.read", "wallet.write", "wallet.topup", "costs.read", "settings.write",
               "promos.write"}
          [] r = "lead-admin" -> lead
          [] r = "lawyer" -> consumer \cup votes \cup {"cases.write"}
          [] r = "consumer" -> consumer \cup votes
          [] r = "company" -> consumer
          [] r = "representative" -> votes \cup {"tickets.read", "tickets.clerk",
                                                 "documents.read", "cases.read"}
          [] r = "investor" -> {"reports.read"}]

-----------------------------------------------------------------------------
\* The controllers: the permission in front of every handler.

All(handlers, permission) == [h \in handlers |-> permission]

TicketLists == All({"findAll", "findOne", "timeline", "getStatusCounts"}, "tickets.read")
            @@ All({"representativeCandidates", "update"}, "tickets.write")
TicketIntake == All({"createIntake", "createJudicialCaseFiles", "createJudicialCaseInformation",
                     "createJudicialCaseSearch", "createJudicialCaseFiling",
                     "createJudicialPowerOfAttorney", "createNonJudicialCopyOfFir",
                     "createNonJudicialRegistryDeed", "createNonJudicialCriminalRecordSearch"},
                    "tickets.create")
TicketDrafts == All({"saveDraft", "deleteActiveDraft", "deleteDraftById"}, "tickets.create")
             @@ All({"listIntakeDrafts", "getActiveDraft", "getDraft"}, "tickets.read")
TicketWork == All({"updateStatus", "overrideStatus", "assign"}, "tickets.write")
           @@ All({"saveClerkCharges", "submitClerkCosts", "acceptAssignment",
                   "rejectAssignment"}, "tickets.clerk")
           @@ All({"finalizeRemainder"}, "finance.write")
TicketReview == All({"reviewAndComplete"}, "finance.write")
             @@ All({"sendBackToClerk", "assignBulk", "bulkActions"}, "tickets.write")
             @@ All({"dispatchDelivery"}, "tickets.clerk")
TicketFiles == All({"uploadDocument", "downloadDocument", "downloadClerkReceipt"}, "tickets.read")
            @@ All({"patchDocument"}, "tickets.clerk") @@ All({"regenerate"}, "tickets.write")
TicketHearings == All({"submitClerkReceipt", "recordNextHearing"}, "tickets.clerk")
               @@ All({"generateNextHearing", "repricePreview", "reprice"}, "tickets.write")

CaseRoutes == All({"list", "findOne", "timeline", "summary"}, "cases.read")
           @@ All({"create", "update", "updateStatus", "delete"}, "cases.write")
CaseTicketRoutes == All({"listTickets", "recommendations", "trackRecommendationClick", "drifts"},
                        "cases.read")
                 @@ All({"createCaseTicket", "resolveDrift"}, "cases.write")
WalletOfConsumer == All({"list", "getMyWallet"}, "wallet.read")
                 @@ All({"topup", "payTicketFromWallet", "uploadReceipt"}, "wallet.topup")
WalletDesk == All({"downloadReceipt", "history", "export"}, "wallet.read")
           @@ All({"verify", "reject"}, "wallet.write") @@ All({"adjust"}, "finance.write")
FinanceController == All({"findAll", "export"}, "finance.read")
                  @@ All({"updateCharge", "reconcile"}, "finance.write")
UsersController == All({"findAll", "roles", "findOne", "userTickets", "listPayouts"}, "users.read")
                @@ All({"create", "createRepresentative", "update", "deactivate", "activate",
                        "deactivateByPost"}, "users.write")
                @@ All({"recordPayout"}, "finance.write") @@ All({"me"}, Session)
ElectionsController == All({"list", "listCandidates"}, "elections.read")
                    @@ All({"create", "update", "remove", "addCandidate", "updateCandidate",
                            "finalize"}, "elections.write")
                    @@ All({"castVote"}, "elections.vote")
PersonalFilesController == All({"upload", "list", "quota", "download", "bulkDelete", "softDelete",
                                "restore", "uploadCaseFile", "listCaseFiles", "cohortAggregates"},
                               Session)
NotificationsController == All({"stream", "findAll", "unreadCount", "markRead", "clearAll",
                                "markAllRead"}, Session)
GeoController == All({"provinces", "fullTree", "districts", "allCities", "cities", "courts",
                      "policeStations", "districtPoliceStations"}, Public)
              @@ All({"seed", "resetAndSeed", "createProvince", "deleteProvince", "createDistrict",
                      "deleteDistrict", "createCity", "deleteCity", "copyCourts"}, "costs.write")
PricingController == All({"list", "getSettings"}, "settings.read")
                  @@ All({"create", "updateSettings", "update", "remove"}, "settings.write")
                  @@ All({"resolve", "availability"}, Session)
AuthController == All({"login", "refresh", "signup", "otpRequest", "otpVerify"}, Public)
               @@ All({"logout", "impersonate", "profileComplete"}, Session)
DashboardController == All({"getMyDashboard", "getClerkSummary"}, "tickets.read")
                    @@ All({"getSummary", "getRegistrationStats", "getRepresentativeEarnings"},
                           "reports.read")
PromosController == All({"validate"}, "tickets.create")
                 @@ All({"list", "create", "deactivate"}, "promos.write")
DocumentsController == All({"list", "export"}, "documents.read")
InvoicesController == All({"generate"}, "finance.write") @@ All({"list", "download"}, "tickets.read")
ReportsController == All({"list", "exportCsv", "run"}, "reports.read")
SettingsController == All({"getTax", "getCompany"}, "settings.read")
                   @@ All({"getEffectiveTaxRate"}, "tickets.create")
                   @@ All({"setTax", "setCompany"}, "settings.write")
ServicesController == All({"findAll", "flows"}, "tickets.read") @@ All({"create"}, "tickets.write")
CurrencyController == All({"listRates", "getRate"}, "finance.read") @@ All({"upsertRate"}, "finance.write")
PaymentSettingsController == All({"get"}, Session) @@ All({"update"}, "finance.write")
PaymentsController == All({"initiate", "getById"}, Session)
                   @@ All({"getByTxn", "webhook", "resolveMock"}, Public)

Routes ==
    [tickets |-> TicketLists @@ TicketIntake @@ TicketDrafts @@ TicketWork @@ TicketReview
                 @@ TicketFiles @@ TicketHearings,
     cases |-> CaseRoutes @@ CaseTicketRoutes, wallet |-> WalletOfConsumer @@ WalletDesk,
     finance |-> FinanceController,
     users |-> UsersController, elections |-> ElectionsController,
     files |-> PersonalFilesController, notifications |-> NotificationsController,
     geo |-> GeoController, pricing |-> PricingController, auth |-> AuthController,
     dashboard |-> DashboardController, promos |-> PromosController,
     documents |-> DocumentsController, invoices |-> InvoicesController,
     reports |-> ReportsController, settings |-> SettingsController,
     services |-> ServicesController, currency |-> CurrencyController,
     payment_settings |-> PaymentSettingsController, payments |-> PaymentsController]

\* PermissionsGuard, after JwtAuthGuard: a role gets an answer from a handler that exists.
hasAllPermissions(role, call) ==
    /\ call[1] \in DOMAIN Routes /\ call[2] \in DOMAIN Routes[call[1]]
    /\ Routes[call[1]][call[2]] \in ROLE_PERMISSIONS[role] \cup {Session, Public}
=============================================================================
