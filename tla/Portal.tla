------------------------------- MODULE Portal -------------------------------
(***************************************************************************)
(* The web application as one browser tab sees it: the landing page, the   *)
(* two sign-in pages, the guards in front of the pages of the consumer and *)
(* of the staff, and the menus that offer pages to a role.  A guard reads  *)
(* the tokens and the role the browser stored, may have to refresh, and    *)
(* shows the page or sends the tab elsewhere, where the next guard reads   *)
(* them again.  A page calls the API when it is shown, and for its         *)
(* buttons.                                                                *)
(***************************************************************************)
EXTENDS Integers, Routes

CONSTANT SignInLimit        \* sign-ins of a behaviour

ASSUME PortalAssumption == SignInLimit \in Nat

VARIABLES
    stored,     \* localStorage: the access and the refresh token, and the role of wusuq_user
    stash,      \* the same of the super-admin who signed in as somebody else
    tab,        \* the path, whether its guard has let it through, the next= of a sign-in
                \* page; history: why, what brought the tab here
    hops,       \* redirects since the user last did something
    signIns

portalVars == <<stored, stash, tab, hops, signIns>>

Token == {"none", "valid", "expired"}
NoRole == "no role"
SignedOut == [access |-> "none", refresh |-> "none", role |-> NoRole]

-----------------------------------------------------------------------------
\* Pages: the calls a page cannot do without, and those of its buttons.

Page(loads, asks) == [loads |-> loads, asks |-> asks]

ConsumerDashboard == Page({<<"dashboard", "getMyDashboard">>, <<"wallet", "getMyWallet">>}, {})
MyTickets == Page({<<"tickets", "findAll">>},
                  {<<"tickets", "downloadDocument">>, <<"invoices", "download">>,
                   <<"tickets", "findOne">>})
PayTicket == Page({<<"tickets", "findOne">>, <<"payment_settings", "get">>},
                  {<<"wallet", "uploadReceipt">>, <<"wallet", "topup">>,
                   <<"wallet", "payTicketFromWallet">>})
Drafts == Page({<<"tickets", "listIntakeDrafts">>}, {<<"tickets", "deleteDraftById">>})
CaseFiles == Page({<<"files", "listCaseFiles">>, <<"files", "cohortAggregates">>},
                  {<<"files", "download">>, <<"files", "softDelete">>, <<"files", "bulkDelete">>,
                   <<"files", "uploadCaseFile">>})
MyCases == Page({<<"cases", "list">>, <<"cases", "findOne">>}, {})
MyWallet == Page({<<"wallet", "getMyWallet">>}, {<<"wallet", "uploadReceipt">>, <<"wallet", "topup">>})
IntakeWizard == Page({<<"services", "findAll">>, <<"geo", "provinces">>, <<"geo", "allCities">>},
                     {<<"tickets", h>> : h \in DOMAIN TicketIntake \cup
                        {"getActiveDraft", "saveDraft", "deleteActiveDraft", "uploadDocument"}}
                     \cup {<<"settings", "getEffectiveTaxRate">>, <<"promos", "validate">>,
                           <<"pricing", "resolve">>, <<"pricing", "availability">>,
                           <<"users", "me">>, <<"geo", "districts">>, <<"geo", "cities">>,
                           <<"geo", "courts">>, <<"geo", "districtPoliceStations">>})
ConsumerDocuments == Page({<<"documents", "list">>}, {<<"tickets", "downloadDocument">>})
MyFiles == Page({<<"files", "list">>, <<"files", "quota">>},
                      {<<"files", "upload">>, <<"files", "softDelete">>, <<"files", "restore">>,
                       <<"files", "download">>})
ConsumerInvoices == Page({<<"invoices", "list">>}, {<<"invoices", "download">>})
\* The form that changes the password calls a route no controller has, here and below.
ChangePassword == <<"users", "password">>
ConsumerProfile == Page({}, {<<"auth", "profileComplete">>, ChangePassword})

ClerkDashboard == Page({<<"dashboard", "getClerkSummary">>}, {})
ClerkTickets == Page({<<"tickets", "findAll">>},
    {<<"tickets", h>> : h \in
        {"acceptAssignment", "rejectAssignment", "submitClerkReceipt", "submitClerkCosts",
         "dispatchDelivery", "recordNextHearing", "uploadDocument", "downloadDocument",
         "downloadClerkReceipt", "patchDocument", "timeline", "findOne"}})
Documents == Page({<<"documents", "list">>}, {<<"tickets", "uploadDocument">>, <<"tickets", "downloadDocument">>})
\* PATCH /users/me is not a route either: :id takes "me" for an id.
EditMe == <<"users", "edit me">>
Profile == Page({}, {EditMe, ChangePassword})

Dashboard == Page({<<"dashboard", "getSummary">>}, {<<"dashboard", "getRepresentativeEarnings">>})
Tickets == Page({<<"tickets", "findAll">>},
    {<<"tickets", h>> : h \in
        {"findOne", "downloadClerkReceipt", "downloadDocument", "reviewAndComplete",
         "recordNextHearing", "updateStatus", "overrideStatus", "bulkActions",
         "representativeCandidates", "assign", "timeline", "sendBackToClerk", "uploadDocument",
         "assignBulk", "generateNextHearing"}}
    \cup {<<"invoices", "generate">>, <<"invoices", "download">>, <<"finance", "updateCharge">>})
Cases == Page({<<"cases", "list">>, <<"cases", "findOne">>, <<"cases", "drifts">>, <<"cases", "recommendations">>},
              {<<"cases", "create">>, <<"cases", "delete">>, <<"cases", "resolveDrift">>,
               <<"cases", "trackRecommendationClick">>, <<"cases", "createCaseTicket">>})
Finance == Page({<<"finance", "findAll">>, <<"payment_settings", "get">>},
                {<<"wallet", h>> : h \in {"uploadReceipt", "verify", "reject", "downloadReceipt", "adjust"}}
                \cup {<<"finance", "reconcile">>, <<"finance", "updateCharge">>, <<"payment_settings", "update">>})
Wallet == Page({<<"wallet", "list">>},
               {<<"wallet", h>> : h \in {"topup", "verify", "reject", "history", "uploadReceipt",
                                         "export", "downloadReceipt"}})
Users == Page({<<"users", "findAll">>},
              {<<"users", h>> : h \in {"update", "create", "activate", "deactivateByPost", "deactivate"}}
              \cup {<<"wallet", "topup">>, <<"auth", "impersonate">>})
UserAccount == Page({<<"users", "findOne">>}, {<<"users", "recordPayout">>, <<"users", "listPayouts">>})
Representatives == Page({<<"users", "findAll">>, <<"geo", "provinces">>},
                        {<<"users", h>> : h \in {"update", "createRepresentative", "activate", "deactivateByPost"}}
                        \cup {<<"auth", "impersonate">>, <<"geo", "districts">>, <<"geo", "cities">>})
PricingRules == Page({<<"pricing", "list">>, <<"pricing", "getSettings">>, <<"settings", "getTax">>},
                     {<<"pricing", h>> : h \in {"create", "updateSettings", "update", "remove"}}
                     \cup {<<"settings", "setTax">>})
PromoCodes == Page({<<"promos", "list">>}, {<<"promos", "create">>, <<"promos", "deactivate">>})
TicketCharges == Page({<<"finance", "findAll">>}, {<<"finance", "updateCharge">>})
ExchangeRates == Page({<<"currency", "listRates">>}, {<<"currency", "upsertRate">>})
GeoManagement == Page({<<"geo", "fullTree">>},
                      {<<"geo", h>> : h \in {"seed", "resetAndSeed", "createProvince", "deleteProvince",
                         "createDistrict", "deleteDistrict", "createCity", "deleteCity", "copyCourts"}})
ElectionsBoard == Page({<<"elections", "list">>},
                  {<<"elections", h>> : h \in {"listCandidates", "castVote", "create", "addCandidate",
                                               "finalize", "remove"}})
Reports == Page({<<"reports", "list">>}, {<<"reports", "run">>, <<"reports", "exportCsv">>})
Invoices == Page({<<"invoices", "list">>}, {<<"invoices", "download">>})

\* The menus: what a path shows depends on who asks only at the dashboard and the tickets.
consumerNavItems ==
    [dashboard |-> ConsumerDashboard, my_tickets |-> MyTickets, pay |-> PayTicket, drafts |-> Drafts,
     case_files |-> CaseFiles, my_cases |-> MyCases, my_wallet |-> MyWallet,
     services |-> IntakeWizard, documents |-> ConsumerDocuments, files |-> MyFiles,
     invoices |-> ConsumerInvoices, profile |-> ConsumerProfile]
buildClerkItems ==
    [dashboard |-> ClerkDashboard, tickets |-> ClerkTickets, documents |-> Documents, profile |-> Profile]
buildNavItems ==
    [dashboard |-> Dashboard, tickets |-> Tickets, cases |-> Cases, services |-> IntakeWizard,
     finance |-> Finance, reports |-> Reports, documents |-> Documents, wallet |-> Wallet,
     invoices |-> Invoices, elections |-> ElectionsBoard, promos |-> PromoCodes, users |-> Users,
     account |-> UserAccount, representatives |-> Representatives, pricing |-> PricingRules,
     ticket_charges |-> TicketCharges, exchange_rates |-> ExchangeRates, geo |-> GeoManagement,
     profile |-> Profile]
menuOf(role) == CASE role \in ConsumerRole -> consumerNavItems
                  [] role = "representative" -> buildClerkItems
                  [] OTHER -> buildNavItems

-----------------------------------------------------------------------------
\* Paths.  next is what a sign-in page keeps of the path it is to return to.

ConsumerPath == {<<"consumer", p>> : p \in DOMAIN consumerNavItems}
PortalPath == {<<"portal", p>> : p \in DOMAIN buildNavItems \cup DOMAIN buildClerkItems}
Home == <<"home", "">>
ConsumerLogin == <<"sign-in", "consumer">>
StaffLogin == <<"sign-in", "staff">>
Path == ConsumerPath \cup PortalPath \cup {Home, ConsumerLogin, StaffLogin}
ConsumerHome == <<"consumer", "dashboard">>
StaffHome == <<"portal", "dashboard">>

\* The user came by himself, was thrown out of a page, or ended an impersonation on one.
Because(why, path) == <<why, path>>
OwnWill == Because("came", Home)
At(path, next) == [path |-> path, next |-> next, shown |-> FALSE, why |-> OwnWill]
SendFor(why, path, next) == /\ tab' = [At(path, next) EXCEPT !.why = why] /\ hops' = hops + 1
SendTo(path, next) == SendFor(tab.why, path, next)

\* staffLoginHref: a path of the consumers, or the sign-in page itself, is dropped.
staffLoginHref(path) == IF path \in PortalPath \cup {Home} THEN path ELSE StaffHome
safeNextPath(path) == IF path \in ConsumerPath THEN StaffHome ELSE path
safeConsumerNextPath(path) == IF path \in ConsumerPath THEN path ELSE ConsumerHome

landingPathFor(role, hasValidToken) ==
    IF ~hasValidToken THEN (IF role \notin ConsumerRole \cup {NoRole} THEN StaffLogin ELSE ConsumerLogin)
    ELSE IF role \in ConsumerRole THEN ConsumerHome ELSE StaffHome

\* The user follows a link or the menu, or types an address.
Visit(path) ==
    /\ tab' = At(path, IF path = StaffLogin THEN StaffHome ELSE ConsumerHome)
    /\ hops' = 0
    /\ UNCHANGED <<stored, stash, signIns>>

Land ==
    LET valid == stored.access = "valid" IN
    /\ tab.path = Home
    /\ stored' = IF valid THEN stored ELSE SignedOut
    /\ LET to == landingPathFor(stored.role, valid) IN
         SendTo(to, IF to = StaffLogin THEN StaffHome ELSE ConsumerHome)
    /\ UNCHANGED <<stash, signIns>>

-----------------------------------------------------------------------------
\* The guards.

\* An impersonation may have ended a moment ago, in a session that had expired.
thrownOut == IF tab.why[1] = "ended" /\ ~tab.shown THEN tab.why ELSE Because("left", tab.path)

redirectToLogin ==
    /\ stored' = SignedOut
    /\ IF tab.path \in ConsumerPath
         THEN SendFor(thrownOut, ConsumerLogin, safeConsumerNextPath(tab.path))
         ELSE SendFor(thrownOut, StaffLogin, safeNextPath(staffLoginHref(tab.path)))
    /\ UNCHANGED <<stash, signIns>>

authorizeByRole ==
    IF tab.path \in ConsumerPath
      THEN IF stored.role \in ConsumerRole THEN tab' = [tab EXCEPT !.shown = TRUE] /\ UNCHANGED hops
           ELSE SendTo(StaffHome, StaffHome)
      ELSE IF stored.role \in ConsumerRole THEN SendTo(ConsumerHome, ConsumerHome)
           ELSE tab' = [tab EXCEPT !.shown = TRUE] /\ UNCHANGED hops

\* Without a role the guard of the consumers ends the session; that of the staff does not.
mayAuthorize == ~(tab.path \in ConsumerPath /\ stored.role = NoRole)

Guard ==
    /\ tab.path \in ConsumerPath \cup PortalPath /\ ~tab.shown
    /\ \/ /\ stored.access = "valid" /\ mayAuthorize
          /\ authorizeByRole /\ UNCHANGED <<stored, stash, signIns>>
       \/ /\ stored.access # "valid" /\ stored.refresh = "valid" /\ mayAuthorize
          /\ stored' = [stored EXCEPT !.access = "valid"]
          /\ authorizeByRole /\ UNCHANGED <<stash, signIns>>
       \/ /\ stored.access # "valid" \/ ~mayAuthorize
          /\ redirectToLogin

\* A call of the page that is shown is answered with 401, and so is the refresh.
Unauthorized ==
    /\ tab.shown /\ stored.access # "valid"
    /\ redirectToLogin

expired(session) == {[session EXCEPT !.access = "expired"], [session EXCEPT !.refresh = "expired"]}

Expire ==
    /\ \/ stored.role # NoRole /\ stored' \in expired(stored) /\ UNCHANGED stash
       \/ stash.role # NoRole /\ stash' \in expired(stash) /\ UNCHANGED stored
    /\ UNCHANGED <<tab, hops, signIns>>

\* Mutant: the page that was asked for is forgotten.
nextPath_Dashboard(role) == IF role \in ConsumerRole THEN ConsumerHome ELSE StaffHome

nextPath(role) ==
    IF tab.path = ConsumerLogin
      THEN IF role \in ConsumerRole THEN tab.next ELSE StaffHome
      ELSE IF role \in ConsumerRole THEN ConsumerHome ELSE tab.next

\* Who is thrown out of a page may be let in again to go on there.
MeantFor(path, role) == (path \in ConsumerPath) = (role \in ConsumerRole)
stillLeft(role) == tab.why[1] = "left" /\ MeantFor(tab.why[2], role)

NewSession(role) == [access |-> "valid", refresh |-> "valid", role |-> role]

SignIn(role) ==
    /\ tab.path \in {ConsumerLogin, StaffLogin}
    /\ signIns < SignInLimit /\ signIns' = signIns + 1
    /\ stored' = NewSession(role)
    /\ tab' = [At(nextPath(role), ConsumerHome) EXCEPT
                  !.why = IF stillLeft(role) THEN tab.why ELSE OwnWill]
    /\ hops' = 0 /\ UNCHANGED stash

\* A super-admin becomes one of the users or representatives of a board, and is later
\* given back the session that was put aside.
Impersonate(role) ==
    /\ tab.shown /\ tab.path \in {<<"portal", "users">>, <<"portal", "representatives">>}
    /\ stored.role = "super-admin" /\ stored.access = "valid"
    /\ stash' = stored /\ stored' = NewSession(role)
    /\ tab' = At(StaffHome, ConsumerHome)
    /\ hops' = 0 /\ UNCHANGED signIns

ExitImpersonation ==
    /\ tab.shown /\ stash.role # NoRole
    /\ stored' = stash /\ stash' = SignedOut
    /\ tab' = [At(IF tab.path \in ConsumerPath THEN ConsumerHome ELSE StaffHome, ConsumerHome)
                EXCEPT !.why = Because("ended", tab.path)]
    /\ hops' = 0 /\ UNCHANGED signIns

SignOut ==
    /\ tab.shown
    /\ stored' = SignedOut /\ stash' = SignedOut
    /\ tab' = [At(IF tab.path \in ConsumerPath THEN ConsumerLogin ELSE StaffLogin,
                  IF tab.path \in ConsumerPath THEN ConsumerHome ELSE StaffHome)
                EXCEPT !.why = IF stash.role = NoRole THEN OwnWill ELSE Because("ended", tab.path)]
    /\ hops' = 0 /\ UNCHANGED signIns

PortalInit ==
    /\ stored = SignedOut /\ stash = SignedOut /\ tab = At(Home, ConsumerHome) /\ hops = 0 /\ signIns = 0

PortalNext ==
    \/ \E path \in Path : Visit(path)
    \/ Land \/ Guard \/ Unauthorized \/ Expire \/ SignOut \/ ExitImpersonation
    \/ \E role \in Role : SignIn(role) \/ Impersonate(role)

-----------------------------------------------------------------------------
\* A tab comes to rest: the landing page and the guards send it on at most twice before
\* it is on a page that is shown or on a sign-in page, whatever the stored session is
\* and whenever its tokens expire on the way.  app/page.tsx:20, portal-auth-guard.tsx:44,
\* consumer-auth-guard.tsx:45.
RedirectsSettle == hops =< 2

\* Ending an impersonation, by its own button or by signing out, takes the tab over at
\* most two guards to the dashboard of the staff with the super-admin's session, which may
\* have to be refreshed on the way, or signed out to a sign-in page: never to a page shown
\* to the user who was impersonated.  The sign-in page is that of the staff, unless it
\* ended on a page of the consumers (shell-nav.tsx:53, topbar.tsx:10, consumer-topbar.tsx:7).
EndsWithTheAdmin ==
    tab.why[1] = "ended" =>
        /\ tab.shown => tab.path = StaffHome /\ stored.role = "super-admin"
        /\ tab.path \in {StaffLogin, ConsumerLogin} => stored = SignedOut
        /\ tab.path = ConsumerLogin => tab.why[2] \in ConsumerPath

\* The page that is shown gets every answer it cannot do without, for consumers, for
\* representatives and for the super-admin: the menus, the pages, ROLE_PERMISSIONS and
\* the permissions of the controllers agree.  The sidebar of the other staff offers
\* pages their role is refused.
OfferedPageLoads ==
    /\ tab.shown
    /\ stored.role \in ConsumerRole \cup {"representative", "super-admin"}
    /\ tab.path[2] \in DOMAIN menuOf(stored.role)
    => \A call \in menuOf(stored.role)[tab.path[2]].loads : hasAllPermissions(stored.role, call)

\* And every button of such a page has a handler that answers the role, but for the two
\* forms of the profile (README, Disagreements).
ButtonsServed ==
    /\ tab.shown
    /\ stored.role \in ConsumerRole \cup {"representative", "super-admin"}
    /\ tab.path[2] \in DOMAIN menuOf(stored.role)
    => \A call \in menuOf(stored.role)[tab.path[2]].asks \ {EditMe, ChangePassword} :
         hasAllPermissions(stored.role, call)

\* Who is thrown out of a page, by its guard or by a call that is answered with 401, and
\* signs in again as a user of the same kind, is on that page again, and still is when the
\* new session expires in turn: the guard, the href, the sign-in page and the guard keep
\* it ("dropping it breaks post-login bounce-back", app/login/page.tsx:9).
NextIsKept ==
    tab.why[1] = "left" =>
        IF tab.path \in {StaffLogin, ConsumerLogin}
          THEN (tab.path = ConsumerLogin) = (tab.why[2] \in ConsumerPath)
          ELSE tab.path = tab.why[2]

\* A user is led to pages that work: redirections end, the page shown loads and its buttons
\* are served, a renewed session continues where it ended, and who ends an impersonation
\* is the super-admin again, or nobody.
PortalServes ==
    /\ stored.access \in Token /\ stored.refresh \in Token
    /\ RedirectsSettle /\ OfferedPageLoads /\ ButtonsServed /\ NextIsKept /\ EndsWithTheAdmin
=============================================================================
