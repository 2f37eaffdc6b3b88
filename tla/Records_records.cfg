CONSTANTS
    nul = nul
    Part = {"cases", "prices", "paper", "reports", "portal", "payments"}
    CaseReq = {s1, s2}
    CaseField = {no}
    CaseValue = {v, w}
    CaseFlow <- TwoFlows
    NullValue = null
    CaseScenes <- Changes
    CaseTicketLimit = 2
    CaseEventLimit = 3
    PriceSeed <- Seed
    PriceRequests <- Asked
    NullDim = nul
    currentYear = 2026
    RuleEditLimit = 2
    ChangeLimit <- Changing
    FormFlow <- FlowsWithForms
    ViewTicket = {q1, q2}
    q1 = q1
    q2 = q2
    k = k
    Owner <- OneOwner
    ViewRep = {p1, p2}
    PaidIn <- TwoCurrencies
    Unset = unset
    FeeLimit = 1
    RowLimit = 3
    ViewEventLimit = 4
    SignInLimit = 2
    PayKinds <- Orders
    PayMethods = {"BANK_TRANSFER", "JAZZ_CASH"}
    TypedAmounts = {2}
    FinalCharges = {3}
    Credits = {5}
    ClaimLimit = 2
SPECIFICATION RecordsSpec
SYMMETRY Symmetry
INVARIANTS CaseTellsItsStory PricesAgree PageMatchesServer NumbersAgree PortalServes
PROPERTIES PaysWhatIsDue
CHECK_DEADLOCK FALSE
