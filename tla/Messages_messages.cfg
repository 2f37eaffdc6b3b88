CONSTANTS
    Part = {"gateway", "bells", "tab", "tours", "summary"}
    p1 = p1  p2 = p2  p3 = p3
    r1 = r1  r2 = r2  r3 = r3
    NULL = NULL
    Payment = {p1, p2, p3}
    Request = {r1, r2}
    Amount = {1, 2, 3}
    Services = {2, 5}
    Total = 3
    senior = senior  chief = chief  staff = staff  buyer = buyer  a1 = a1  a2 = a2
    BellUser = {senior, chief, staff, buyer, a1, a2}
    RoleOf <- Roles
    TicketOwner = buyer
    NoUser = nobody
    AtOnceLimit = 2
    BellScenes <- BellsRung
    RowsShown = 1
    RowsWritten = 2
    AskLimit = 2
    ActionLimit = 4
    MountLimit = 2
    TourScenes <- ToursPlayed
    m1 = m1  m2 = m2
    Matter = {m1, m2}
    Desks <- DesksSeen
    SummaryReq = {r1}
    Worth = {0, 2}
    SummaryLimit = 3
SPECIFICATION MessagesSpec
SYMMETRY MessagesSymmetry
INVARIANTS CreditedOnce FlipIsForItsSession BellsAreHeard FiguresAgree
PROPERTIES OutcomeIsFinal BadgeIsTrue ToursPlayOnce
CHECK_DEADLOCK FALSE
