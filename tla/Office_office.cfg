CONSTANTS
    a = a  b = b  c1 = c1  c2 = c2  s1 = s1  s2 = s2
    Part = {"intake", "accounts", "invoices", "files", "elections", "geography"}
    Tab = {a, b}
    Consumer = {c1, c2}
    Scenes <- IntakeScenes
    Slot = {s1, s2}
    FormLimit = 4
    KeyLimit = 2
    totalUsageLimit = 1
    perUserLimit = 1
    AllowUnpriced = TRUE
    AccountReq = {s1, s2}
    AccountScenes <- EditScenes
    Bill = {t1, t2}
    BillKinds <- Kinds
    Proposal = {0, 3}
    InvoiceReq = {s1, s2}
    InvoiceLimit = 2
    BillScenes <- InvoiceScenes
    FileId = {f1, f2, f3}
    FileJob = {s1, s2}
    FileSize = {1}
    QUOTA_BYTES = 1
    PER_FILE_MAX_BYTES = 1
    Candidate = {e1, e2}
    Position = {"president", "secretary"}
    Voter = {u1}
    PollReq = {s1, s2}
    Votes = {1}
    GeoSlot = {s1, s2}
    SeedRows <- DataSet
    SeatPlan <- CourtFile
    PROVINCE_ALIAS <- ProvinceLabels
    CITY_ALIAS <- CityNames
    GeoScenes <- Atlases
SPECIFICATION OfficeSpec
INVARIANTS SubmittedOnce PromosAreCounted CurrencyIsKept InvoicesAreSound CabinetIsCounted BallotIsSound
PROPERTIES GeographyIsSeeded
CHECK_DEADLOCK FALSE
SYMMETRY Symmetry
