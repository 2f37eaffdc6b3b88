CONSTANTS
    b1 = b1  b2 = b2  g1 = g1  g2 = g2  g3 = g3  x = x  y = y  j1 = j1  j2 = j2  j3 = j3
    Part = {"tokens", "codes", "hearings", "documents", "picker", "preview", "board"}
    BrowserTab = {b1, b2}
    Fetch = {g1, g2, g3}
    TabOf <- Tabs
    OtpReq = {o1, o2}
    TokenLimit = 3
    CodeLimit = 2
    MAX_ATTEMPTS = 2
    HearingTicket = {h1, h2}
    HearingDate = {1, 2}
    Undeliverable = {h1}
    HearingCrashLimit = 1
    Doc = {d1}
    ReviewLimit = 2
    FormCity = {x, y}
    FormCourt = {j1, j2, j3}
    CourtsOf <- Courts
    NoneYet = none
    PickLimit = 3
    EditLimit = 3
    BoardTicket = {k1}
    BoardScenes <- Scenes
    PageCharge = {1}
    DeliveryCharge = {1}
    NoTicket = none
    RunLimit = 2
    ReceiptLimit = 1
SPECIFICATION DeskSpec
INVARIANTS  FormIsCurrent
PROPERTIES EverybodyIsAnswered HearingsAreKept BoardIsReliable
CHECK_DEADLOCK FALSE
