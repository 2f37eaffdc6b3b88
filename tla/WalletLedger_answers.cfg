CONSTANTS
    u1 = u1  u2 = u2  t1 = t1  t2 = t2  t3 = t3  w1 = w1  w2 = w2
    r1 = r1  r2 = r2  r3 = r3  r4 = r4  r5 = r5
    NULL = NULL
    CreatedAt <- Ages
    User = {u1}
    Ticket = {t1, t2}
    Topup = {w1}
    Request = {r1, r2, r3}
    Consumer <- OneConsumer
    Split = {t1}
    Physical = {t1}
    Amount = {2}
    Charges <- PlainPrices
    InitStatus = {"COMPLETED"}
    Endpoints <- LivenessEndpoints
SPECIFICATION FairSpec
PROPERTIES RequestsEnd
CHECK_DEADLOCK FALSE
