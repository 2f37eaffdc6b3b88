CONSTANTS
    u1 = u1  u2 = u2  t1 = t1  t2 = t2  t3 = t3  w1 = w1  w2 = w2
    r1 = r1  r2 = r2  r3 = r3  r4 = r4  r5 = r5
    NULL = NULL
    CreatedAt <- Ages
    User = {u1, u2}
    Ticket = {t1, t2, t3}
    Topup = {w1, w2}
    Request = {r1, r2, r3, r4}
    Consumer <- TwoConsumers
    Split = {t1}
    Physical = {t1}
    Amount = {1, 2}
    Charges <- BasePrices
    InitStatus = {"UNPAID"}
    Endpoints <- WalletEndpoints
SPECIFICATION Spec
INVARIANTS TypeOK BalanceBacked BooksBacked
PROPERTIES DecisionIsFinal MovesMoneyAtomically
CHECK_DEADLOCK FALSE
SYMMETRY Symmetry
