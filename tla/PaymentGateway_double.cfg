CONSTANTS
    p1 = p1  p2 = p2  p3 = p3
    r1 = r1  r2 = r2  r3 = r3
    NULL = NULL
    Payment = {p1, p2}
    Request = {r1, r2}
    Amount = {1, 2, 3}
    Services = {2, 5}
    Total = 3
SPECIFICATION Spec
INVARIANTS NoDoubleCharge
CHECK_DEADLOCK FALSE
SYMMETRY Symmetry
