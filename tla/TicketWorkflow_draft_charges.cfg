CONSTANTS
    r1 = r1  r2 = r2  r3 = r3  r4 = r4  r5 = r5  c1 = c1  c2 = c2
    STAFF = STAFF
    Request = {r1, r2, r3}
    Rep = {c1, c2}
    Flows <- PhysicalFlow
    Price = {1}
    Charge = {1, 2}
    Endpoints <- DraftEndpoints
    InitStatus = {"WAITING_APPROVAL"}
SPECIFICATION Spec
INVARIANTS FinalBillReconciles
CHECK_DEADLOCK FALSE
SYMMETRY Symmetry
