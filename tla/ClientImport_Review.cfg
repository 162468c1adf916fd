SPECIFICATION Spec
CONSTANTS
    Rows = {1, 2}
    Persons = {p1, p2}
    Households = {}
    Nobody = Nobody
    New = New
    Requests = {q1}
    Workers = {w1, w2}
    Asked = {"decide", "revert", "undo", "eligible", "finalize"}
    MaxFaults = 1
    MaxSlow = 0
    MaxQueued = 2
SYMMETRY Symmetric
INVARIANTS TypeOK FinalizedIsDecided NobodySkipped SeveredStaysSevered NoSecondRecord LonePairSavedOnce
CHECK_DEADLOCK FALSE
