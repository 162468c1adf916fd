SPECIFICATION Spec
CONSTANTS
    Rows = {1, 2}
    Persons = {p1, p2}
    Households = {}
    Nobody = Nobody
    New = New
    Requests = {q1}
    Workers = {w1}
    Asked = {"decide", "finalize"}
    MaxFaults = 1
    MaxSlow = 0
    MaxQueued = 2
SYMMETRY Symmetric
INVARIANTS PairHasOneWinner
CHECK_DEADLOCK FALSE
