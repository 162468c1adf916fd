SPECIFICATION Spec
CONSTANTS
    Rows = {1}
    Persons = {p1}
    Households = {}
    Nobody = Nobody
    New = New
    Requests = {q1, q2}
    Workers = {w1, w2, w3}
    Asked = {"revert", "finalize"}
    MaxFaults = 2
    MaxSlow = 2
    MaxQueued = 3
INVARIANTS ImportedOnceUnlessExcused
PROPERTIES QueuedIsWorkedOff
CHECK_DEADLOCK FALSE
