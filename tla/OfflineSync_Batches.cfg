SPECIFICATION Spec
CONSTANTS
    Changes = {c1, c2, c3}
    Runs = {r1}
    Slots = {s1}
    Kinds = {"update"}
    Top = 0
    BatchSize = 2
    ByHand = {}
    MaxFaults = 1
    MaxRulings = 0
CHECK_DEADLOCK FALSE
INVARIANTS SyncedIsSettled
PROPERTIES PendingIsSettled
