SPECIFICATION Spec
CONSTANTS
    Changes = {c1}
    Runs = {r1, r2}
    Slots = {s1, s2}
    Kinds = {"transition", "update", "service", "intake"}
    Top = 1
    BatchSize = 1
    ByHand = {c1}
    MaxFaults = 2
    MaxRulings = 1
SYMMETRY Symmetric
CHECK_DEADLOCK FALSE
INVARIANTS TypeOK SyncedIsSettled AppliedOnceUnlessExcused ConflictSurfaces
