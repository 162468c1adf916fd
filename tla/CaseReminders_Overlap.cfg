CONSTANTS
    Events = {hearing}
    Visits = {visit}
    Offsets <- MCOffsets
    Horizon = 1
    Runs = {a, b}
    MaxFailures = 1
SPECIFICATION Spec
INVARIANTS TypeOK RemindedAtMostOnce ClaimedIsDelivered
SYMMETRY RunSymmetry
