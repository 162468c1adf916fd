CONSTANTS
    Events = {hearing}
    Visits = {visit}
    Offsets <- MCOffsets
    Horizon = 0
    Runs = {a, b}
    MaxFailures = 1
SPECIFICATION Spec
PROPERTIES DueIsClaimed
