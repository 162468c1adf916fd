SPECIFICATION Spec
CONSTANTS
    Events = {e1, e2}
    Staff = {w1, w2}
    Nobody = Nobody
    Blocks = {b1, b2, b3, b4}
    Requests = {q1, q2}
    MaxVisits = 2
    MaxOverlaps = 1
    MaxCuts = 1
SYMMETRY Symmetric
INVARIANTS TypeOK EventsMirrored VisitsNeverAstray
