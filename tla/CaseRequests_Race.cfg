CONSTANTS
    Docs <- NoDocs
    Services <- MCServices
    ProgramDocs <- NoDocsOf
    ConditionalDocs <- NoDocsOf
    TypeDocs <- NoDocsOf
    Slots = {a, b}
    Ops <- RaceOps
    Failures = TRUE
    MaxRows = 1
SPECIFICATION Spec
INVARIANTS DeliveryIsAuthorised HistoryIsHonest
SYMMETRY SlotSymmetry
