CONSTANTS
    Docs <- NoDocs
    Services <- MCServices
    ProgramDocs <- NoDocsOf
    ConditionalDocs <- NoDocsOf
    TypeDocs <- NoDocsOf
    Slots = {1}
    Ops <- LifecycleOps
    Failures = FALSE
    MaxRows = 1
SPECIFICATION Spec
INVARIANTS TypeOK SealedWorkStays TrailReachesStatus
PROPERTIES ImplementsLifecycle StatusFollowsLifecycle SealedAssessmentMovesOn
