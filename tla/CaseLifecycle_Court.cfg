CONSTANTS
    Docs <- None
    Services <- MCServices
    ProgramDocs <- NoDocs
    ConditionalDocs <- NoDocs
    TypeDocs <- NoDocs
    Categories = {"CICL", "SoloParent"}
    Decisions = {"court_hearings"}
    Overrides = {}
    MaxRows = 1
SPECIFICATION Spec
INVARIANTS SealedWorkStays FourEyes SealedAssessmentAdvances GatesAreSealable
PROPERTIES GateMeansDone
