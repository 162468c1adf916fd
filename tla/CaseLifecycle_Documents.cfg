CONSTANTS
    Docs <- MCDocs
    Services <- MCServices
    ProgramDocs <- MCProgramDocs
    ConditionalDocs <- NoDocs
    TypeDocs <- NoDocs
    Categories = {"General"}
    Decisions = {"interventions", "referrals"}
    Overrides = {"enrolled", "active", "closed"}
    MaxRows = 1
SPECIFICATION Spec
INVARIANTS TypeOK SealedWorkStays FourEyes ExitRecordInPlace
PROPERTIES GateMeansDone BothSealsFreezeChecklist
