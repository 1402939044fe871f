CONSTANTS
    Ports = {"wide", "lone"}
    FlowsOn <- MCFlowsOn
    Steps <- MCSteps
    Skipped <- MCSkipped
    Repeatable <- MCRepeatable
    Width = 2
    MaxStrikes = 1
    Permits = 2
    HalfWord = 6
SPECIFICATION Spec
INVARIANTS
    TypeOK
    AloneIsAlone
    FiledOnce
    AskedAgainSafely
    DeadWaitsBounded
