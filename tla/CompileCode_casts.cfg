SPECIFICATION Spec
CONSTANTS
    Programs <- MCNarrowed
    Pipelines <- MCPipelines
    MaxFuel = 30
    MaxRounds = 8
INVARIANTS SameBehaviour
CHECK_DEADLOCK FALSE
