SPECIFICATION Spec
CONSTANTS
    Programs <- MCPrograms
    Pipelines <- MCPipelines
    MaxFuel = 30
    MaxRounds = 8
INVARIANTS TypeOK NoCrash Verifies SameBehaviour Lowered
PROPERTIES Terminates
CHECK_DEADLOCK FALSE
