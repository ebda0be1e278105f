SPECIFICATION Spec
CONSTANTS
    Programs <- MCPrograms
    Orders <- MCOrders
    Inputs <- MCInputs
    Steps <- MCSteps
INVARIANTS TypeOK ValidCode SameBehaviour NothingLeft
PROPERTIES AllCallsOrNone Terminates
