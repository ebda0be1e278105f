SPECIFICATION Spec
CONSTANTS
    Programs <- SlicePrograms
    Orders <- MCOrders
    Inputs <- MCInputs
    Steps <- MCSteps
INVARIANTS SameBehaviour
