SPECIFICATION Spec
CONSTANTS
    Programs <- MCPrograms
    Orders <- MCOrders
    Ordinals <- MCOrdinals
    Inputs <- MCInputs
INVARIANTS TypeOK ValidCode SameBehaviour
PROPERTIES AllInlined
