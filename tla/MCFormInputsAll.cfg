SPECIFICATION Spec
CONSTANTS
    h1 = h1
    h2 = h2
    Handlers <- MCHandlers
    MaxInputs = 2
    MaxRequests = 2
INVARIANTS AllInputsAreUpdated
CHECK_DEADLOCK FALSE
