CONSTANTS
    MaxEntier = 7
    MaxObjects = 3
    MaxItems = 2
    MaxCalls = 3
SPECIFICATION Spec
CHECK_DEADLOCK FALSE
INVARIANT ContractsAlwaysHold
