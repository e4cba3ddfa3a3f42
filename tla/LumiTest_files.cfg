SPECIFICATION Spec
CONSTANTS
    MaxFiles = 2
    MaxHooks = 2
    MaxTests = 2
    MaxGroups = 2
    MaxGroupCalls = 2
    MaxDepth = 6
INVARIANTS
    FilteredGroupsStayQuiet
    FailuresAreReported
PROPERTY
    HooksSurround
CHECK_DEADLOCK FALSE
