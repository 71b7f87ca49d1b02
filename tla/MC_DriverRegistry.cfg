\* Driver registry: loads, reloads and gets in any order, every plugin
\* outcome, ids from -1 to one past the last driver.
CONSTANTS
    Names <- MCNames
    MaxCalls = 5
    MaxId = 3
SPECIFICATION Spec
CHECK_DEADLOCK FALSE
INVARIANTS
    TypeOK
    RegistryConsistent
    IdsFollowLoadOrder
PROPERTIES
    GetRunsListedFactory
