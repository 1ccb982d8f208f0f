\* a start that fails and one signal
CONSTANTS
    Workers = {}
    Signals = {"SIGINT"}
    CONNECT_TO_REDIS = TRUE
    People = {p1}
    UserObjects = {o1}
    UserPoolInit = {}
    Lookups = FALSE
    NoUser = nouser
    NoObject = noobject
SPECIFICATION Spec
INVARIANTS
    OneEndFindsTheService
