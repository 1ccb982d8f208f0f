\* every failure of the start, two signals at any moment, two threads
CONSTANTS
    Workers = {w1, w2}
    Signals <- MCSignals
    CONNECT_TO_REDIS = TRUE
    People = {p1, p2}
    UserObjects = {o1, o2}
    UserPoolInit = {o1}
    Lookups = TRUE
    NoUser = nouser
    NoObject = noobject
SPECIFICATION FairSpec
INVARIANTS
    TypeOK
    ServedByLiveParts
    OneEndMisusesOnlyTheService
    NothingElseIsLeft
    UsersPoolIsSound
    ActsForItsToken
PROPERTIES
    EndsUnlessStuck
