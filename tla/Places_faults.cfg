\* two threads, two users, every failure of MongoDB, crashes
CONSTANTS
    Users = {u1, u2}
    Workers = {w1, w2}
    Ids = {i1, i2}
    Objects = {o1, o2}
    PoolInit = {o1, o2}
    Texts = {empty, a}
    Empty = empty
    Numbers <- MCNumbers
    NoSite = nosite
    Absent = absent
    NoBody = nobody
    Malformed = malformed
    Bodies <- MCFewBodies
    DbOutcomes = {"ok", "failed", "lost"}
    CacheOutcomes = {"ok"}
    MayCrash = TRUE
    NoUser = nouser
    NoId = noid
    NoObject = noobject
    a = a
SYMMETRY Symmetry
SPECIFICATION Spec
INVARIANTS
    TypeOK
    PoolIsSound
    StatsNeverAhead
    SitesMatchTypes
PROPERTIES
    OnlyTextsChange
    StoresWhatWasSent
    ImplementsOwnedStore
