\* two threads, two users, every failure of MongoDB and Redis, crashes
CONSTANTS
    Users = {u1, u2}
    Workers = {w1, w2}
    Ids = {i1, i2}
    Objects = {o1, o2}
    PoolInit = {o1}
    Fields = {title}
    Texts = {empty, a}
    Empty = empty
    Absent = absent
    NoBody = nobody
    Malformed = malformed
    Bodies <- MCBodies
    DbOutcomes = {"ok", "failed", "lost"}
    CacheOutcomes = {"ok", "failed"}
    MayCrash = TRUE
    NoUser = nouser
    NoId = noid
    NoObject = noobject
SYMMETRY Symmetry
SPECIFICATION Spec
INVARIANTS
    TypeOK
    PoolIsSound
    StatsNeverAhead
    ReadsAreOwn
    SuccessIsTrue
PROPERTIES
    Isolation
    NoResurrection
    StoresWhatWasSent
    ImplementsOwnedStore
