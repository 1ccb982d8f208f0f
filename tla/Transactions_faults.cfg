\* two threads, two users, every failure of MongoDB, crashes
CONSTANTS
    Users = {u1, u2}
    Workers = {w1, w2}
    Ids = {i1, i2}
    CategoryIds = {c1}
    Objects = {o1, o2}
    PoolInit = {o1}
    Titles = {empty, a}
    Empty = empty
    Amounts = {zero, five, half}
    Zero = zero
    Reals = {half}
    Places = {noplace, p}
    NoPlace = noplace
    Absent = absent
    NoBody = nobody
    Malformed = malformed
    Bodies <- MCFewBodies
    DbOutcomes = {"ok", "failed", "lost"}
    CacheOutcomes = {"ok"}
    MayCrash = TRUE
    NoUser = nouser
    NoId = noid
    NoObject = noobject
    a = a
    five = five
    half = half
    p = p
SYMMETRY Symmetry
SPECIFICATION Spec
INVARIANTS
    TypeOK
    PoolIsSound
    StatsNeverAhead
PROPERTIES
    InsertsUnderOwnCategory
    StoresNothingStale
    ImplementsOwnedStore
