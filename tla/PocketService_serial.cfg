\* one request at a time, every kind of body, inserts that fail
CONSTANTS
    Users = {u1, u2}
    Workers = {w1}
    CategoryIds = {c1}
    CategoryObjects = {o1}
    CategoryPoolInit = {o1}
    Fields = {title, color}
    CategoryBodies <- MCAllCategoryBodies
    TransIds = {t1}
    TransObjects = {o1}
    TransPoolInit = {o1}
    TransBodies <- MCAllTransBodies
    Texts = {empty, a}
    Empty = empty
    Amounts = {zero, half}
    Zero = zero
    Reals = {half}
    PlaceIds = {p}
    NoPlace = noplace
    PlaceObjects = {o1}
    PlacePoolInit = {}
    PlaceBodies <- MCAllPlaceBodies
    Numbers <- MCNumbers
    NoSite = nosite
    Absent = absent
    NoBody = nobody
    Malformed = malformed
    DbOutcomes = {"ok", "failed"}
    CacheOutcomes = {"ok"}
    MayCrash = FALSE
    NoUser = nouser
    NoId = noid
    NoObject = noobject
    a = a
    half = half
SYMMETRY Symmetry
SPECIFICATION Spec
INVARIANTS
    CountersExact
PROPERTIES
    CategoryStillThere
    CategoryUpdatesKeepTheRest
    TransactionUpdatesKeepTheRest
    PlaceUpdatesKeepTheRest
