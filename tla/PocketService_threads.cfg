\* two threads, lost replies, crashes: is the environment of Transactions what the category requests do?
CONSTANTS
    Users = {u1, u2}
    Workers = {w1, w2}
    CategoryIds = {c1}
    CategoryObjects = {o1, o2}
    CategoryPoolInit = {o1}
    Fields = {title}
    CategoryBodies <- MCCategoryBodies
    TransIds = {t1}
    TransObjects = {o1, o2}
    TransPoolInit = {o1}
    TransBodies <- MCTransBodies
    Texts = {empty, a}
    Empty = empty
    Amounts = {zero, half}
    Zero = zero
    Reals = {half}
    PlaceIds = {}
    NoPlace = noplace
    PlaceObjects = {}
    PlacePoolInit = {}
    PlaceBodies = {}
    Numbers <- MCNumbers
    NoSite = nosite
    Absent = absent
    NoBody = nobody
    Malformed = malformed
    DbOutcomes = {"ok", "lost"}
    CacheOutcomes = {"ok"}
    MayCrash = TRUE
    NoUser = nouser
    NoId = noid
    NoObject = noobject
    a = a
    half = half
SYMMETRY Symmetry
SPECIFICATION Spec
PROPERTIES
    TransactionsAreServed
