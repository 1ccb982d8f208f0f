\* memory for one object of each kind: a pop may find nothing
CONSTANTS
    Users = {u1}
    Workers = {w1, w2}
    CategoryIds = {c1}
    CategoryObjects = {o1}
    CategoryPoolInit = {}
    Fields = {title}
    CategoryBodies <- MCCategoryBodies
    TransIds = {t1}
    TransObjects = {o1}
    TransPoolInit = {}
    TransBodies <- MCTransBodies
    Texts = {empty, a}
    Empty = empty
    Amounts = {zero, half}
    Zero = zero
    Reals = {half}
    PlaceIds = {}
    NoPlace = noplace
    PlaceObjects = {o1}
    PlacePoolInit = {}
    PlaceBodies <- MCPlaceBodies
    Numbers <- MCNumbers
    NoSite = nosite
    Absent = absent
    NoBody = nobody
    Malformed = malformed
    DbOutcomes = {"ok"}
    CacheOutcomes = {"failed"}
    MayCrash = FALSE
    NoUser = nouser
    NoId = noid
    NoObject = noobject
    a = a
    half = half
SPECIFICATION FairSpec
PROPERTIES
    ThreadsComeBack
