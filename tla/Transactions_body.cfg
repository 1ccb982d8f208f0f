\* one request at a time: what does a create store of its body?
CONSTANTS
    Users = {u1, u2}
    Workers = {w1}
    Ids = {i1}
    CategoryIds = {c1, c2}
    Objects = {o1}
    PoolInit = {o1}
    Titles = {empty, a}
    Empty = empty
    Amounts = {zero, five, half}
    Zero = zero
    Reals = {half}
    Places = {noplace, p}
    NoPlace = noplace
    Absent = absent
    NoBody = nobody
    Malformed = malformed
    Bodies <- MCWholeBodies
    DbOutcomes = {"ok"}
    CacheOutcomes = {"ok"}
    MayCrash = FALSE
    NoUser = nouser
    NoId = noid
    NoObject = noobject
    a = a
    five = five
    half = half
    p = p
SPECIFICATION Spec
PROPERTIES
    CreateStoresItsBody
