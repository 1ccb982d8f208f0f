\* one request at a time, nothing fails: what does a malformed update answer?
CONSTANTS
    Users = {u1}
    Workers = {w1}
    Ids = {i1}
    Objects = {o1}
    PoolInit = {o1}
    Fields = {title}
    Texts = {empty, a}
    Empty = empty
    Absent = absent
    NoBody = nobody
    Malformed = malformed
    Bodies <- MCBodies
    DbOutcomes = {"ok"}
    CacheOutcomes = {"ok"}
    MayCrash = FALSE
    NoUser = nouser
    NoId = noid
    NoObject = noobject
SPECIFICATION Spec
PROPERTIES
    AcknowledgedUpdate
