----------------------------- MODULE Places_proofs -----------------------------
(***************************************************************************)
(* Safety of the places controller for any number of users, threads, ids,  *)
(* objects, texts and types, and for every failure of the database, the    *)
(* cache and the process that Places allows.                               *)
(***************************************************************************)
EXTENDS Places, FiniteSetTheorems, TLAPS

\* what a create makes of its body in a wiped object, and what it stores
Made(body) == Filled(NoId, NoUser, body, Blank).data

Stored(body) ==
    IF Made(body).type = PLACE_TYPE_SITE THEN Made(body)
    ELSE [Made(body) EXCEPT !.site = NoSite]

-----------------------------------------------------------------------------
(***************************************************************************)
(* The inductive invariant: what a handler knows at each of its calls.     *)
(***************************************************************************)

Holding == {"insert", "increment", "find", "update", "return"}

\* what a worker is in the middle of
KnowsItsRequest(w) ==
    /\ job[w].pc = "idle" => job[w] = Idle
    /\ job[w].pc \in Holding => job[w].object \in allocated
    /\ job[w].pc \notin Holding => job[w].object = NoObject
    /\ job[w].pc \in {"insert", "increment"} => job[w].op = "create"
    /\ job[w].pc \in {"find", "update"} => job[w].op = "update"
    /\ job[w].pc \in {"delete", "get", "list"} => job[w].op = job[w].pc
    /\ job[w].pc \notin {"idle", "respond"} => job[w].user \in Users
    /\ job[w].pc \notin {"idle", "respond"} => job[w].found = {}
    /\ job[w].pc \in {"insert", "find", "update", "delete", "get", "list"} =>
          job[w].error = "NONE"

\* what is in the object a worker holds
KnowsItsObject(w) ==
    /\ job[w].pc = "insert" =>
          /\ job[w].body \in Contents
          /\ mem[job[w].object] = [oid |-> job[w].id, user |-> job[w].user,
                                   data |-> Made(job[w].body)]
    /\ job[w].pc = "find" =>
          /\ job[w].body # NoBody
          /\ mem[job[w].object].oid = job[w].id
    /\ job[w].pc = "update" =>
          /\ job[w].body \in Contents
          /\ mem[job[w].object].oid = job[w].id

\* what a worker knows of the collection, whatever the others do
KnowsItsDocument(w) ==
    /\ job[w].pc = "insert" =>
          /\ job[w].id \in issued
          /\ owner[job[w].id] = NoUser
          /\ \A x \in Workers \ {w} : job[x].pc = "insert" => job[x].id # job[w].id
    /\ job[w].pc = "update" => job[w].id \in Ids /\ owner[job[w].id] = job[w].user

Requests == \A w \in Workers : KnowsItsRequest(w)

ObjectContents == \A w \in Workers : KnowsItsObject(w)

FreeObjects ==
    /\ pool \subseteq allocated
    /\ \A o \in Objects \ allocated : mem[o] = Zeroed

Ownership ==
    /\ \A w \in Workers : KnowsItsDocument(w)
    /\ \A i \in Ids : /\ places[i].user \in {NoUser, owner[i]}
                      /\ places[i].user = NoUser => places[i] = Missing
                      /\ owner[i] # NoUser => i \in issued

ObjectsAreExclusive ==
    \A w \in Workers :
        /\ Held(w) \cap pool = {}
        /\ \A x \in Workers \ {w} : Held(w) \cap Held(x) = {}

FreeObjectsAreWiped == \A o \in pool : mem[o] = Zeroed

NothingLeaks == allocated = pool \cup UNION {Held(w) : w \in Workers}

PoolInv ==
    /\ TypeOK
    /\ Requests
    /\ FreeObjects
    /\ ObjectsAreExclusive
    /\ FreeObjectsAreWiped
    /\ NothingLeaks
    /\ ObjectContents

IInv == PoolInv /\ Ownership

-----------------------------------------------------------------------------
\* Copying the fields of a body over those of an object gives an object.
LEMMA MergedType ==
    ASSUME NEW data \in Data, NEW body \in Contents
    PROVE  Merged(data, body) \in Data
BY DEF Merged, Given, Contents, Data

LEMMA BlankType == Blank \in Data /\ Missing.data \in Data
BY PlacesAssumption DEF Blank, Missing, Data

LEMMA MadeType ==
    ASSUME NEW body \in Contents
    PROVE  /\ Made(body) \in Data /\ Made(body).site \in Texts
           /\ Stored(body) \in Data
<1> USE PlacesAssumption
<1>1. place_type_from_value_string(body.type) \in Numbers
  BY DEF place_type_from_value_string, Contents
<1>2. \A v \in Texts \cup {Absent} : Given(v, Empty) \in Texts
  BY DEF Given
<1>3. Made(body) \in Data /\ Made(body).site \in Texts
  BY <1>1, <1>2 DEF Made, Filled, Blank, Data, Contents
<1> QED BY <1>3 DEF Stored, Data

LEMMA UpdatedType ==
    ASSUME NEW doc \in Data, NEW data \in Data
    PROVE  /\ place_update_bson(doc, data) \in Data
           /\ place_update_bson(doc, data).type = doc.type
           /\ place_update_bson(doc, data).site = doc.site
           /\ place_update_bson(doc, data).color = doc.color
BY DEF place_update_bson, Data

LEMMA BsonType ==
    ASSUME NEW p \in [oid : Ids \cup {NoId}, user : Users \cup {NoUser}, data : Data]
    PROVE  place_to_bson(p) \in Documents
<1>1. p.user \in Users \cup {NoUser} /\ p.data \in Data
  OBVIOUS
<1>2. [p.data EXCEPT !.site = NoSite] \in Data
  BY <1>1 DEF Data
<1> QED BY <1>1, <1>2 DEF place_to_bson, Documents

LEMMA ParsedType ==
    ASSUME TypeOK, NEW i \in Ids, NEW old \in Data
    PROVE  place_doc_parse(i, old)
             \in [oid : Ids \cup {NoId}, user : Users \cup {NoUser}, data : Data]
<1>1. places[i].user \in Users \cup {NoUser} /\ places[i].data \in Data
  BY DEF TypeOK, Documents
<1> DEFINE doc == places[i].data
<1>2. [old EXCEPT !.name = doc.name, !.description = doc.description,
                  !.type = doc.type] \in Data
  BY <1>1 DEF Data
<1> QED BY <1>1, <1>2 DEF place_doc_parse

\* At the start nothing is free, held or issued that should not be.
THEOREM InitPoolInv == Init => PoolInv
<1> SUFFICES ASSUME Init PROVE PoolInv
  OBVIOUS
<1> USE PlacesAssumption DEF Init
<1>1. TypeOK
  BY BlankType DEF TypeOK, Documents, Missing, Zeroed, Idle, Jobs, PCs, Errors
<1>2. Requests
  BY DEF Requests, KnowsItsRequest, Idle, Holding
<1>3. ObjectContents
  BY DEF ObjectContents, KnowsItsObject, Idle
<1>4. /\ FreeObjects /\ ObjectsAreExclusive
      /\ FreeObjectsAreWiped /\ NothingLeaks
  BY DEF FreeObjects, ObjectsAreExclusive, FreeObjectsAreWiped, NothingLeaks,
     Held, Idle
<1> QED BY <1>1, <1>2, <1>3, <1>4 DEF PoolInv

-----------------------------------------------------------------------------
\* A worker goes on with its request: only its pc and its error change.
LEMMA Moved ==
    ASSUME job \in [Workers -> Jobs], NEW w \in Workers,
           NEW pc \in PCs, NEW error \in Errors, MoveTo(w, pc, error)
    PROVE  /\ job' \in [Workers -> Jobs]
           /\ \A x \in Workers \ {w} : job'[x] = job[x]
           /\ job'[w].pc = pc /\ job'[w].error = error
           /\ job'[w].op = job[w].op /\ job'[w].user = job[w].user
           /\ job'[w].id = job[w].id /\ job'[w].object = job[w].object
           /\ job'[w].body = job[w].body /\ job'[w].found = job[w].found
<1> DEFINE j == [job[w] EXCEPT !.pc = pc, !.error = error]
<1>1. j \in Jobs
  BY DEF Jobs
<1>2. job' = [job EXCEPT ![w] = j]
  BY DEF MoveTo
<1> QED BY <1>1, <1>2 DEF Jobs

\* A worker takes a request: nothing remains of the one before.
LEMMA Began ==
    ASSUME job \in [Workers -> Jobs], NEW w \in Workers, NEW j \in Jobs,
           job' = [job EXCEPT ![w] = j]
    PROVE  /\ job' \in [Workers -> Jobs]
           /\ \A x \in Workers \ {w} : job'[x] = job[x]
           /\ job'[w] = j
OBVIOUS

\* One request at a time takes, fills, or gives back an object, and the others
\* see nothing of it.
LEMMA OneRequestMoves ==
    ASSUME PoolInv, NEW w \in Workers, TypeOK',
           \A x \in Workers \ {w} : job'[x] = job[x],
           Held(w)' \subseteq Held(w) \cup pool \cup (Objects \ allocated),
           pool' = (pool \cup Held(w)) \ Held(w)',
           allocated' = allocated \cup Held(w)',
           \A o \in Objects \ (Held(w) \cup Held(w)') : mem'[o] = mem[o],
           \A o \in Held(w) \ Held(w)' : mem'[o] = Zeroed,
           KnowsItsRequest(w)', KnowsItsObject(w)'
    PROVE  PoolInv'
<1> USE DEF PoolInv
<1>1. Held(w) \subseteq allocated /\ Held(w) \subseteq Objects
  BY PlacesAssumption DEF Held, Requests, KnowsItsRequest
<1>2. \A x \in Workers \ {w} : /\ Held(x)' = Held(x)
                               /\ Held(x) \subseteq allocated
                               /\ Held(x) \cap pool = {}
                               /\ Held(x) \cap Held(w) = {}
  BY PlacesAssumption DEF Held, Requests, KnowsItsRequest, ObjectsAreExclusive
<1>3. Requests'
  BY DEF Requests, KnowsItsRequest
<1>4. FreeObjects'
  BY <1>1 DEF FreeObjects, TypeOK
<1>5. ObjectsAreExclusive'
  BY <1>1, <1>2 DEF ObjectsAreExclusive
<1>6. FreeObjectsAreWiped'
  BY <1>1 DEF FreeObjectsAreWiped, TypeOK
<1>7. NothingLeaks'
  <2>1. \A o : o \in allocated' <=> o \in pool' \/ \E x \in Workers : o \in Held(x)'
    BY <1>1, <1>2 DEF NothingLeaks, FreeObjects
  <2> QED BY <2>1 DEF NothingLeaks
<1>8. ObjectContents'
  <2> SUFFICES ASSUME NEW x \in Workers \ {w} PROVE KnowsItsObject(x)'
    BY DEF ObjectContents
  <2>1. CASE job[x].pc \in Holding
    <3>1. job[x].object \in Objects \ (Held(w) \cup Held(w)')
      BY <2>1, <1>2 DEF Held, Requests, KnowsItsRequest, TypeOK
    <3> QED BY <3>1 DEF ObjectContents, KnowsItsObject
  <2>2. CASE job[x].pc \notin Holding
    BY <2>2 DEF ObjectContents, KnowsItsObject, Holding
  <2> QED BY <2>1, <2>2
<1> QED BY <1>3, <1>4, <1>5, <1>6, <1>7, <1>8

\* A step that leaves pool and objects alone moves a request on if the worker
\* still holds what it held.
LEMMA OneRequestWaits ==
    ASSUME PoolInv, NEW w \in Workers, TypeOK',
           \A x \in Workers \ {w} : job'[x] = job[x],
           job'[w].object = job[w].object,
           UNCHANGED <<pool, allocated, mem>>,
           KnowsItsRequest(w)', KnowsItsObject(w)'
    PROVE  PoolInv'
<1>1. Held(w)' = Held(w) /\ Held(w) \cap pool = {} /\ Held(w) \subseteq allocated
  BY PlacesAssumption
  DEF PoolInv, Held, Requests, KnowsItsRequest, ObjectsAreExclusive
<1>2. pool' = (pool \cup Held(w)) \ Held(w)' /\ allocated' = allocated \cup Held(w)'
  BY <1>1
<1> QED BY <1>1, <1>2, OneRequestMoves

-----------------------------------------------------------------------------
(***************************************************************************)
(* Every action preserves PoolInv.                                         *)
(***************************************************************************)

LEMMA RefusePool ==
    ASSUME PoolInv, NEW w \in Workers, NEW u \in Users \cup {NoUser},
           NEW op \in {"create", "update", "delete", "get", "list"},
           NEW error \in Errors, At(w, "idle"), Refuse(w, u, op, error)
    PROVE  PoolInv'
<1> USE PlacesAssumption
<1> DEFINE j == [Idle EXCEPT !.pc = "respond", !.op = op, !.user = u, !.error = error]
<1>1. j \in Jobs
  BY DEF Idle, Jobs, PCs, Errors
<1>2. /\ job' \in [Workers -> Jobs] /\ job'[w] = j
      /\ \A x \in Workers \ {w} : job'[x] = job[x]
  BY <1>1, Began DEF PoolInv, TypeOK, Refuse
<1>3. UNCHANGED <<places, issued, owner, stats, pool, allocated, mem>>
  BY DEF Refuse
<1>4. TypeOK'
  BY <1>2, <1>3 DEF PoolInv, TypeOK
<1>5. KnowsItsRequest(w)' /\ KnowsItsObject(w)'
  BY <1>2 DEF KnowsItsRequest, KnowsItsObject, Holding, Idle
<1>6. job'[w].object = job[w].object
  BY <1>2 DEF PoolInv, Requests, KnowsItsRequest, At, Idle
<1> QED BY <1>2, <1>3, <1>4, <1>5, <1>6, OneRequestWaits

LEMMA TakePool ==
    ASSUME PoolInv, NEW w \in Workers, NEW u \in Users,
           NEW op \in {"delete", "get", "list"},
           NEW i \in Ids \cup {NoId}, Take(w, u, op, i)
    PROVE  PoolInv'
<1> USE PlacesAssumption
<1> DEFINE j == [Idle EXCEPT !.pc = op, !.op = op, !.user = u, !.id = i]
<1>1. j \in Jobs
  BY DEF Idle, Jobs, PCs, Errors
<1>2. /\ job' \in [Workers -> Jobs] /\ job'[w] = j
      /\ \A x \in Workers \ {w} : job'[x] = job[x]
  BY <1>1, Began DEF PoolInv, TypeOK, Take
<1>3. UNCHANGED <<places, issued, owner, stats, pool, allocated, mem>>
  BY DEF Take
<1>4. TypeOK'
  BY <1>2, <1>3 DEF PoolInv, TypeOK
<1>5. KnowsItsRequest(w)' /\ KnowsItsObject(w)'
  BY <1>2 DEF KnowsItsRequest, KnowsItsObject, Holding, Idle
<1>6. job'[w].object = job[w].object
  BY <1>2 DEF PoolInv, Requests, KnowsItsRequest, At, Idle, Take
<1> QED BY <1>2, <1>3, <1>4, <1>5, <1>6, OneRequestWaits

LEMMA RestartedPool ==
    ASSUME PoolInv, Restarted
    PROVE  PoolInv'
<1> USE PlacesAssumption DEF Restarted
<1>1. TypeOK'
  <2>1. Idle \in Jobs
    BY DEF Idle, Jobs, PCs, Errors
  <2> QED BY <2>1, BlankType DEF PoolInv, TypeOK, Zeroed
<1>2. Requests' /\ ObjectContents'
  BY DEF Requests, KnowsItsRequest, ObjectContents, KnowsItsObject, Holding, Idle
<1>3. /\ FreeObjects' /\ ObjectsAreExclusive'
      /\ FreeObjectsAreWiped' /\ NothingLeaks'
  BY DEF FreeObjects, ObjectsAreExclusive, FreeObjectsAreWiped, NothingLeaks,
     Held, Idle
<1> QED BY <1>1, <1>2, <1>3 DEF PoolInv

LEMMA CreatePool ==
    ASSUME PoolInv, NEW w \in Workers, NEW u \in Users, pocket_place_create(w, u)
    PROVE  PoolInv'
<1> USE PlacesAssumption
<1>1. PICK body \in Bodies :
        \/ Refuse(w, u, "create", "BAD_REQUEST")
        \/ /\ body \notin {NoBody, Malformed}
           /\ \E o \in pool_pop, i \in FreshOid :
                /\ Taken(o)
                /\ issued' = issued \cup {i}
                /\ mem' = [mem EXCEPT ![o] = Filled(i, u, body, @.data)]
                /\ job' = [job EXCEPT ![w] =
                      [Idle EXCEPT !.pc = "insert", !.op = "create", !.user = u,
                                   !.id = i, !.object = o, !.body = body]]
           /\ UNCHANGED <<places, owner, stats>>
  BY DEF pocket_place_create
<1>2. At(w, "idle") /\ Held(w) = {} /\ job[w] \in Jobs
  <2>1. At(w, "idle") /\ job[w] \in Jobs
    BY DEF pocket_place_create, PoolInv, TypeOK
  <2> QED BY <2>1 DEF PoolInv, Requests, KnowsItsRequest, At, Held, Idle
<1>3. CASE Refuse(w, u, "create", "BAD_REQUEST")
  BY <1>2, <1>3, RefusePool DEF Errors
<1>4. ASSUME body \notin {NoBody, Malformed}, NEW o \in pool_pop, NEW i \in FreshOid,
             Taken(o), issued' = issued \cup {i},
             mem' = [mem EXCEPT ![o] = Filled(i, u, body, @.data)],
             job' = [job EXCEPT ![w] =
                        [Idle EXCEPT !.pc = "insert", !.op = "create", !.user = u,
                                     !.id = i, !.object = o, !.body = body]],
             UNCHANGED <<places, owner, stats>>
      PROVE  PoolInv'
  <2> DEFINE j == [Idle EXCEPT !.pc = "insert", !.op = "create", !.user = u,
                               !.id = i, !.object = o, !.body = body]
  <2>1. /\ o \in Objects /\ i \in Ids /\ body \in Contents
        /\ o \in pool \/ o \notin allocated
    BY <1>4 DEF pool_pop, FreshOid, PoolInv, TypeOK, Contents
  <2>2. /\ job' \in [Workers -> Jobs] /\ job'[w] = j
        /\ \A x \in Workers \ {w} : job'[x] = job[x]
    <3>1. j \in Jobs
      BY <2>1 DEF Idle, Jobs, PCs, Errors
    <3> QED BY <1>4, <3>1, Began DEF PoolInv, TypeOK
  <2>3. mem[o].data = Blank
    BY <1>4 DEF pool_pop, PoolInv, FreeObjects, FreeObjectsAreWiped, Zeroed
  <2>4. Filled(i, u, body, mem[o].data) =
          [oid |-> i, user |-> u, data |-> Made(body)]
    BY <2>3 DEF Made, Filled
  <2>5. TypeOK'
    <3>1. mem' \in [Objects -> [oid : Ids \cup {NoId}, user : Users \cup {NoUser},
                                data : Data]]
      BY <1>4, <2>1, <2>4, MadeType DEF PoolInv, TypeOK
    <3> QED BY <1>4, <2>1, <2>2, <3>1 DEF PoolInv, TypeOK, Taken
  <2>6. Held(w)' = {o}
    BY <2>1, <2>2 DEF Held, Idle
  <2>7. KnowsItsRequest(w)' /\ KnowsItsObject(w)'
    <3>1. mem'[o] = [oid |-> i, user |-> u, data |-> Made(body)]
      BY <1>4, <2>1, <2>4 DEF PoolInv, TypeOK
    <3> QED BY <1>4, <2>1, <2>2, <3>1
        DEF KnowsItsRequest, KnowsItsObject, Holding, Idle, Taken
  <2> QED BY <1>2, <1>4, <2>1, <2>2, <2>5, <2>6, <2>7, OneRequestMoves
      DEF Taken, PoolInv, TypeOK
<1> QED BY <1>1, <1>3, <1>4

LEMMA InsertPool ==
    ASSUME PoolInv, NEW w \in Workers, place_insert_one(w)
    PROVE  PoolInv'
<1> USE PlacesAssumption
<1>1. job[w].object \in Objects /\ At(w, "insert")
  BY DEF place_insert_one, At, PoolInv, TypeOK, Requests, KnowsItsRequest, Holding
<1>2. PICK outcome \in DbOutcomes :
        /\ IF Applied(outcome)
           THEN /\ places' = [places EXCEPT ![mem[job[w].object].oid] =
                                     place_to_bson(mem[job[w].object])]
                /\ owner' = [owner EXCEPT ![mem[job[w].object].oid] =
                                mem[job[w].object].user]
           ELSE UNCHANGED <<places, owner>>
        /\ MoveTo(w, AfterInsert(outcome), ErrorOf(outcome, "SERVER_ERROR"))
  BY DEF place_insert_one
<1>3. UNCHANGED <<issued, stats, pool, allocated, mem>>
  BY DEF place_insert_one
<1>4. /\ AfterInsert(outcome) \in {"increment", "return"}
      /\ ErrorOf(outcome, "SERVER_ERROR") \in {"NONE", "SERVER_ERROR"}
  BY DEF AfterInsert, ErrorOf
<1>5. /\ job' \in [Workers -> Jobs]
      /\ \A x \in Workers \ {w} : job'[x] = job[x]
      /\ job'[w].pc \in {"increment", "return"}
      /\ job'[w].op = job[w].op /\ job'[w].user = job[w].user
      /\ job'[w].object = job[w].object /\ job'[w].found = job[w].found
  BY <1>2, <1>4, Moved DEF PoolInv, TypeOK, PCs, Errors
<1>6. TypeOK'
  <2>1. places' \in [Ids -> Documents]
    <3>1. mem[job[w].object] \in [oid : Ids \cup {NoId}, user : Users \cup {NoUser},
                                  data : Data]
      BY <1>1 DEF PoolInv, TypeOK
    <3>2. place_to_bson(mem[job[w].object]) \in Documents
      BY <3>1, BsonType
    <3> QED BY <1>2, <3>2 DEF PoolInv, TypeOK
  <2>2. owner' \in [Ids -> Users \cup {NoUser}]
    BY <1>1, <1>2 DEF PoolInv, TypeOK
  <2> QED BY <2>1, <2>2, <1>3, <1>5 DEF PoolInv, TypeOK
<1>7. KnowsItsRequest(w)' /\ KnowsItsObject(w)'
  BY <1>1, <1>3, <1>5
  DEF PoolInv, Requests, KnowsItsRequest, KnowsItsObject, Holding, At
<1> QED BY <1>3, <1>5, <1>6, <1>7, OneRequestWaits

LEMMA IncrementPool ==
    ASSUME PoolInv, NEW w \in Workers, pocket_cache_user_increment_places(w)
    PROVE  PoolInv'
<1> USE PlacesAssumption
<1>1. /\ At(w, "increment") /\ MoveTo(w, "return", job[w].error)
      /\ UNCHANGED <<places, issued, owner, pool, allocated, mem>>
      /\ stats' \in [Users -> Nat]
  BY DEF pocket_cache_user_increment_places, PoolInv, TypeOK
<1>2. job[w].error \in Errors
  BY DEF PoolInv, TypeOK, Jobs
<1>3. /\ job' \in [Workers -> Jobs]
      /\ \A x \in Workers \ {w} : job'[x] = job[x]
      /\ job'[w].pc = "return"
      /\ job'[w].op = job[w].op /\ job'[w].user = job[w].user
      /\ job'[w].object = job[w].object /\ job'[w].found = job[w].found
  BY <1>1, <1>2, Moved DEF PoolInv, TypeOK, PCs
<1>4. TypeOK'
  BY <1>1, <1>3 DEF PoolInv, TypeOK
<1>5. KnowsItsRequest(w)' /\ KnowsItsObject(w)'
  BY <1>1, <1>3
  DEF PoolInv, Requests, KnowsItsRequest, KnowsItsObject, Holding, At
<1> QED BY <1>1, <1>3, <1>4, <1>5, OneRequestWaits

LEMMA ReturnPool ==
    ASSUME PoolInv, NEW w \in Workers, pocket_place_return(w)
    PROVE  PoolInv'
<1> USE PlacesAssumption
<1> DEFINE j == [job[w] EXCEPT !.pc = "respond", !.object = NoObject, !.body = NoBody]
<1>1. job[w].object \in Objects /\ At(w, "return") /\ Held(w) = {job[w].object}
  BY DEF pocket_place_return, At, PoolInv, TypeOK, Requests, KnowsItsRequest,
     Holding, Held
<1>2. j \in Jobs
  <2>1. job[w] \in Jobs
    BY DEF PoolInv, TypeOK
  <2> QED BY <2>1 DEF Jobs, PCs
<1>3. /\ job' = [job EXCEPT ![w] = j]
      /\ mem' = [mem EXCEPT ![job[w].object] = Zeroed]
      /\ pool' = pool \cup {job[w].object}
      /\ UNCHANGED <<places, issued, owner, stats, allocated>>
  BY DEF pocket_place_return, Returned
<1>4. /\ job' \in [Workers -> Jobs] /\ job'[w] = j
      /\ \A x \in Workers \ {w} : job'[x] = job[x]
  BY <1>2, <1>3, Began DEF PoolInv, TypeOK
<1>5. TypeOK'
  BY <1>1, <1>3, <1>4, BlankType DEF PoolInv, TypeOK, Zeroed
<1>6. /\ job'[w].pc = "respond" /\ job'[w].object = NoObject
  BY <1>2, <1>4 DEF Jobs
<1>7. KnowsItsRequest(w)' /\ KnowsItsObject(w)'
  BY <1>6 DEF KnowsItsRequest, KnowsItsObject, Holding
<1>8. Held(w)' = {}
  BY <1>6 DEF Held
<1>9. mem'[job[w].object] = Zeroed
  BY <1>1, <1>3 DEF PoolInv, TypeOK
<1> QED BY <1>1, <1>3, <1>4, <1>5, <1>7, <1>8, <1>9, OneRequestMoves DEF PoolInv, TypeOK

LEMMA UpdatePool ==
    ASSUME PoolInv, NEW w \in Workers, NEW u \in Users, pocket_place_update(w, u)
    PROVE  PoolInv'
<1> USE PlacesAssumption
<1>1. PICK body \in Bodies, i \in Known \cup {NoId} :
        \/ \E error \in Errors : Refuse(w, u, "update", error)
        \/ /\ body # NoBody
           /\ \E o \in pool_pop :
                /\ Taken(o)
                /\ mem' = [mem EXCEPT ![o].oid = i]
                /\ job' = [job EXCEPT ![w] =
                      [Idle EXCEPT !.pc = "find", !.op = "update", !.user = u,
                                   !.id = i, !.object = o, !.body = body]]
           /\ UNCHANGED <<places, issued, owner, stats>>
  BY DEF pocket_place_update, Errors
<1>2. At(w, "idle") /\ Held(w) = {}
  <2>1. At(w, "idle")
    BY DEF pocket_place_update
  <2> QED BY <2>1 DEF PoolInv, Requests, KnowsItsRequest, At, Held, Idle
<1>3. CASE \E error \in Errors : Refuse(w, u, "update", error)
  BY <1>2, <1>3, RefusePool
<1>4. ASSUME body # NoBody, NEW o \in pool_pop, Taken(o),
             mem' = [mem EXCEPT ![o].oid = i],
             job' = [job EXCEPT ![w] =
                        [Idle EXCEPT !.pc = "find", !.op = "update", !.user = u,
                                     !.id = i, !.object = o, !.body = body]],
             UNCHANGED <<places, issued, owner, stats>>
      PROVE  PoolInv'
  <2> DEFINE j == [Idle EXCEPT !.pc = "find", !.op = "update", !.user = u,
                               !.id = i, !.object = o, !.body = body]
  <2>1. o \in Objects /\ i \in Ids \cup {NoId} /\ (o \in pool \/ o \notin allocated)
    BY <1>4 DEF pool_pop, Known, PoolInv, TypeOK
  <2>2. /\ job' \in [Workers -> Jobs] /\ job'[w] = j
        /\ \A x \in Workers \ {w} : job'[x] = job[x]
    <3>1. j \in Jobs
      BY <2>1 DEF Idle, Jobs, PCs, Errors
    <3> QED BY <1>4, <3>1, Began DEF PoolInv, TypeOK
  <2>3. TypeOK'
    <3>1. mem' \in [Objects -> [oid : Ids \cup {NoId}, user : Users \cup {NoUser},
                                data : Data]]
      BY <1>4, <2>1 DEF PoolInv, TypeOK
    <3>2. pool' \subseteq Objects /\ allocated' \subseteq Objects
      BY <1>4, <2>1 DEF PoolInv, TypeOK, Taken
    <3> QED BY <1>4, <2>2, <3>1, <3>2 DEF PoolInv, TypeOK
  <2>4. Held(w)' = {o}
    BY <2>1, <2>2 DEF Held, Idle
  <2>5. KnowsItsRequest(w)' /\ KnowsItsObject(w)'
    <3>1. mem'[o].oid = i
      BY <1>4, <2>1 DEF PoolInv, TypeOK
    <3> QED BY <1>4, <2>1, <2>2, <3>1
        DEF KnowsItsRequest, KnowsItsObject, Holding, Idle, Taken
  <2> QED BY <1>2, <1>4, <2>1, <2>2, <2>3, <2>4, <2>5, OneRequestMoves
      DEF Taken, PoolInv, TypeOK
<1> QED BY <1>1, <1>3, <1>4

LEMMA FindPool ==
    ASSUME PoolInv, NEW w \in Workers, place_get_by_oid_and_user(w)
    PROVE  PoolInv'
<1> USE PlacesAssumption
<1> DEFINE o == job[w].object
<1>1. /\ At(w, "find") /\ o \in Objects /\ o \in allocated
      /\ job[w].body \in Bodies \ {NoBody}
  <2>1. At(w, "find") /\ job[w] \in Jobs
    BY DEF place_get_by_oid_and_user, PoolInv, TypeOK
  <2> QED BY <2>1
      DEF At, PoolInv, Requests, KnowsItsRequest, ObjectContents, KnowsItsObject,
          Holding, Jobs, TypeOK
<1>2. UNCHANGED <<places, issued, owner, stats, pool, allocated>>
  BY DEF place_get_by_oid_and_user
<1>3. Held(w) = {o} /\ o \notin pool
  BY <1>1 DEF Held, PoolInv, ObjectsAreExclusive
<1>4. PICK c \in {mem[o]} \cup {place_doc_parse(i, mem[o].data) : i \in Ids} :
        \/ /\ mem' = [mem EXCEPT ![o] = c]
           /\ \E error \in Errors : MoveTo(w, "return", error)
        \/ /\ job[w].body # Malformed
           /\ \E i \in Ids : c = place_doc_parse(i, mem[o].data) /\ i = mem[o].oid
           /\ mem' = [mem EXCEPT ![o] = [c EXCEPT !.data = Merged(@, job[w].body)]]
           /\ MoveTo(w, "update", "NONE")
  <2>1. CASE NotFound(w) /\ UNCHANGED mem
    <3>1. mem' = [mem EXCEPT ![o] = mem[o]]
      BY <2>1 DEF PoolInv, TypeOK
    <3> QED BY <2>1, <3>1 DEF NotFound, Errors
  <2>2. ASSUME NEW i \in Ids, i = mem[o].oid,
               mem' = [mem EXCEPT ![o] = place_doc_parse(i, mem[o].data)],
               MoveTo(w, "return", "NONE")
        PROVE  \E error \in Errors : MoveTo(w, "return", error)
    BY <2>2 DEF Errors
  <2> QED BY <2>1, <2>2
      DEF place_get_by_oid_and_user, place_query_by_oid_and_user
<1>5. c \in [oid : Ids \cup {NoId}, user : Users \cup {NoUser},
             data : Data]
  <2>1. mem[o] \in [oid : Ids \cup {NoId}, user : Users \cup {NoUser}, data : Data]
    BY <1>1 DEF PoolInv, TypeOK
  <2>2. \A i \in Ids : place_doc_parse(i, mem[o].data)
          \in [oid : Ids \cup {NoId}, user : Users \cup {NoUser}, data : Data]
    BY <2>1, ParsedType DEF PoolInv
  <2> QED BY <1>4, <2>1, <2>2
<1>6. CASE \E error \in Errors : /\ mem' = [mem EXCEPT ![o] = c]
                                 /\ MoveTo(w, "return", error)
  <2>1. /\ job' \in [Workers -> Jobs]
        /\ \A x \in Workers \ {w} : job'[x] = job[x]
        /\ job'[w].pc = "return" /\ job'[w].object = o
        /\ job'[w].user = job[w].user /\ job'[w].found = job[w].found
    BY <1>6, Moved DEF PoolInv, TypeOK, PCs
  <2>2. TypeOK'
    BY <1>1, <1>2, <1>5, <1>6, <2>1 DEF PoolInv, TypeOK
  <2>3. KnowsItsRequest(w)' /\ KnowsItsObject(w)'
    BY <1>1, <1>2, <2>1
    DEF PoolInv, Requests, KnowsItsRequest, KnowsItsObject, Holding, At
  <2>4. Held(w)' = {o}
    BY <1>1, <2>1 DEF Held
  <2>5. \A x \in Objects \ {o} : mem'[x] = mem[x]
    BY <1>6 DEF PoolInv, TypeOK
  <2> QED BY <1>1, <1>2, <1>3, <2>1, <2>2, <2>3, <2>4, <2>5, OneRequestMoves
<1>7. CASE /\ job[w].body # Malformed
           /\ \E i \in Ids : c = place_doc_parse(i, mem[o].data) /\ i = mem[o].oid
           /\ mem' = [mem EXCEPT ![o] = [c EXCEPT !.data = Merged(@, job[w].body)]]
           /\ MoveTo(w, "update", "NONE")
  <2>1. /\ job' \in [Workers -> Jobs]
        /\ \A x \in Workers \ {w} : job'[x] = job[x]
        /\ job'[w].pc = "update" /\ job'[w].object = o
        /\ job'[w].error = "NONE" /\ job'[w].op = job[w].op
        /\ job'[w].id = job[w].id /\ job'[w].body = job[w].body
        /\ job'[w].user = job[w].user /\ job'[w].found = job[w].found
    BY <1>7, Moved DEF PoolInv, TypeOK, PCs, Errors
  <2>2. job[w].body \in Contents
    BY <1>1, <1>7 DEF Contents
  <2>3. TypeOK'
    <3>1. [c EXCEPT !.data = Merged(@, job[w].body)]
            \in [oid : Ids \cup {NoId}, user : Users \cup {NoUser},
                 data : Data]
      BY <1>5, <2>2, MergedType
    <3> QED BY <1>1, <1>2, <1>7, <2>1, <3>1 DEF PoolInv, TypeOK
  <2>4. mem'[o].oid = job[w].id
    <3>1. mem[o].oid = job[w].id
      BY <1>1 DEF At, PoolInv, ObjectContents, KnowsItsObject
    <3>2. c.oid = mem[o].oid
      <4>1. \A i, old : place_doc_parse(i, old).oid = i
        BY DEF place_doc_parse
      <4> QED BY <1>7, <4>1
    <3>3. mem'[o] = [c EXCEPT !.data = Merged(@, job[w].body)]
      BY <1>1, <1>7 DEF PoolInv, TypeOK
    <3> QED BY <1>5, <3>1, <3>2, <3>3
  <2>5. KnowsItsRequest(w)' /\ KnowsItsObject(w)'
    BY <1>1, <1>2, <2>1, <2>2, <2>4
    DEF PoolInv, Requests, KnowsItsRequest, KnowsItsObject, Holding, At
  <2>6. Held(w)' = {o}
    BY <1>1, <2>1 DEF Held
  <2>7. \A x \in Objects \ {o} : mem'[x] = mem[x]
    BY <1>7 DEF PoolInv, TypeOK
  <2> QED BY <1>1, <1>2, <1>3, <2>1, <2>3, <2>5, <2>6, <2>7, OneRequestMoves
<1> QED BY <1>4, <1>6, <1>7

LEMMA UpdateOnePool ==
    ASSUME PoolInv, NEW w \in Workers, place_update_one(w)
    PROVE  PoolInv'
<1> USE PlacesAssumption
<1>1. At(w, "update") /\ job[w].object \in Objects
  BY DEF place_update_one, At, PoolInv, TypeOK, Requests, KnowsItsRequest, Holding
<1>2. /\ UNCHANGED <<issued, owner, stats, pool, allocated, mem>>
      /\ \E error \in Errors : MoveTo(w, "return", error)
  BY DEF place_update_one, ErrorOf, Errors
<1>3. /\ job' \in [Workers -> Jobs]
      /\ \A x \in Workers \ {w} : job'[x] = job[x]
      /\ job'[w].pc = "return" /\ job'[w].object = job[w].object
      /\ job'[w].user = job[w].user /\ job'[w].found = job[w].found
  BY <1>2, Moved DEF PoolInv, TypeOK, PCs
<1>4. TypeOK'
  <2>1. places' \in [Ids -> Documents]
    <3> DEFINE c == mem[job[w].object]
    <3>1. \A i \in Ids : /\ places[i] \in Documents
                         /\ [places[i] EXCEPT !.data = place_update_bson(@, c.data)]
                              \in Documents
      BY <1>1, UpdatedType DEF PoolInv, TypeOK, Documents
    <3>2. \E S \in SUBSET Ids : places' =
            [i \in Ids |-> IF i \in S THEN [places[i] EXCEPT !.data = place_update_bson(@, c.data)]
                                     ELSE places[i]]
      <4>1. PICK outcome \in Outcomes(place_query_oid(c.oid)) : places' =
              [i \in Ids |->
                  IF i \in place_query_oid(c.oid) /\ Applied(outcome)
                  THEN [places[i] EXCEPT !.data = place_update_bson(@, c.data)] ELSE places[i]]
        BY DEF place_update_one
      <4> DEFINE S == {i \in place_query_oid(c.oid) : Applied(outcome)}
      <4>2. S \in SUBSET Ids
        BY DEF place_query_oid
      <4>3. places' =
              [i \in Ids |-> IF i \in S THEN [places[i] EXCEPT !.data = place_update_bson(@, c.data)]
                                       ELSE places[i]]
        BY <4>1
      <4> QED BY <4>2, <4>3
    <3> QED BY <3>1, <3>2
  <2> QED BY <1>2, <1>3, <2>1 DEF PoolInv, TypeOK
<1>5. KnowsItsRequest(w)' /\ KnowsItsObject(w)'
  BY <1>1, <1>2, <1>3
  DEF PoolInv, Requests, KnowsItsRequest, KnowsItsObject, Holding, At
<1> QED BY <1>2, <1>3, <1>4, <1>5, OneRequestWaits

\* DELETE and GET go from their query straight to the answer
LEMMA QueriedPool ==
    ASSUME PoolInv, NEW w \in Workers, job[w].pc \in {"delete", "get", "list"},
           places' \in [Ids -> Documents],
           UNCHANGED <<issued, owner, stats, pool, allocated, mem>>,
           job' \in [Workers -> Jobs],
           \A x \in Workers \ {w} : job'[x] = job[x],
           job'[w].pc = "respond", job'[w].object = job[w].object
    PROVE  PoolInv'
<1>1. TypeOK'
  BY DEF PoolInv, TypeOK
<1>2. KnowsItsRequest(w)' /\ KnowsItsObject(w)'
  BY DEF PoolInv, Requests, KnowsItsRequest, KnowsItsObject, Holding
<1> QED BY <1>1, <1>2, OneRequestWaits

LEMMA DeleteOnePool ==
    ASSUME PoolInv, NEW w \in Workers, place_delete_one_by_oid_and_user(w)
    PROVE  PoolInv'
<1>1. /\ At(w, "delete") /\ UNCHANGED <<issued, owner, stats, pool, allocated, mem>>
      /\ \E error \in Errors : MoveTo(w, "respond", error)
  BY DEF place_delete_one_by_oid_and_user, ErrorOf, Errors
<1>2. /\ job' \in [Workers -> Jobs]
      /\ \A x \in Workers \ {w} : job'[x] = job[x]
      /\ job'[w].pc = "respond" /\ job'[w].object = job[w].object
  BY <1>1, Moved DEF PoolInv, TypeOK, PCs
<1>3. places' \in [Ids -> Documents]
  BY BlankType DEF place_delete_one_by_oid_and_user, PoolInv, TypeOK, Documents,
     Missing
<1> QED BY <1>1, <1>2, <1>3, QueriedPool DEF At

LEMMA ReadPool ==
    ASSUME PoolInv, NEW w \in Workers, job[w].pc \in {"get", "list"},
           NEW match \in SUBSET Ids,
           Read(w, match) \/ \E error \in Errors : ReadNothing(w, match, error)
    PROVE  PoolInv'
<1> DEFINE j == [job[w] EXCEPT !.pc = "respond", !.found = match]
<1>1. UNCHANGED <<places, issued, owner, stats, pool, allocated, mem>>
  BY DEF Read, ReadNothing
<1>2. job[w] \in Jobs /\ places' \in [Ids -> Documents]
  BY <1>1 DEF PoolInv, TypeOK
<1>3. j \in Jobs /\ j.pc = "respond" /\ j.object = job[w].object
  BY <1>2 DEF Jobs, PCs
<1>4. CASE Read(w, match)
  <2>1. job' = [job EXCEPT ![w] = j]
    BY <1>4 DEF Read
  <2>2. /\ job' \in [Workers -> Jobs] /\ job'[w] = j
        /\ \A x \in Workers \ {w} : job'[x] = job[x]
    BY <1>3, <2>1, Began DEF PoolInv, TypeOK
  <2> QED BY <1>1, <1>2, <1>3, <2>2, QueriedPool
<1>5. CASE \E error \in Errors : ReadNothing(w, match, error)
  <2>1. /\ job' \in [Workers -> Jobs]
        /\ \A x \in Workers \ {w} : job'[x] = job[x]
        /\ job'[w].pc = "respond" /\ job'[w].object = job[w].object
    BY <1>5, Moved DEF ReadNothing, PoolInv, TypeOK, PCs
  <2> QED BY <1>1, <1>2, <2>1, QueriedPool
<1> QED BY <1>4, <1>5

LEMMA RespondPool ==
    ASSUME PoolInv, NEW w \in Workers, pocket_error_send_response(w)
    PROVE  PoolInv'
<1> USE PlacesAssumption
<1>1. /\ UNCHANGED <<places, issued, owner, stats, pool, allocated, mem>>
      /\ At(w, "respond") /\ job' = [job EXCEPT ![w] = Idle]
  BY DEF pocket_error_send_response
<1>2. /\ job' \in [Workers -> Jobs] /\ job'[w] = Idle
      /\ \A x \in Workers \ {w} : job'[x] = job[x]
  <2>1. Idle \in Jobs
    BY DEF Idle, Jobs, PCs, Errors
  <2> QED BY <1>1, <2>1, Began DEF PoolInv, TypeOK
<1>3. TypeOK'
  BY <1>1, <1>2 DEF PoolInv, TypeOK
<1>4. job'[w].object = job[w].object
  BY <1>1, <1>2 DEF PoolInv, Requests, KnowsItsRequest, Holding, At, Idle
<1>5. KnowsItsRequest(w)' /\ KnowsItsObject(w)'
  BY <1>2 DEF KnowsItsRequest, KnowsItsObject, Holding, Idle
<1> QED BY <1>1, <1>2, <1>3, <1>4, <1>5, OneRequestWaits

-----------------------------------------------------------------------------
LEMMA NextPoolInv ==
    ASSUME PoolInv, Next
    PROVE  PoolInv'
<1>1. CASE Crash
  BY <1>1, RestartedPool DEF Crash
<1>2. ASSUME NEW w \in Workers, Request(w)
      PROVE  PoolInv'
  <2>1. CASE BadUser(w)
    BY <2>1, RefusePool DEF BadUser, Errors
  <2>2. ASSUME NEW u \in Users, pocket_place_create(w, u)
        PROVE  PoolInv'
    BY <2>2, CreatePool
  <2>3. ASSUME NEW u \in Users, pocket_place_update(w, u)
        PROVE  PoolInv'
    BY <2>3, UpdatePool
  <2>4. ASSUME NEW u \in Users, NEW op \in {"delete", "get", "list"},
               NEW i \in Ids \cup {NoId}, Take(w, u, op, i)
        PROVE  PoolInv'
    BY <2>4, TakePool
  <2> QED BY <1>2, <2>1, <2>2, <2>3, <2>4
      DEF Request, pocket_place_delete, pocket_place_get_handler,
          pocket_places_handler, Known
<1>3. ASSUME NEW w \in Workers, Continue(w)
      PROVE  PoolInv'
  <2>1. CASE place_insert_one(w)
    BY <2>1, InsertPool
  <2>2. CASE pocket_cache_user_increment_places(w)
    BY <2>2, IncrementPool
  <2>3. CASE pocket_place_return(w)
    BY <2>3, ReturnPool
  <2>4. CASE place_get_by_oid_and_user(w)
    BY <2>4, FindPool
  <2>5. CASE place_update_one(w)
    BY <2>5, UpdateOnePool
  <2>6. CASE place_delete_one_by_oid_and_user(w)
    BY <2>6, DeleteOnePool
  <2>7. CASE place_get_by_oid_and_user_to_json(w)
    <3>1. place_query_by_oid_and_user(job[w].id, job[w].user) \in SUBSET Ids
      BY DEF place_query_by_oid_and_user
    <3> QED BY <2>7, <3>1, ReadPool DEF place_get_by_oid_and_user_to_json, Errors, At
  <2>8. CASE places_get_all_by_user_to_json(w)
    <3>1. place_query_by_user(job[w].user) \in SUBSET Ids
      BY DEF place_query_by_user
    <3> QED BY <2>8, <3>1, ReadPool DEF places_get_all_by_user_to_json, Errors, At
  <2>9. CASE pocket_error_send_response(w)
    BY <2>9, RespondPool
  <2> QED BY <1>3, <2>1, <2>2, <2>3, <2>4, <2>5, <2>6, <2>7, <2>8, <2>9 DEF Continue
<1> QED BY <1>1, <1>2, <1>3 DEF Next

LEMMA StepPoolInv ==
    ASSUME PoolInv, [Next]_vars
    PROVE  PoolInv'
<1>1. CASE Next
  BY <1>1, NextPoolInv
<1>2. CASE UNCHANGED vars
  BY <1>2
  DEF vars, PoolInv, TypeOK, Requests, KnowsItsRequest, FreeObjects,
      ObjectsAreExclusive, FreeObjectsAreWiped, NothingLeaks, Held,
      ObjectContents, KnowsItsObject
<1> QED BY <1>1, <1>2

\* The pool of Place objects and the memory of the requests are sound in
\* every reachable state.
THEOREM PoolInvariant == Spec => []PoolInv
BY InitPoolInv, StepPoolInv, PTL DEF Spec

\* Every variable of the controller keeps its type.
THEOREM TypeCorrect == Spec => []TypeOK
<1>1. PoolInv => TypeOK
  BY DEF PoolInv
<1> QED BY <1>1, PoolInvariant, PTL

\* However threads interleave in places_pool, no two requests work on one
\* Place object, a free one carries nothing of the request that used it, and
\* no path through a handler loses one.
THEOREM PoolHolds == Spec => []PoolIsSound
<1>1. PoolInv => PoolIsSound
  BY DEF PoolInv, PoolIsSound, ObjectsAreExclusive, FreeObjectsAreWiped, NothingLeaks
<1> QED BY <1>1, PoolInvariant, PTL

-----------------------------------------------------------------------------
(***************************************************************************)
(* What the three writes do to the collection.                             *)
(***************************************************************************)

LEMMA InsertEffect ==
    ASSUME IInv, NEW w \in Workers, place_insert_one(w)
    PROVE  /\ job[w].pc = "insert" /\ job[w].id \in Ids /\ job[w].user \in Users
           /\ owner[job[w].id] = NoUser
           /\ \A x \in Workers \ {w} : job'[x] = job[x]
           /\ job'[w].pc \in {"increment", "return"}
           /\ issued' = issued
           /\ \/ UNCHANGED <<places, owner>>
              \/ /\ places' = [places EXCEPT ![job[w].id] =
                        [user |-> job[w].user, data |-> Stored(job[w].body)]]
                 /\ owner' = [owner EXCEPT ![job[w].id] = job[w].user]
<1> USE DEF IInv, PoolInv
<1>1. /\ At(w, "insert") /\ issued' = issued /\ job \in [Workers -> Jobs]
      /\ job[w].user \in Users
  BY DEF place_insert_one, TypeOK, Requests, KnowsItsRequest, At
<1>2. /\ job[w].id \in Ids /\ owner[job[w].id] = NoUser
      /\ mem[job[w].object] = [oid |-> job[w].id, user |-> job[w].user,
                               data |-> Made(job[w].body)]
  BY <1>1 DEF At, Ownership, KnowsItsDocument, ObjectContents, KnowsItsObject, TypeOK
<1>3. \E outcome \in DbOutcomes :
         MoveTo(w, AfterInsert(outcome), ErrorOf(outcome, "SERVER_ERROR"))
  BY DEF place_insert_one
<1>4. /\ \A x \in Workers \ {w} : job'[x] = job[x]
      /\ job'[w].pc \in {"increment", "return"}
  BY <1>1, <1>3, Moved DEF AfterInsert, ErrorOf, PCs, Errors
<1>5. \/ UNCHANGED <<places, owner>>
      \/ /\ places' = [places EXCEPT ![job[w].id] =
               [user |-> job[w].user, data |-> Stored(job[w].body)]]
         /\ owner' = [owner EXCEPT ![job[w].id] = job[w].user]
  BY <1>2 DEF place_insert_one, place_to_bson, Stored
<1> QED BY <1>1, <1>2, <1>4, <1>5 DEF At

LEMMA UpdateEffect ==
    ASSUME IInv, NEW w \in Workers, place_update_one(w)
    PROVE  /\ job[w].pc = "update" /\ job[w].id \in Ids /\ job[w].user \in Users
           /\ owner[job[w].id] = job[w].user
           /\ \A x \in Workers \ {w} : job'[x] = job[x]
           /\ job'[w].pc = "return"
           /\ UNCHANGED <<issued, owner>>
           /\ \/ UNCHANGED places
              \/ /\ places[job[w].id].user = job[w].user
                 /\ places' = [places EXCEPT ![job[w].id].data =
                        place_update_bson(@, mem[job[w].object].data)]
<1> USE DEF IInv, PoolInv
<1>1. /\ At(w, "update") /\ UNCHANGED <<issued, owner>> /\ job \in [Workers -> Jobs]
      /\ places \in [Ids -> Documents]
      /\ job[w].user \in Users
  BY DEF place_update_one, TypeOK, Requests, KnowsItsRequest, At
<1>2. /\ job[w].id \in Ids /\ owner[job[w].id] = job[w].user
      /\ mem[job[w].object].oid = job[w].id
  BY <1>1 DEF At, Ownership, KnowsItsDocument, ObjectContents, KnowsItsObject
<1>3. PICK outcome \in Outcomes(place_query_oid(job[w].id)) :
        /\ places' = [i \in Ids |->
              IF i \in place_query_oid(job[w].id) /\ Applied(outcome)
              THEN [places[i] EXCEPT !.data =
                        place_update_bson(@, mem[job[w].object].data)]
              ELSE places[i]]
        /\ MoveTo(w, "return", ErrorOf(outcome, "SERVER_ERROR"))
  BY <1>2 DEF place_update_one
<1>4. \A x \in Workers \ {w} : job'[x] = job[x]
  BY <1>1, <1>3, Moved DEF ErrorOf, PCs, Errors
<1>5. job'[w].pc = "return"
  BY <1>1, <1>3, Moved DEF ErrorOf, PCs, Errors
<1>6. CASE job[w].id \in place_query_oid(job[w].id) /\ Applied(outcome)
  <2>1. places[job[w].id].user = job[w].user
    BY <1>2, <1>6 DEF place_query_oid, Ownership
  <2>2. places' = [places EXCEPT ![job[w].id].data =
                      place_update_bson(@, mem[job[w].object].data)]
    BY <1>1, <1>2, <1>3, <1>6 DEF place_query_oid
  <2> QED BY <1>1, <1>2, <1>4, <1>5, <2>1, <2>2 DEF At
<1>7. CASE ~ (job[w].id \in place_query_oid(job[w].id) /\ Applied(outcome))
  <2>1. places' = places
    BY <1>1, <1>3, <1>7 DEF place_query_oid
  <2> QED BY <1>1, <1>2, <1>4, <1>5, <2>1 DEF At
<1> QED BY <1>6, <1>7

LEMMA WrittenType ==
    ASSUME IInv, NEW w \in Workers, place_update_one(w)
    PROVE  mem[job[w].object].data \in Data
<1>1. At(w, "update") /\ job[w].object \in Objects
  BY DEF place_update_one, At, IInv, PoolInv, TypeOK, Requests, KnowsItsRequest, Holding
<1> QED BY <1>1 DEF IInv, PoolInv, TypeOK

\* An update leaves every document to its user and writes at most one.
LEMMA UpdatedDocument ==
    ASSUME IInv, NEW w \in Workers, place_update_one(w), NEW i \in Ids
    PROVE  /\ places'[i].user = places[i].user
           /\ \/ places'[i] = places[i]
              \/ /\ places[i].user \in Users
                 /\ places'[i].data =
                       place_update_bson(places[i].data, mem[job[w].object].data)
<1>1. places \in [Ids -> Documents]
  BY DEF IInv, PoolInv, TypeOK
<1>2. CASE UNCHANGED places
  BY <1>2
<1>3. CASE ~ UNCHANGED places
  <2>1. /\ places[job[w].id].user = job[w].user
        /\ job[w].user \in Users /\ job[w].id \in Ids
        /\ places' = [places EXCEPT ![job[w].id].data =
                          place_update_bson(@, mem[job[w].object].data)]
    BY <1>3, UpdateEffect
  <2>2. CASE i # job[w].id
    BY <1>1, <2>1, <2>2
  <2>3. CASE i = job[w].id
    <3>1. places'[i] = [places[i] EXCEPT !.data =
                           place_update_bson(@, mem[job[w].object].data)]
      BY <1>1, <2>1, <2>3
    <3>2. places[i] \in Documents
      BY <1>1
    <3> QED BY <2>1, <2>3, <3>1, <3>2 DEF Documents
  <2> QED BY <2>2, <2>3
<1> QED BY <1>2, <1>3

LEMMA DeleteEffect ==
    ASSUME IInv, NEW w \in Workers, place_delete_one_by_oid_and_user(w)
    PROVE  /\ job[w].pc = "delete" /\ job[w].user \in Users
           /\ \A x \in Workers \ {w} : job'[x] = job[x]
           /\ job'[w].pc = "respond"
           /\ UNCHANGED <<issued, owner>>
           /\ \/ UNCHANGED places
              \/ /\ job[w].id \in Ids
                 /\ places[job[w].id].user = job[w].user
                 /\ places' = [places EXCEPT ![job[w].id] = Missing]
<1> USE DEF IInv, PoolInv
<1>1. /\ At(w, "delete") /\ UNCHANGED <<issued, owner>> /\ job \in [Workers -> Jobs]
      /\ places \in [Ids -> Documents]
      /\ job[w].user \in Users
  BY DEF place_delete_one_by_oid_and_user, TypeOK, Requests, KnowsItsRequest, At
<1> DEFINE match == place_query_by_oid_and_user(job[w].id, job[w].user)
<1>2. PICK outcome \in Outcomes(match) :
        /\ places' = [i \in Ids |->
              IF i \in match /\ Applied(outcome) THEN Missing ELSE places[i]]
        /\ MoveTo(w, "respond", ErrorOf(outcome, "BAD_REQUEST"))
  BY DEF place_delete_one_by_oid_and_user
<1>3. /\ \A x \in Workers \ {w} : job'[x] = job[x]
      /\ job'[w].pc = "respond"
  BY <1>1, <1>2, Moved DEF ErrorOf, PCs, Errors
<1>4. CASE job[w].id \in match /\ Applied(outcome)
  <2>1. job[w].id \in Ids /\ places[job[w].id].user = job[w].user
    BY <1>4 DEF place_query_by_oid_and_user
  <2>2. places' = [places EXCEPT ![job[w].id] = Missing]
    BY <1>1, <1>2, <1>4 DEF place_query_by_oid_and_user
  <2> QED BY <1>1, <1>3, <2>1, <2>2 DEF At
<1>5. CASE ~ (job[w].id \in match /\ Applied(outcome))
  <2>1. places' = places
    BY <1>1, <1>2, <1>5 DEF place_query_by_oid_and_user
  <2> QED BY <1>1, <1>3, <2>1 DEF At
<1> QED BY <1>4, <1>5

-----------------------------------------------------------------------------
(***************************************************************************)
(* Who owns a document: what a worker knows of it outlives the steps of    *)
(* the others.                                                             *)
(***************************************************************************)

\* A step that leaves the collection alone.
LEMMA OwnershipWaits ==
    ASSUME IInv, NEW w \in Workers,
           \A x \in Workers \ {w} : job'[x] = job[x],
           UNCHANGED <<places, owner>>, issued \subseteq issued',
           KnowsItsDocument(w)'
    PROVE  Ownership'
BY DEF IInv, Ownership, KnowsItsDocument

\* A step after which the worker is not about to write.
LEMMA OwnershipLeft ==
    ASSUME IInv, NEW w \in Workers,
           \A x \in Workers \ {w} : job'[x] = job[x],
           UNCHANGED <<places, owner, issued>>,
           job'[w].pc \notin {"insert", "update"}
    PROVE  Ownership'
BY OwnershipWaits DEF KnowsItsDocument

LEMMA RefuseOwnership ==
    ASSUME IInv, NEW w \in Workers, NEW u, NEW op, NEW error, Refuse(w, u, op, error)
    PROVE  Ownership'
<1>1. /\ \A x \in Workers \ {w} : job'[x] = job[x]
      /\ job'[w].pc = "respond"
  BY DEF Refuse, IInv, PoolInv, TypeOK, Idle
<1> QED BY <1>1, OwnershipLeft DEF Refuse

LEMMA CreateOwnership ==
    ASSUME IInv, NEW w \in Workers, NEW u \in Users, pocket_place_create(w, u)
    PROVE  Ownership'
<1>1. PICK body \in Bodies :
        \/ Refuse(w, u, "create", "BAD_REQUEST")
        \/ \E o \in pool_pop, i \in FreshOid :
              /\ issued' = issued \cup {i}
              /\ job' = [job EXCEPT ![w] =
                    [Idle EXCEPT !.pc = "insert", !.op = "create", !.user = u,
                                 !.id = i, !.object = o, !.body = body]]
              /\ UNCHANGED <<places, owner, stats>>
  BY DEF pocket_place_create
<1>2. ASSUME NEW o \in pool_pop, NEW i \in FreshOid,
             issued' = issued \cup {i},
             job' = [job EXCEPT ![w] =
                    [Idle EXCEPT !.pc = "insert", !.op = "create", !.user = u,
                                 !.id = i, !.object = o, !.body = body]],
             UNCHANGED <<places, owner, stats>>
      PROVE  Ownership'
  <2>1. i \in Ids /\ i \notin issued /\ owner[i] = NoUser
    BY DEF FreshOid, IInv, Ownership
  <2>2. /\ \A x \in Workers \ {w} : job'[x] = job[x]
        /\ job'[w].pc = "insert" /\ job'[w].id = i
    BY <1>2 DEF IInv, PoolInv, TypeOK, Idle
  <2>3. \A x \in Workers \ {w} : job[x].pc = "insert" => job[x].id \in issued
    BY DEF IInv, Ownership, KnowsItsDocument
  <2>4. KnowsItsDocument(w)'
    BY <1>2, <2>1, <2>2, <2>3 DEF KnowsItsDocument
  <2> QED BY <1>2, <2>2, <2>4, OwnershipWaits
<1> QED BY <1>1, <1>2, RefuseOwnership

LEMMA UpdateOwnership ==
    ASSUME IInv, NEW w \in Workers, NEW u \in Users, pocket_place_update(w, u)
    PROVE  Ownership'
<1>1. \/ \E error \in Errors : Refuse(w, u, "update", error)
      \/ /\ \E body \in Bodies, i \in Known \cup {NoId}, o \in pool_pop :
              job' = [job EXCEPT ![w] =
                  [Idle EXCEPT !.pc = "find", !.op = "update", !.user = u,
                               !.id = i, !.object = o, !.body = body]]
         /\ UNCHANGED <<places, issued, owner, stats>>
  BY DEF pocket_place_update, Errors
<1>2. CASE \E error \in Errors : Refuse(w, u, "update", error)
  BY <1>2, RefuseOwnership
<1>3. ASSUME NEW body \in Bodies, NEW i \in Known \cup {NoId}, NEW o \in pool_pop,
             job' = [job EXCEPT ![w] =
                  [Idle EXCEPT !.pc = "find", !.op = "update", !.user = u,
                               !.id = i, !.object = o, !.body = body]],
             UNCHANGED <<places, issued, owner, stats>>
      PROVE  Ownership'
  <2>1. /\ \A x \in Workers \ {w} : job'[x] = job[x]
        /\ job'[w].pc = "find"
    BY <1>3 DEF IInv, PoolInv, TypeOK, Idle
  <2> QED BY <1>3, <2>1, OwnershipLeft
<1> QED BY <1>1, <1>2, <1>3

LEMMA FindOwnership ==
    ASSUME IInv, NEW w \in Workers, place_get_by_oid_and_user(w)
    PROVE  Ownership'
<1> USE PlacesAssumption
<1> DEFINE match == place_query_by_oid_and_user(mem[job[w].object].oid, job[w].user)
<1>1. /\ job \in [Workers -> Jobs] /\ At(w, "find") /\ job[w].user \in Users
      /\ mem[job[w].object].oid = job[w].id
  BY DEF place_get_by_oid_and_user, IInv, PoolInv, TypeOK, Requests,
     KnowsItsRequest, ObjectContents, KnowsItsObject, At
<1>2. UNCHANGED <<places, owner, issued>>
  BY DEF place_get_by_oid_and_user
<1>3. \/ \E error \in Errors : MoveTo(w, "return", error)
      \/ MoveTo(w, "update", "NONE") /\ match # {}
  BY DEF place_get_by_oid_and_user, NotFound, Errors
<1>4. CASE \E error \in Errors : MoveTo(w, "return", error)
  <2>1. /\ \A x \in Workers \ {w} : job'[x] = job[x]
        /\ job'[w].pc = "return"
    BY <1>1, <1>4, Moved DEF PCs
  <2> QED BY <1>2, <2>1, OwnershipLeft
<1>5. CASE MoveTo(w, "update", "NONE") /\ match # {}
  <2>1. /\ \A x \in Workers \ {w} : job'[x] = job[x]
        /\ job'[w].pc = "update"
        /\ job'[w].id = job[w].id /\ job'[w].user = job[w].user
    BY <1>1, <1>5, Moved DEF PCs, Errors
  <2>2. job[w].id \in Ids /\ places[job[w].id].user = job[w].user
    BY <1>1, <1>5 DEF place_query_by_oid_and_user
  <2>3. owner[job[w].id] = job[w].user
    BY <1>1, <2>2 DEF IInv, Ownership
  <2>4. KnowsItsDocument(w)'
    BY <1>2, <2>1, <2>2, <2>3 DEF KnowsItsDocument
  <2> QED BY <1>2, <2>1, <2>4, OwnershipWaits
<1> QED BY <1>3, <1>4, <1>5

LEMMA InsertOwnership ==
    ASSUME IInv, NEW w \in Workers, place_insert_one(w)
    PROVE  Ownership'
<1> USE PlacesAssumption
<1> DEFINE d == [user |-> job[w].user, data |-> Stored(job[w].body)]
<1>1. /\ job[w].pc = "insert" /\ job[w].id \in Ids /\ job[w].user \in Users
      /\ owner[job[w].id] = NoUser
      /\ \A x \in Workers \ {w} : job'[x] = job[x]
      /\ job'[w].pc \in {"increment", "return"}
      /\ issued' = issued
      /\ \/ UNCHANGED <<places, owner>>
         \/ /\ places' = [places EXCEPT ![job[w].id] = d]
            /\ owner' = [owner EXCEPT ![job[w].id] = job[w].user]
  BY InsertEffect
<1>2. CASE UNCHANGED <<places, owner>>
  BY <1>1, <1>2, OwnershipLeft
<1>3. CASE /\ places' = [places EXCEPT ![job[w].id] = d]
           /\ owner' = [owner EXCEPT ![job[w].id] = job[w].user]
  <2>1. job[w].id \in issued
    BY <1>1 DEF IInv, Ownership, KnowsItsDocument
  <2>2. ASSUME NEW i \in Ids
        PROVE  /\ places'[i].user \in {NoUser, owner'[i]}
               /\ places'[i].user = NoUser => places'[i] = Missing
               /\ owner'[i] # NoUser => i \in issued'
    <3>1. CASE i = job[w].id
      BY <1>1, <1>3, <2>1, <3>1 DEF IInv, PoolInv, TypeOK
    <3>2. CASE i # job[w].id
      BY <1>1, <1>3, <3>2 DEF IInv, PoolInv, TypeOK, Ownership
    <3> QED BY <3>1, <3>2
  <2>3. ASSUME NEW x \in Workers
        PROVE  KnowsItsDocument(x)'
    <3>1. CASE x = w
      BY <1>1, <3>1 DEF KnowsItsDocument
    <3>2. CASE x # w /\ job[x].pc = "insert"
      <4>1. job[x].id # job[w].id /\ job[x].id \in Ids
        BY <1>1, <3>2 DEF IInv, PoolInv, TypeOK, Ownership, KnowsItsDocument
      <4> QED BY <1>1, <1>3, <3>2, <4>1
          DEF IInv, PoolInv, TypeOK, Ownership, KnowsItsDocument
    <3>3. CASE x # w /\ job[x].pc = "update"
      <4>1. job[x].id # job[w].id /\ job[x].id \in Ids
        BY <1>1, <3>3
        DEF IInv, PoolInv, Requests, KnowsItsRequest, Ownership, KnowsItsDocument
      <4> QED BY <1>1, <1>3, <3>3, <4>1
          DEF IInv, PoolInv, TypeOK, Ownership, KnowsItsDocument
    <3>4. CASE x # w /\ job[x].pc \notin {"insert", "update"}
      BY <1>1, <3>4 DEF KnowsItsDocument
    <3> QED BY <3>1, <3>2, <3>3, <3>4
  <2> QED BY <2>2, <2>3 DEF Ownership
<1> QED BY <1>1, <1>2, <1>3

LEMMA UpdateOneOwnership ==
    ASSUME IInv, NEW w \in Workers, place_update_one(w)
    PROVE  Ownership'
<1>1. /\ \A x \in Workers \ {w} : job'[x] = job[x]
      /\ job'[w].pc = "return"
      /\ UNCHANGED <<issued, owner>>
  BY UpdateEffect
<1>2. \A i \in Ids : /\ places'[i].user = places[i].user
                     /\ places[i].user = NoUser => places'[i] = places[i]
  BY UpdatedDocument, PlacesAssumption
<1> QED BY <1>1, <1>2 DEF IInv, Ownership, KnowsItsDocument

LEMMA DeleteOneOwnership ==
    ASSUME IInv, NEW w \in Workers, place_delete_one_by_oid_and_user(w)
    PROVE  Ownership'
<1>1. /\ \A x \in Workers \ {w} : job'[x] = job[x]
      /\ job'[w].pc = "respond"
      /\ UNCHANGED <<issued, owner>>
      /\ \/ UNCHANGED places
         \/ places' = [places EXCEPT ![job[w].id] = Missing]
  BY DeleteEffect
<1>2. \A i \in Ids : places'[i] \in {places[i], Missing}
  BY <1>1 DEF IInv, PoolInv, TypeOK
<1> QED BY <1>1, <1>2 DEF IInv, Ownership, KnowsItsDocument, Missing

\* Everything else that a worker goes on with.
LEMMA OtherOwnership ==
    ASSUME IInv, NEW w \in Workers,
           \/ pocket_cache_user_increment_places(w)
           \/ pocket_place_return(w)
           \/ place_get_by_oid_and_user_to_json(w)
           \/ places_get_all_by_user_to_json(w)
           \/ pocket_error_send_response(w)
    PROVE  Ownership' /\ UNCHANGED <<places, owner>>
<1>1. UNCHANGED <<places, owner, issued>>
  BY DEF pocket_cache_user_increment_places, pocket_place_return, Read,
     place_get_by_oid_and_user_to_json, places_get_all_by_user_to_json,
     ReadNothing, pocket_error_send_response
<1>2. \E j : /\ j.pc \notin {"insert", "update"}
             /\ job' = [job EXCEPT ![w] = j]
  <2>1. CASE pocket_place_return(w)
    <3> DEFINE j == [job[w] EXCEPT !.pc = "respond", !.object = NoObject,
                                   !.body = NoBody]
    <3>1. j.pc = "respond" /\ job' = [job EXCEPT ![w] = j]
      BY <2>1 DEF pocket_place_return, IInv, PoolInv, TypeOK, Jobs
    <3> QED BY <3>1
  <2>2. CASE pocket_error_send_response(w)
    BY <2>2 DEF pocket_error_send_response, Idle
  <2>3. ASSUME NEW match, job' = [job EXCEPT ![w].pc = "respond", ![w].found = match]
        PROVE  \E j : /\ j.pc \notin {"insert", "update"}
                      /\ job' = [job EXCEPT ![w] = j]
    <3> DEFINE j == [job[w] EXCEPT !.pc = "respond", !.found = match]
    <3>1. j.pc = "respond" /\ job' = [job EXCEPT ![w] = j]
      BY <2>3 DEF IInv, PoolInv, TypeOK, Jobs
    <3> QED BY <3>1
  <2>4. ASSUME NEW pc \in {"return", "respond"}, NEW error, MoveTo(w, pc, error)
        PROVE  \E j : /\ j.pc \notin {"insert", "update"}
                      /\ job' = [job EXCEPT ![w] = j]
    <3> DEFINE j == [job[w] EXCEPT !.pc = pc, !.error = error]
    <3>1. j.pc = pc /\ job' = [job EXCEPT ![w] = j]
      BY <2>4 DEF MoveTo, IInv, PoolInv, TypeOK, Jobs
    <3> QED BY <3>1
  <2> QED BY <2>1, <2>2, <2>3, <2>4
      DEF pocket_cache_user_increment_places, Read, ReadNothing,
          place_get_by_oid_and_user_to_json, places_get_all_by_user_to_json
<1>3. /\ \A x \in Workers \ {w} : job'[x] = job[x]
      /\ job'[w].pc \notin {"insert", "update"}
  BY <1>2 DEF IInv, PoolInv, TypeOK
<1> QED BY <1>1, <1>3, OwnershipLeft

LEMMA RequestOwnership ==
    ASSUME IInv, NEW w \in Workers, Request(w)
    PROVE  Ownership' /\ UNCHANGED <<places, owner>>
<1>1. CASE BadUser(w)
  BY <1>1, RefuseOwnership DEF BadUser, Refuse
<1>2. ASSUME NEW u \in Users, pocket_place_create(w, u)
      PROVE  Ownership' /\ UNCHANGED <<places, owner>>
  BY <1>2, CreateOwnership DEF pocket_place_create, Refuse
<1>3. ASSUME NEW u \in Users, pocket_place_update(w, u)
      PROVE  Ownership' /\ UNCHANGED <<places, owner>>
  BY <1>3, UpdateOwnership DEF pocket_place_update, Refuse
<1>4. ASSUME NEW u \in Users, NEW op \in {"delete", "get", "list"}, NEW i,
             Take(w, u, op, i)
      PROVE  Ownership' /\ UNCHANGED <<places, owner>>
  <2>1. UNCHANGED <<places, owner, issued>>
    BY <1>4 DEF Take
  <2>2. /\ \A x \in Workers \ {w} : job'[x] = job[x]
        /\ job'[w].pc = op
    BY <1>4 DEF Take, IInv, PoolInv, TypeOK, Idle
  <2> QED BY <2>1, <2>2, OwnershipLeft
<1> QED BY <1>1, <1>2, <1>3, <1>4
    DEF Request, pocket_place_delete, pocket_place_get_handler,
        pocket_places_handler

-----------------------------------------------------------------------------
\* The inductive invariant holds at the start.
THEOREM InitIInv == Init => IInv
<1>1. Init => Ownership
  BY DEF Init, Ownership, KnowsItsDocument, Idle, Missing
<1> QED BY <1>1, InitPoolInv DEF IInv

LEMMA RestartedOwnership ==
    ASSUME IInv, Restarted
    PROVE  Ownership' /\ UNCHANGED <<places, owner>>
BY DEF Restarted, IInv, Ownership, KnowsItsDocument, Idle

LEMMA NextOwnership ==
    ASSUME IInv, Next
    PROVE  Ownership'
<1>1. CASE Crash
  BY <1>1, RestartedOwnership DEF Crash
<1>2. ASSUME NEW w \in Workers, Request(w)
      PROVE  Ownership'
  BY <1>2, RequestOwnership
<1>3. ASSUME NEW w \in Workers, Continue(w)
      PROVE  Ownership'
  BY <1>3, InsertOwnership, FindOwnership, UpdateOneOwnership, DeleteOneOwnership,
     OtherOwnership DEF Continue
<1> QED BY <1>1, <1>2, <1>3 DEF Next

LEMMA StepIInv ==
    ASSUME IInv, [Next]_vars
    PROVE  IInv'
<1>1. PoolInv'
  BY StepPoolInv DEF IInv
<1>2. CASE Next
  BY <1>1, <1>2, NextOwnership DEF IInv
<1>3. CASE UNCHANGED vars
  <2>1. /\ places' = places /\ owner' = owner
        /\ issued' = issued /\ job' = job
    BY <1>3 DEF vars
  <2>2. Ownership'
    BY <2>1 DEF IInv, Ownership, KnowsItsDocument
  <2> QED BY <1>1, <2>2 DEF IInv
<1> QED BY <1>2, <1>3

\* The inductive invariant of the controller.
THEOREM Invariant == Spec => []IInv
BY InitIInv, StepIInv, PTL DEF Spec

\* Which steps touch the collection, and how.
LEMMA OnlyWritesWrite ==
    ASSUME IInv, [Next]_vars
    PROVE  \/ UNCHANGED <<places, owner>>
           \/ \E w \in Workers : \/ place_insert_one(w)
                                 \/ place_update_one(w)
                                 \/ place_delete_one_by_oid_and_user(w)
<1>1. CASE Crash
  BY <1>1, RestartedOwnership DEF Crash
<1>2. ASSUME NEW w \in Workers, Request(w)
      PROVE  UNCHANGED <<places, owner>>
  BY <1>2, RequestOwnership
<1>3. ASSUME NEW w \in Workers, Continue(w)
      PROVE  \/ UNCHANGED <<places, owner>>
             \/ place_insert_one(w)
             \/ place_update_one(w)
             \/ place_delete_one_by_oid_and_user(w)
  BY <1>3, OtherOwnership DEF Continue, place_get_by_oid_and_user
<1>4. CASE UNCHANGED vars
  BY <1>4 DEF vars
<1> QED BY <1>1, <1>2, <1>3, <1>4 DEF Next

-----------------------------------------------------------------------------
(***************************************************************************)
(* What is stored.                                                         *)
(***************************************************************************)

\* A create stores what its body said over a blank place, whatever the object
\* it popped had been used for.
THEOREM StoresWhatWasSentHolds == Spec => StoresWhatWasSent
<1>1. ASSUME IInv, [Next]_vars
      PROVE  StoresWhatWasSentStep
  <2> SUFFICES ASSUME NEW w \in Workers, owner' # owner, job'[w] # job[w]
               PROVE  LET data == places'[job[w].id].data
                          body == job[w].body IN
                      /\ data.name = Given(body.name, Empty)
                      /\ data.description = Given(body.description, Empty)
                      /\ data.color = Given(body.color, Empty)
                      /\ data.site \in {NoSite, Given(body.site, Empty)}
    BY DEF StoresWhatWasSentStep
  <2>1. PICK x \in Workers : place_insert_one(x)
    BY <1>1, OnlyWritesWrite DEF place_update_one, place_delete_one_by_oid_and_user
  <2>2. x = w
    BY <1>1, <2>1, InsertEffect
  <2>3. /\ job[w].id \in Ids /\ places \in [Ids -> Documents]
        /\ places' = [places EXCEPT ![job[w].id] =
                        [user |-> job[w].user, data |-> Stored(job[w].body)]]
        /\ job[w].body \in Contents
    BY <1>1, <2>1, <2>2, InsertEffect
       DEF IInv, PoolInv, TypeOK, ObjectContents, KnowsItsObject
  <2>4. places'[job[w].id].data = Stored(job[w].body)
    BY <2>3
  <2>5. /\ Stored(job[w].body).name = Made(job[w].body).name
        /\ Stored(job[w].body).description = Made(job[w].body).description
        /\ Stored(job[w].body).color = Made(job[w].body).color
        /\ Stored(job[w].body).site = NoSite
           \/ /\ Made(job[w].body).type = PLACE_TYPE_SITE
              /\ Stored(job[w].body).site = Made(job[w].body).site
    BY <2>3, MadeType DEF Stored, Data
  <2> QED BY <2>4, <2>5 DEF Made, Filled, Blank
<1> QED BY <1>1, Invariant, PTL DEF Spec, StoresWhatWasSent

\* What a place is is decided when it is created: an update that read nothing
\* of the site and of the color writes neither.
THEOREM OnlyTextsChangeHolds == Spec => OnlyTextsChange
<1>1. ASSUME IInv, [Next]_vars
      PROVE  OnlyTextsChangeStep
  <2> SUFFICES ASSUME NEW i \in Ids, places[i].user # NoUser, places'[i].user # NoUser
               PROVE  /\ places'[i].data.type = places[i].data.type
                      /\ places'[i].data.site = places[i].data.site
                      /\ places'[i].data.color = places[i].data.color
    BY DEF OnlyTextsChangeStep
  <2>1. ASSUME NEW w \in Workers, place_insert_one(w)
        PROVE  places'[i] = places[i]
    <3>1. job[w].id # i
      BY <1>1, <2>1, InsertEffect DEF IInv, Ownership
    <3>2. \/ UNCHANGED places
          \/ places' = [places EXCEPT ![job[w].id] =
                  [user |-> job[w].user, data |-> Stored(job[w].body)]]
      BY <1>1, <2>1, InsertEffect
    <3> QED BY <1>1, <3>1, <3>2 DEF IInv, PoolInv, TypeOK
  <2>2. ASSUME NEW w \in Workers, place_update_one(w)
        PROVE  \E data \in Data : \/ places'[i] = places[i]
                                 \/ places'[i].data = place_update_bson(places[i].data, data)
    BY <1>1, <2>2, UpdatedDocument, WrittenType
  <2>3. ASSUME NEW w \in Workers, place_delete_one_by_oid_and_user(w)
        PROVE  places'[i] = places[i]
    BY <1>1, <2>3, DeleteEffect DEF IInv, PoolInv, TypeOK, Missing
  <2>4. places[i].data \in Data
    BY <1>1 DEF IInv, PoolInv, TypeOK, Documents
  <2> QED BY <1>1, <2>1, <2>2, <2>3, <2>4, OnlyWritesWrite, UpdatedType
<1> QED BY <1>1, Invariant, PTL DEF Spec, OnlyTextsChange

\* A stored document has a site exactly when its type is a site's, for every
\* number that atoi () can make of the type of a body.
THEOREM SitesMatchTypesHolds == Spec => []SitesMatchTypes
<1> USE PlacesAssumption
<1>1. Init => SitesMatchTypes
  BY DEF Init, SitesMatchTypes, Missing, Blank, PLACE_TYPE_NONE, PLACE_TYPE_SITE
<1>2. ASSUME IInv, SitesMatchTypes, [Next]_vars
      PROVE  SitesMatchTypes'
  <2> SUFFICES ASSUME NEW i \in Ids
               PROVE  places'[i].data.site # NoSite <=>
                         places'[i].data.type = PLACE_TYPE_SITE
    BY DEF SitesMatchTypes
  <2>1. ASSUME NEW w \in Workers, place_insert_one(w)
        PROVE  places'[i] = places[i] \/ \E body \in Contents :
                  places'[i].data = Stored(body)
    <3>1. job[w].body \in Contents
      BY <1>2, <2>1 DEF place_insert_one, At, IInv, PoolInv, ObjectContents,
         KnowsItsObject
    <3>2. /\ job[w].id \in Ids /\ places \in [Ids -> Documents]
          /\ \/ UNCHANGED places
             \/ places' = [places EXCEPT ![job[w].id] =
                     [user |-> job[w].user, data |-> Stored(job[w].body)]]
      BY <1>2, <2>1, InsertEffect DEF IInv, PoolInv, TypeOK
    <3>3. places'[i] = places[i] \/ places'[i].data = Stored(job[w].body)
      BY <3>2
    <3> QED BY <3>1, <3>3
  <2>2. ASSUME NEW w \in Workers, place_update_one(w)
        PROVE  \E data \in Data : \/ places'[i] = places[i]
                                 \/ places'[i].data = place_update_bson(places[i].data, data)
    BY <1>2, <2>2, UpdatedDocument, WrittenType
  <2>3. ASSUME NEW w \in Workers, place_delete_one_by_oid_and_user(w)
        PROVE  places'[i] \in {places[i], Missing}
    BY <1>2, <2>3, DeleteEffect DEF IInv, PoolInv, TypeOK
  <2>4. /\ Missing.data.site = NoSite /\ Missing.data.type # PLACE_TYPE_SITE
        /\ \A body \in Contents :
              Stored(body).site # NoSite <=> Stored(body).type = PLACE_TYPE_SITE
    <3>1. Missing.data.site = NoSite /\ Missing.data.type # PLACE_TYPE_SITE
      BY DEF Missing, Blank, PLACE_TYPE_NONE, PLACE_TYPE_SITE
    <3>2. ASSUME NEW body \in Contents
          PROVE  Stored(body).site # NoSite <=> Stored(body).type = PLACE_TYPE_SITE
      <4>1. Made(body) \in Data /\ Made(body).site \in Texts
        BY MadeType
      <4>2. CASE Made(body).type = PLACE_TYPE_SITE
        BY <4>1, <4>2 DEF Stored
      <4>3. CASE Made(body).type # PLACE_TYPE_SITE
        <5>1. Stored(body) = [Made(body) EXCEPT !.site = NoSite]
          BY <4>3 DEF Stored
        <5>2. Stored(body).site = NoSite /\ Stored(body).type = Made(body).type
          BY <4>1, <5>1 DEF Data
        <5> QED BY <4>3, <5>2
      <4> QED BY <4>2, <4>3
    <3> QED BY <3>1, <3>2
  <2>5. places[i].data \in Data
    BY <1>2 DEF IInv, PoolInv, TypeOK, Documents
  <2>6. \A data \in Data :
           /\ place_update_bson(places[i].data, data).site = places[i].data.site
           /\ place_update_bson(places[i].data, data).type = places[i].data.type
    BY <2>5, UpdatedType
  <2> QED BY <1>2, <2>1, <2>2, <2>3, <2>4, <2>6, OnlyWritesWrite DEF SitesMatchTypes
<1> QED BY <1>1, <1>2, Invariant, PTL DEF Spec

-----------------------------------------------------------------------------
(***************************************************************************)
(* The counter.                                                            *)
(***************************************************************************)

LEMMA OwnersStay ==
    ASSUME IInv, [Next]_vars, NEW i \in Ids, owner[i] # NoUser
    PROVE  owner'[i] = owner[i]
<1>1. ASSUME NEW w \in Workers, place_insert_one(w)
      PROVE  owner'[i] = owner[i]
  BY <1>1, InsertEffect DEF IInv, PoolInv, TypeOK
<1> QED BY <1>1, OnlyWritesWrite
        DEF place_update_one, place_delete_one_by_oid_and_user

\* a request that was just taken or refused: nothing shown, nothing to count and
\* nothing to write back
Asks(j) == j.found = {} /\ j.pc \notin {"increment", "update"}

LEMMA RequestShowsNothing ==
    ASSUME NEW w \in Workers, Request(w)
    PROVE  \E j : Asks(j) /\ job' = [job EXCEPT ![w] = j]
<1>1. ASSUME NEW u, NEW op, NEW error, Refuse(w, u, op, error)
      PROVE  \E j : Asks(j) /\ job' = [job EXCEPT ![w] = j]
  <2> DEFINE j == [Idle EXCEPT !.pc = "respond", !.op = op, !.user = u, !.error = error]
  <2>1. Asks(j) /\ job' = [job EXCEPT ![w] = j]
    BY <1>1 DEF Refuse, Idle, Asks
  <2> QED BY <2>1
<1>2. ASSUME NEW u, NEW op \in {"delete", "get", "list"},
             NEW i, Take(w, u, op, i)
      PROVE  \E j : Asks(j) /\ job' = [job EXCEPT ![w] = j]
  <2> DEFINE j == [Idle EXCEPT !.pc = op, !.op = op, !.user = u, !.id = i]
  <2>1. Asks(j) /\ job' = [job EXCEPT ![w] = j]
    BY <1>2 DEF Take, Idle, Asks
  <2> QED BY <2>1
<1>3. ASSUME NEW pc, NEW op, NEW u, NEW i, NEW o, NEW body,
             pc # "increment", pc # "update",
             job' = [job EXCEPT ![w] =
                [Idle EXCEPT !.pc = pc, !.op = op, !.user = u, !.id = i,
                             !.object = o, !.body = body]]
      PROVE  \E j : Asks(j) /\ job' = [job EXCEPT ![w] = j]
  <2> DEFINE j == [Idle EXCEPT !.pc = pc, !.op = op, !.user = u, !.id = i,
                               !.object = o, !.body = body]
  <2>1. Asks(j) /\ job' = [job EXCEPT ![w] = j]
    BY <1>3 DEF Idle, Asks
  <2> QED BY <2>1
<1>4. ASSUME NEW u \in Users, pocket_place_create(w, u)
      PROVE  \E j : Asks(j) /\ job' = [job EXCEPT ![w] = j]
  <2>1. PICK body \in Bodies, i \in Ids \cup {NoId} :
        \/ Refuse(w, u, "create", "BAD_REQUEST")
        \/ \E o \in pool_pop : job' = [job EXCEPT ![w] =
                          [Idle EXCEPT !.pc = "insert", !.op = "create", !.user = u,
                                       !.id = i, !.object = o, !.body = body]]
    BY <1>4 DEF pocket_place_create, FreshOid
  <2>2. ASSUME NEW o, job' = [job EXCEPT ![w] =
                      [Idle EXCEPT !.pc = "insert", !.op = "create", !.user = u,
                                   !.id = i, !.object = o, !.body = body]]
        PROVE  \E j : Asks(j) /\ job' = [job EXCEPT ![w] = j]
    BY <1>3, <2>2
  <2> QED BY <1>1, <2>1, <2>2
<1>5. ASSUME NEW u \in Users, pocket_place_update(w, u)
      PROVE  \E j : Asks(j) /\ job' = [job EXCEPT ![w] = j]
  <2>1. PICK body \in Bodies, i \in Ids \cup {NoId} :
        \/ Refuse(w, u, "update", "BAD_REQUEST")
        \/ Refuse(w, u, "update", "NOT_FOUND")
        \/ \E o \in pool_pop : job' = [job EXCEPT ![w] =
                          [Idle EXCEPT !.pc = "find", !.op = "update", !.user = u,
                                       !.id = i, !.object = o, !.body = body]]
    BY <1>5 DEF pocket_place_update, Known
  <2>2. ASSUME NEW o, job' = [job EXCEPT ![w] =
                      [Idle EXCEPT !.pc = "find", !.op = "update", !.user = u,
                                   !.id = i, !.object = o, !.body = body]]
        PROVE  \E j : Asks(j) /\ job' = [job EXCEPT ![w] = j]
    BY <1>3, <2>2
  <2> QED BY <1>1, <2>1, <2>2
<1> QED BY <1>1, <1>2, <1>4, <1>5
    DEF Request, BadUser, pocket_place_delete, pocket_place_get_handler,
        pocket_places_handler

\* Nobody but an insert has something to count.
LEMMA OnlyInsertsCount ==
    ASSUME IInv, [Next]_vars, NEW w \in Workers, job'[w].pc = "increment"
    PROVE  job'[w] = job[w] \/ place_insert_one(w)
<1> USE DEF IInv, PoolInv, TypeOK
<1>1. CASE Crash
  BY <1>1 DEF Crash, Restarted, Idle
<1>2. ASSUME NEW x \in Workers, Request(x)
      PROVE  job'[w] = job[w]
  BY <1>2, RequestShowsNothing DEF Asks
<1>3. ASSUME NEW x \in Workers, NEW pc, NEW error, MoveTo(x, pc, error),
             pc # "increment"
      PROVE  job'[w] = job[w]
  BY <1>3 DEF MoveTo, Jobs
<1>4. ASSUME NEW x \in Workers, NEW match, Read(x, match)
      PROVE  job'[w] = job[w]
  BY <1>4 DEF Read, Jobs
<1>5. ASSUME NEW x \in Workers, pocket_place_return(x)
      PROVE  job'[w] = job[w]
  BY <1>5 DEF pocket_place_return, Jobs
<1>6. ASSUME NEW x \in Workers, pocket_error_send_response(x)
      PROVE  job'[w] = job[w]
  BY <1>6 DEF pocket_error_send_response, Idle
<1>7. ASSUME NEW x \in Workers, place_insert_one(x)
      PROVE  job'[w] = job[w] \/ x = w
  BY <1>7, InsertEffect
<1>8. ASSUME NEW x \in Workers,
             \/ pocket_cache_user_increment_places(x)
             \/ place_get_by_oid_and_user(x)
             \/ place_update_one(x)
             \/ place_delete_one_by_oid_and_user(x)
      PROVE  job'[w] = job[w]
  <2>1. \E pc \in {"return", "update", "respond"} : \E error : MoveTo(x, pc, error)
    BY <1>8 DEF pocket_cache_user_increment_places, place_get_by_oid_and_user,
       NotFound, place_update_one, place_delete_one_by_oid_and_user
  <2> QED BY <1>3, <2>1
<1>9. ASSUME NEW x \in Workers,
             \/ place_get_by_oid_and_user_to_json(x)
             \/ places_get_all_by_user_to_json(x)
      PROVE  job'[w] = job[w]
  <2>1. \/ \E match : Read(x, match)
        \/ \E error : MoveTo(x, "respond", error)
    BY <1>9 DEF place_get_by_oid_and_user_to_json,
       places_get_all_by_user_to_json, ReadNothing
  <2> QED BY <1>3, <1>4, <2>1
<1>10. CASE UNCHANGED vars
  BY <1>10 DEF vars
<1> QED BY <1>1, <1>2, <1>5, <1>6, <1>7, <1>8, <1>9, <1>10 DEF Next, Continue

\* Nobody but an increment touches the counter.
LEMMA OnlyIncrementsIncrement ==
    ASSUME [Next]_vars, ~ UNCHANGED stats
    PROVE  \E w \in Workers : pocket_cache_user_increment_places(w)
<1>1. ~ Crash /\ ~ UNCHANGED vars
  BY DEF Crash, Restarted, vars
<1>2. ASSUME NEW w \in Workers, Request(w)
      PROVE  FALSE
  BY <1>2 DEF Request, BadUser, Refuse, pocket_place_create, pocket_place_update,
     pocket_place_delete, pocket_place_get_handler, pocket_places_handler, Take
<1>3. ASSUME NEW w \in Workers, Continue(w)
      PROVE  pocket_cache_user_increment_places(w)
  BY <1>3 DEF Continue, place_insert_one, pocket_place_return,
     place_get_by_oid_and_user, place_update_one,
     place_delete_one_by_oid_and_user, place_get_by_oid_and_user_to_json,
     places_get_all_by_user_to_json, Read, ReadNothing, pocket_error_send_response
<1> QED BY <1>1, <1>2, <1>3 DEF Next

LEMMA CountsAreFinite ==
    ASSUME IsFiniteSet(Ids), IsFiniteSet(Workers), NEW u
    PROVE  /\ IsFiniteSet(Counting(u)) /\ Cardinality(Counting(u)) \in Nat
           /\ IsFiniteSet(Inserted(u)) /\ Cardinality(Inserted(u)) \in Nat
           /\ IsFiniteSet(Counting(u)') /\ Cardinality(Counting(u)') \in Nat
           /\ IsFiniteSet(Inserted(u)') /\ Cardinality(Inserted(u)') \in Nat
<1>1. /\ Counting(u) \subseteq Workers /\ Counting(u)' \subseteq Workers
      /\ Inserted(u) \subseteq Ids /\ Inserted(u)' \subseteq Ids
  BY DEF Counting, Inserted
<1> HIDE DEF Counting, Inserted
<1> QED BY <1>1, FS_Subset, FS_CardinalityType

\* The counter is never ahead of what was inserted, as long as the ids and the
\* threads are finitely many: an insert gives one thread something to count,
\* and a thread that counted, failed to, or died has nothing more to count.
THEOREM StatsNeverAheadHolds ==
    ASSUME IsFiniteSet(Ids), IsFiniteSet(Workers)
    PROVE  Spec => []StatsNeverAhead
<1>1. Init => StatsNeverAhead
  <2> SUFFICES ASSUME Init, NEW u \in Users
               PROVE  stats[u] + Cardinality(Counting(u)) <= Cardinality(Inserted(u))
    BY DEF StatsNeverAhead
  <2>1. stats[u] = 0 /\ Counting(u) = {}
    BY DEF Init, Counting, At, Idle
  <2> QED BY <2>1, FS_EmptySet, CountsAreFinite
<1>2. ASSUME IInv, StatsNeverAhead, [Next]_vars
      PROVE  StatsNeverAhead'
  <2> SUFFICES ASSUME NEW u \in Users
               PROVE  stats'[u] + Cardinality(Counting(u)') <= Cardinality(Inserted(u)')
    BY DEF StatsNeverAhead
  <2> USE DEF IInv, PoolInv, TypeOK
  <2>1. /\ stats \in [Users -> Nat] /\ stats'[u] \in Nat
        /\ stats[u] + Cardinality(Counting(u)) <= Cardinality(Inserted(u))
    <3>1. TypeOK'
      BY <1>2, StepPoolInv
    <3> QED BY <1>2, <3>1 DEF StatsNeverAhead
  <2>2. CASE \E w \in Workers : place_insert_one(w)
    <3>1. PICK w \in Workers : place_insert_one(w)
      BY <2>2
    <3>2. stats' = stats /\ At(w, "insert")
      BY <3>1 DEF place_insert_one
    <3>3. \A x \in Workers \ {w} : job'[x] = job[x]
      BY <1>2, <3>1, InsertEffect
    <3>4. w \notin Counting(u)
      BY <3>2 DEF Counting, At
    <3>5. Counting(u)' \subseteq Counting(u) \cup {w}
      BY <3>3 DEF Counting, At
    <3>6. CASE job'[w].pc = "increment" /\ job'[w].user = u
      <4>1. /\ job[w].id \in Ids /\ owner[job[w].id] = NoUser
            /\ owner' = [owner EXCEPT ![job[w].id] = u]
        <5>1. PICK outcome \in DbOutcomes :
                /\ IF Applied(outcome)
                   THEN owner' = [owner EXCEPT ![mem[job[w].object].oid] =
                                      mem[job[w].object].user]
                   ELSE UNCHANGED owner
                /\ MoveTo(w, AfterInsert(outcome), ErrorOf(outcome, "SERVER_ERROR"))
          BY <3>1 DEF place_insert_one
        <5>2. AfterInsert(outcome) \in PCs /\ ErrorOf(outcome, "SERVER_ERROR") \in Errors
          BY DEF AfterInsert, ErrorOf, PCs, Errors
        <5>3. job'[w].pc = AfterInsert(outcome) /\ job'[w].user = job[w].user
          BY <1>2, <5>1, <5>2, Moved
        <5>4. outcome = "ok"
          BY <3>6, <5>3 DEF AfterInsert
        <5>5. mem[job[w].object] = [oid |-> job[w].id, user |-> job[w].user,
                                    data |-> Made(job[w].body)]
          BY <1>2, <3>2 DEF ObjectContents, KnowsItsObject, At
        <5>6. owner' = [owner EXCEPT ![mem[job[w].object].oid] =
                                       mem[job[w].object].user]
          BY <5>1, <5>4 DEF Applied
        <5>7. mem[job[w].object].oid = job[w].id /\ mem[job[w].object].user = u
          BY <3>6, <5>3, <5>5
        <5> QED BY <1>2, <3>1, <5>6, <5>7, InsertEffect
      <4>2. /\ Inserted(u)' = Inserted(u) \cup {job[w].id}
            /\ job[w].id \notin Inserted(u)
        BY <1>2, <4>1, PlacesAssumption DEF Inserted
      <4>3. Cardinality(Inserted(u)') = Cardinality(Inserted(u)) + 1
        BY <4>2, CountsAreFinite, FS_AddElement
      <4>4. Cardinality(Counting(u)') <= Cardinality(Counting(u)) + 1
        <5>1. Cardinality(Counting(u) \cup {w}) = Cardinality(Counting(u)) + 1
          BY <3>4, CountsAreFinite, FS_AddElement
        <5>2. IsFiniteSet(Counting(u) \cup {w})
          BY CountsAreFinite, FS_AddElement
        <5> QED BY <3>5, <5>1, <5>2, FS_Subset
      <4> QED BY <2>1, <3>2, <4>3, <4>4, CountsAreFinite
    <3>7. CASE ~ (job'[w].pc = "increment" /\ job'[w].user = u)
      <4>1. Counting(u)' \subseteq Counting(u)
        BY <3>5, <3>7 DEF Counting, At
      <4>2. Inserted(u) \subseteq Inserted(u)'
        BY <1>2, OwnersStay, PlacesAssumption DEF Inserted
      <4>3. /\ Cardinality(Counting(u)') <= Cardinality(Counting(u))
            /\ Cardinality(Inserted(u)) <= Cardinality(Inserted(u)')
        BY <4>1, <4>2, CountsAreFinite, FS_Subset
      <4> QED BY <2>1, <3>2, <4>3, CountsAreFinite
    <3> QED BY <3>6, <3>7
  <2>3. CASE ~ \E w \in Workers : place_insert_one(w)
    <3>1. Inserted(u)' = Inserted(u)
      BY <1>2, <2>3, OnlyWritesWrite
         DEF Inserted, place_update_one, place_delete_one_by_oid_and_user
    <3>2. Counting(u)' \subseteq Counting(u)
      BY <1>2, <2>3, OnlyInsertsCount DEF Counting, At
    <3>3. Cardinality(Counting(u)') <= Cardinality(Counting(u))
      BY <3>2, CountsAreFinite, FS_Subset
    <3>4. CASE stats'[u] = stats[u]
      BY <2>1, <3>1, <3>3, <3>4, CountsAreFinite
    <3>5. CASE stats'[u] # stats[u]
      <4>1. PICK w \in Workers : pocket_cache_user_increment_places(w)
        BY <1>2, <3>5, OnlyIncrementsIncrement
      <4>2. /\ At(w, "increment") /\ job[w].user = u
            /\ stats'[u] = stats[u] + 1
            /\ MoveTo(w, "return", job[w].error)
        BY <2>1, <3>5, <4>1 DEF pocket_cache_user_increment_places
      <4>3. w \in Counting(u)
        BY <4>2 DEF Counting
      <4>4. job'[w].pc = "return"
        BY <1>2, <4>2 DEF MoveTo, Jobs
      <4>5. Counting(u)' \subseteq Counting(u) \ {w}
        BY <3>2, <4>4 DEF Counting, At
      <4>6. /\ IsFiniteSet(Counting(u) \ {w})
            /\ Cardinality(Counting(u) \ {w}) = Cardinality(Counting(u)) - 1
        BY <4>3, CountsAreFinite, FS_RemoveElement
      <4>7. Cardinality(Counting(u)') <= Cardinality(Counting(u)) - 1
        BY <4>5, <4>6, FS_Subset
      <4> QED BY <2>1, <3>1, <4>2, <4>7, CountsAreFinite
    <3> QED BY <3>4, <3>5
  <2> QED BY <2>2, <2>3
<1> QED BY <1>1, <1>2, Invariant, PTL DEF Spec

-----------------------------------------------------------------------------
(***************************************************************************)
(* The counter when nothing goes wrong but inserts that fail.              *)
(***************************************************************************)

\* what a step is while the process lives
Running == (\E w \in Workers : Request(w) \/ Continue(w)) \/ UNCHANGED vars

\* A request moves its own job and no other.
LEMMA OnlyItsJobMoves ==
    ASSUME IInv, NEW x \in Workers, Request(x) \/ Continue(x),
           NEW w \in Workers \ {x}
    PROVE  job'[w] = job[w]
<1> USE DEF IInv, PoolInv, TypeOK
<1>1. CASE Request(x)
  BY <1>1, RequestShowsNothing
<1>2. ASSUME NEW pc, NEW error, MoveTo(x, pc, error)
      PROVE  job'[w] = job[w]
  BY <1>2 DEF MoveTo
<1>3. ASSUME NEW match, Read(x, match)
      PROVE  job'[w] = job[w]
  BY <1>3 DEF Read
<1>4. CASE \/ place_insert_one(x)
           \/ pocket_cache_user_increment_places(x)
           \/ place_get_by_oid_and_user(x)
           \/ place_update_one(x)
           \/ place_delete_one_by_oid_and_user(x)
  <2>1. \E pc, error : MoveTo(x, pc, error)
    BY <1>4 DEF place_insert_one, pocket_cache_user_increment_places,
       place_get_by_oid_and_user, NotFound, place_update_one,
       place_delete_one_by_oid_and_user
  <2> QED BY <1>2, <2>1
<1>5. CASE \/ place_get_by_oid_and_user_to_json(x)
           \/ places_get_all_by_user_to_json(x)
  <2>1. \/ \E match : Read(x, match)
        \/ \E pc, error : MoveTo(x, pc, error)
    BY <1>5 DEF place_get_by_oid_and_user_to_json,
       places_get_all_by_user_to_json, ReadNothing
  <2> QED BY <1>2, <1>3, <2>1
<1>6. CASE pocket_place_return(x) \/ pocket_error_send_response(x)
  BY <1>6 DEF pocket_place_return, pocket_error_send_response
<1> QED BY <1>1, <1>4, <1>5, <1>6 DEF Continue

\* What there is to count is counted, as long as the process lives.
LEMMA CountingWaits ==
    ASSUME IInv, Running, NEW w \in Workers, job[w].pc = "increment"
    PROVE  job'[w] = job[w] \/ pocket_cache_user_increment_places(w)
<1>1. ~ Request(w)
  BY DEF Request, BadUser, pocket_place_create, pocket_place_update,
     pocket_place_delete, pocket_place_get_handler, pocket_places_handler,
     Take, At
<1>2. ASSUME Continue(w)
      PROVE  pocket_cache_user_increment_places(w)
  BY <1>2 DEF Continue, place_insert_one, pocket_place_return,
     place_get_by_oid_and_user, place_update_one, place_delete_one_by_oid_and_user,
     place_get_by_oid_and_user_to_json, places_get_all_by_user_to_json,
     pocket_error_send_response, At
<1>3. ASSUME NEW x \in Workers \ {w}, Request(x) \/ Continue(x)
      PROVE  job'[w] = job[w]
  BY <1>3, OnlyItsJobMoves
<1>4. CASE UNCHANGED vars
  BY <1>4 DEF vars
<1> QED BY <1>1, <1>2, <1>3, <1>4 DEF Running

\* When no reply is lost and Redis works, a step of a live process keeps the
\* counter exact: an insert that succeeds is an insert to count, one that fails
\* is none, and every one of them is counted once.
LEMMA StepStatsExact ==
    ASSUME IsFiniteSet(Ids), IsFiniteSet(Workers),
           "lost" \notin DbOutcomes, "failed" \notin CacheOutcomes,
           IInv, StatsExact, [Next]_vars, Running
    PROVE  StatsExact'
<1> SUFFICES ASSUME NEW u \in Users
             PROVE  stats'[u] + Cardinality(Counting(u)') = Cardinality(Inserted(u)')
  BY DEF StatsExact
<1> USE DEF IInv, PoolInv, TypeOK
<1>1. /\ stats \in [Users -> Nat]
      /\ stats[u] + Cardinality(Counting(u)) = Cardinality(Inserted(u))
  BY DEF StatsExact
<1>2. ASSUME NEW w \in Workers, place_insert_one(w)
      PROVE  stats'[u] + Cardinality(Counting(u)') = Cardinality(Inserted(u)')
  <2>1. stats' = stats /\ At(w, "insert") /\ w \notin Counting(u)
    BY <1>2 DEF place_insert_one, Counting, At
  <2>2. /\ \A x \in Workers \ {w} : job'[x] = job[x]
        /\ job[w].id \in Ids /\ owner[job[w].id] = NoUser
    BY <1>2, InsertEffect
  <2>3. PICK outcome \in DbOutcomes :
          /\ IF Applied(outcome)
             THEN owner' = [owner EXCEPT ![mem[job[w].object].oid] =
                                mem[job[w].object].user]
             ELSE UNCHANGED owner
          /\ MoveTo(w, AfterInsert(outcome), ErrorOf(outcome, "SERVER_ERROR"))
    BY <1>2 DEF place_insert_one
  <2>4. job'[w].pc = AfterInsert(outcome) /\ job'[w].user = job[w].user
    <3>1. AfterInsert(outcome) \in PCs /\ ErrorOf(outcome, "SERVER_ERROR") \in Errors
      BY DEF AfterInsert, ErrorOf, PCs, Errors
    <3> QED BY <2>3, <3>1, Moved
  <2>5. /\ mem[job[w].object].oid = job[w].id
        /\ mem[job[w].object].user = job[w].user
    <3>1. KnowsItsObject(w) /\ job[w].pc = "insert"
      BY <2>1 DEF ObjectContents, At
    <3> QED BY <3>1 DEF KnowsItsObject
  <2>6. CASE outcome = "ok" /\ job[w].user = u
    <3>1. Counting(u)' = Counting(u) \cup {w}
      BY <2>2, <2>4, <2>6 DEF Counting, At, AfterInsert
    <3>2. /\ Inserted(u)' = Inserted(u) \cup {job[w].id}
          /\ job[w].id \notin Inserted(u)
      BY <2>2, <2>3, <2>5, <2>6, PlacesAssumption DEF Inserted, Applied
    <3>3. /\ Cardinality(Counting(u)') = Cardinality(Counting(u)) + 1
          /\ Cardinality(Inserted(u)') = Cardinality(Inserted(u)) + 1
      BY <2>1, <3>1, <3>2, CountsAreFinite, FS_AddElement
    <3> QED BY <1>1, <2>1, <3>3, CountsAreFinite
  <2>7. CASE ~ (outcome = "ok" /\ job[w].user = u)
    <3>1. Counting(u)' = Counting(u)
      BY <2>1, <2>2, <2>4, <2>7 DEF Counting, At, AfterInsert
    <3>2. Inserted(u)' = Inserted(u)
      BY <2>2, <2>3, <2>5, <2>7, PlacesAssumption DEF Inserted, Applied
    <3> QED BY <1>1, <2>1, <3>1, <3>2
  <2> QED BY <2>6, <2>7
<1>3. ASSUME NEW w \in Workers, pocket_cache_user_increment_places(w)
      PROVE  stats'[u] + Cardinality(Counting(u)') = Cardinality(Inserted(u)')
  <2>1. /\ At(w, "increment") /\ owner' = owner
        /\ stats' = [stats EXCEPT ![job[w].user] = @ + 1]
        /\ MoveTo(w, "return", job[w].error)
    BY <1>3 DEF pocket_cache_user_increment_places
  <2>2. /\ \A x \in Workers \ {w} : job'[x] = job[x]
        /\ job'[w].pc = "return" /\ job[w].user \in Users
    BY <2>1 DEF MoveTo, Jobs, At, Requests, KnowsItsRequest
  <2>3. Inserted(u)' = Inserted(u)
    BY <2>1 DEF Inserted
  <2>4. Counting(u)' = Counting(u) \ {w}
    BY <2>2 DEF Counting, At
  <2>5. CASE job[w].user = u
    <3>1. w \in Counting(u) /\ stats'[u] = stats[u] + 1
      BY <1>1, <2>1, <2>5 DEF Counting
    <3>2. Cardinality(Counting(u)') = Cardinality(Counting(u)) - 1
      BY <2>4, <3>1, CountsAreFinite, FS_RemoveElement
    <3> QED BY <1>1, <2>3, <3>1, <3>2, CountsAreFinite
  <2>6. CASE job[w].user # u
    <3>1. w \notin Counting(u) /\ stats'[u] = stats[u]
      BY <1>1, <2>1, <2>2, <2>6 DEF Counting
    <3>2. Counting(u)' = Counting(u)
      BY <2>4, <3>1
    <3> QED BY <1>1, <2>3, <3>1, <3>2
  <2> QED BY <2>5, <2>6
<1>4. CASE ~ \E w \in Workers : place_insert_one(w) \/ pocket_cache_user_increment_places(w)
  <2>1. Inserted(u)' = Inserted(u)
    BY <1>4, OnlyWritesWrite
       DEF Inserted, place_update_one, place_delete_one_by_oid_and_user
  <2>2. stats' = stats
    BY <1>4, OnlyIncrementsIncrement
  <2>3. Counting(u)' = Counting(u)
    <3>1. \A w \in Workers : job'[w].pc = "increment" => job'[w] = job[w]
      BY <1>4, OnlyInsertsCount
    <3>2. \A w \in Workers : job[w].pc = "increment" => job'[w] = job[w]
      BY <1>4, CountingWaits
    <3> QED BY <3>1, <3>2 DEF Counting, At
  <2> QED BY <1>1, <2>1, <2>2, <2>3
<1> QED BY <1>2, <1>3, <1>4

\* Nothing is inserted or counted before the first request.
LEMMA InitStatsExact == Init => StatsExact
<1> SUFFICES ASSUME Init, NEW u \in Users
             PROVE  stats[u] + Cardinality(Counting(u)) = Cardinality(Inserted(u))
  BY DEF StatsExact
<1>1. stats[u] = 0 /\ Counting(u) = {} /\ Inserted(u) = {}
  BY PlacesAssumption DEF Init, Counting, Inserted, At, Idle
<1> QED BY <1>1, FS_EmptySet

\* With as many objects as threads, a thread that comes to the pool without
\* one finds one: each of the others holds one at most, and none is lost.
LEMMA PoppingSucceeds ==
    ASSUME PoolInv, NEW w \in Workers, At(w, "idle"),
           IsFiniteSet(Workers), IsFiniteSet(Objects),
           Cardinality(Workers) <= Cardinality(Objects)
    PROVE  pool_pop # {}
<1> SUFFICES ASSUME pool_pop = {}
             PROVE  FALSE
  OBVIOUS
<1> DEFINE others == Workers \ {w}
           holds == [x \in others |-> job[x].object]
           held == {holds[x] : x \in others}
<1>1. pool = {} /\ Objects \subseteq allocated
  BY DEF pool_pop
<1>2. Objects \subseteq held
  <2> SUFFICES ASSUME NEW o \in Objects
               PROVE  \E x \in others : holds[x] = o
    OBVIOUS
  <2>1. PICK x \in Workers : o \in Held(x)
    BY <1>1 DEF PoolInv, NothingLeaks
  <2>2. job[x].object = o
    BY <2>1 DEF Held
  <2>3. x # w
    BY <2>2, PlacesAssumption
       DEF At, Holding, PoolInv, Requests, KnowsItsRequest
  <2> QED BY <2>2, <2>3
<1>3. IsFiniteSet(others) /\ Cardinality(others) = Cardinality(Workers) - 1
  BY FS_RemoveElement
<1>4. IsFiniteSet(held) /\ Cardinality(held) <= Cardinality(others)
  <2>1. holds \in Surjection(others, held)
    BY DEF Surjection
  <2> HIDE DEF held, holds, others
  <2> QED BY <1>3, <2>1, FS_Surjection
<1>5. Cardinality(Objects) <= Cardinality(held)
  BY <1>2, <1>4, FS_Subset
<1> HIDE DEF held, others
<1> QED BY <1>3, <1>4, <1>5, FS_CardinalityType

\* With a process that does not die by itself and an object for every thread,
\* whatever inserts fail, the counter of every user is exact at all times.
THEOREM StatsExactHolds ==
    ASSUME IsFiniteSet(Ids), IsFiniteSet(Workers), IsFiniteSet(Objects),
           Cardinality(Workers) <= Cardinality(Objects), ~ MayCrash,
           "lost" \notin DbOutcomes, "failed" \notin CacheOutcomes
    PROVE  Spec => []StatsExact
<1>1. ASSUME IInv, [Next]_vars
      PROVE  Running
  BY <1>1, PoppingSucceeds DEF IInv, Next, Crash, NullDereferenced, Running
<1>2. ASSUME IInv, StatsExact, [Next]_vars
      PROVE  StatsExact'
  BY <1>1, <1>2, StepStatsExact
<1> QED BY <1>2, InitStatsExact, Invariant, PTL DEF Spec

-----------------------------------------------------------------------------
(***************************************************************************)
(* One request at a time.                                                  *)
(***************************************************************************)

\* what an update is about to write is what it read, with its body over it
Merges(w) ==
    job[w].pc = "update" =>
        LET read == places[job[w].id].data
            kept == mem[job[w].object].data
            body == job[w].body IN
        /\ kept.name = Given(body.name, read.name)
        /\ kept.description = Given(body.description, read.description)

\* A thread is about to write back after its read, or because it was before.
LEMMA OnlyReadsUpdate ==
    ASSUME IInv, [Next]_vars, NEW w \in Workers, job'[w].pc = "update"
    PROVE  \/ job'[w] = job[w]
           \/ place_get_by_oid_and_user(w)
<1> USE DEF IInv, PoolInv, TypeOK
<1>1. ASSUME NEW x \in Workers, Request(x)
      PROVE  job'[w] = job[w]
  BY <1>1, RequestShowsNothing DEF Asks
<1>2. ASSUME NEW x \in Workers, NEW pc, NEW error, MoveTo(x, pc, error),
             pc # "update"
      PROVE  job'[w] = job[w]
  BY <1>2 DEF MoveTo, Jobs
<1>3. ASSUME NEW x \in Workers, NEW match, Read(x, match)
      PROVE  job'[w] = job[w]
  BY <1>3 DEF Read, Jobs
<1>4. ASSUME NEW x \in Workers,
             pocket_place_return(x) \/ pocket_error_send_response(x)
      PROVE  job'[w] = job[w]
  <2>1. CASE pocket_place_return(x)
    BY <2>1 DEF pocket_place_return, Jobs
  <2>2. CASE pocket_error_send_response(x)
    BY <2>2 DEF pocket_error_send_response, Idle
  <2> QED BY <1>4, <2>1, <2>2
<1>5. ASSUME NEW x \in Workers, place_insert_one(x) \/ place_update_one(x)
      PROVE  job'[w] = job[w]
  BY <1>5, InsertEffect, UpdateEffect
<1>6. ASSUME NEW x \in Workers, place_delete_one_by_oid_and_user(x)
      PROVE  job'[w] = job[w]
  BY <1>6, DeleteEffect
<1>7. ASSUME NEW x \in Workers, pocket_cache_user_increment_places(x)
      PROVE  job'[w] = job[w]
  <2>1. \E pc, error : MoveTo(x, pc, error) /\ pc # "update"
    BY <1>7 DEF pocket_cache_user_increment_places
  <2> QED BY <1>2, <2>1
<1>8. ASSUME NEW x \in Workers,
             \/ place_get_by_oid_and_user_to_json(x)
             \/ places_get_all_by_user_to_json(x)
      PROVE  job'[w] = job[w]
  <2>1. \/ \E match : Read(x, match)
        \/ \E error : MoveTo(x, "respond", error)
    BY <1>8 DEF place_get_by_oid_and_user_to_json,
       places_get_all_by_user_to_json, ReadNothing
  <2>2. "respond" # "update"
    OBVIOUS
  <2> QED BY <1>2, <1>3, <2>1, <2>2
<1>9. ASSUME NEW x \in Workers \ {w}, place_get_by_oid_and_user(x)
      PROVE  job'[w] = job[w]
  BY <1>9, OnlyItsJobMoves DEF Continue
<1>10. CASE Crash
  BY <1>10 DEF Crash, Restarted, Idle
<1>11. CASE UNCHANGED vars
  BY <1>11 DEF vars
<1> QED BY <1>1, <1>4, <1>5, <1>6, <1>7, <1>8, <1>9, <1>10, <1>11
    DEF Next, Continue, vars

\* what a read that finds its document leaves in the object
LEMMA ReadMerges ==
    ASSUME IInv, NEW w \in Workers, place_get_by_oid_and_user(w),
           job'[w].pc = "update"
    PROVE  Merges(w)'
<1> USE DEF IInv, PoolInv, TypeOK
<1> DEFINE o == job[w].object
<1>1. /\ At(w, "find") /\ places' = places
      /\ o \in Objects /\ mem[o].oid = job[w].id
  <2>1. At(w, "find") /\ places' = places
    BY DEF place_get_by_oid_and_user
  <2> QED BY <2>1 DEF At, Requests, KnowsItsRequest, Holding, ObjectContents,
                      KnowsItsObject
<1>2. ~ \E error \in Errors : MoveTo(w, "return", error)
  BY Moved DEF PCs
<1>3. PICK i \in Ids :
        /\ i = mem[o].oid
        /\ mem' = [mem EXCEPT ![o] =
              [place_doc_parse(i, mem[o].data) EXCEPT !.data = Merged(@, job[w].body)]]
        /\ MoveTo(w, "update", "NONE")
  BY <1>2 DEF place_get_by_oid_and_user, NotFound, Errors,
     place_query_by_oid_and_user
<1>4. /\ job'[w].id = job[w].id /\ job'[w].object = o
      /\ job'[w].body = job[w].body
  BY <1>3, Moved DEF PCs, Errors
<1>5. mem'[o] = [place_doc_parse(i, mem[o].data) EXCEPT !.data = Merged(@, job[w].body)]
  <2>1. \A x : mem' = [mem EXCEPT ![o] = x] => mem'[o] = x
    BY <1>1
  <2> QED BY <1>3, <2>1
<1>6. mem[o].data \in Data
  BY <1>1
<1> QED BY <1>1, <1>3, <1>4, <1>5, <1>6 DEF Merges, place_doc_parse, Merged, Data

\* With one thread, nothing happens between the two halves of an update.
LEMMA StepMerges ==
    ASSUME NEW one, Workers = {one}, IInv, Merges(one), [Next]_vars
    PROVE  Merges(one)'
<1> USE DEF IInv, PoolInv, TypeOK
<1> SUFFICES ASSUME job'[one].pc = "update"
             PROVE  Merges(one)'
  BY DEF Merges
<1>1. CASE place_get_by_oid_and_user(one)
  BY <1>1, ReadMerges
<1>2. CASE job'[one] = job[one] /\ ~ place_get_by_oid_and_user(one)
  <2>1. At(one, "update")
    BY <1>2 DEF At
  <2>2. ~ Crash
    BY DEF Crash, Restarted, Idle
  <2>3. ~ Request(one)
    BY <2>1 DEF Request, BadUser, pocket_place_create, pocket_place_update,
       pocket_place_delete, pocket_place_get_handler, pocket_places_handler,
       Take, At
  <2>4. ~ Continue(one)
    <3>1. ASSUME Continue(one)
          PROVE  place_update_one(one)
      BY <2>1, <3>1 DEF Continue, place_insert_one, pocket_place_return,
         place_get_by_oid_and_user, pocket_cache_user_increment_places,
         place_delete_one_by_oid_and_user, place_get_by_oid_and_user_to_json,
         places_get_all_by_user_to_json, pocket_error_send_response, At
    <3> QED BY <3>1, UpdateEffect
  <2>5. UNCHANGED <<places, mem, job>>
    BY <2>2, <2>3, <2>4 DEF Next, vars
  <2> QED BY <2>5 DEF Merges
<1> QED BY <1>1, <1>2, OnlyReadsUpdate

\* With one thread, an update changes nothing that its body does not name.
THEOREM KeepsOtherFieldsHolds ==
    ASSUME NEW one, Workers = {one}
    PROVE  Spec => KeepsOtherFields
<1>1. Init => Merges(one)
  BY DEF Init, Merges, Idle
<1>2. ASSUME IInv, Merges(one), [Next]_vars
      PROVE  KeepsOtherFieldsStep
  <2> SUFFICES ASSUME NEW i \in Ids, At(one, "update"), places'[i] # places[i]
               PROVE  /\ job[one].body.name = Absent =>
                             places'[i].data.name = places[i].data.name
                      /\ job[one].body.description = Absent =>
                             places'[i].data.description = places[i].data.description
    BY DEF KeepsOtherFieldsStep
  <2>1. place_update_one(one)
    BY <1>2, OnlyWritesWrite DEF place_insert_one, place_delete_one_by_oid_and_user, At
  <2>2. /\ i = job[one].id
        /\ places'[i].data = place_update_bson(places[i].data, mem[job[one].object].data)
    BY <1>2, <2>1, UpdateEffect DEF IInv, PoolInv, TypeOK, Documents
  <2>3. Merges(one) /\ job[one].pc = "update"
    BY <1>2 DEF At
  <2>4. places[i].data \in Data
    BY <1>2 DEF IInv, PoolInv, TypeOK, Documents
  <2> QED BY <2>2, <2>3, <2>4 DEF Merges, place_update_bson, Given, Data
<1>3. ASSUME IInv, Merges(one), [Next]_vars
      PROVE  Merges(one)'
  BY <1>3, StepMerges
<1> QED BY <1>1, <1>2, <1>3, Invariant, PTL DEF Spec, KeepsOtherFields

-----------------------------------------------------------------------------
(***************************************************************************)
(* The places controller implements OwnedStore: every step of it is a      *)
(* step of the store or leaves the store and all answers as they are.      *)
(***************************************************************************)

(***************************************************************************)
(* How one job looks from outside, and what changes of it.                 *)
(***************************************************************************)

\* a request that is taken, or turned down
LEMMA Accepts ==
    ASSUME IInv, NEW w \in Workers, At(w, "idle"),
           \A x \in Workers \ {w} : job'[x] = job[x],
           UNCHANGED <<places, owner>>,
           job'[w].op \in Promise!Ops, job'[w].id \in Ids \cup {NoId},
           job'[w].found = {},
           \/ /\ AnswerOf(w)' = "pending" /\ job'[w].user \in Users
              /\ job'[w].op = "create" => job'[w].id \in Ids \ Known
           \/ AnswerOf(w)' = "error" /\ job'[w].user \in Users \cup {NoUser}
    PROVE  Promise!Accept(w)
<1> DEFINE S == [x \in Workers |->
                    [user |-> job[x].user, op |-> job[x].op, id |-> job[x].id,
                     answer |-> AnswerOf(x), seen |-> job[x].found]]
           j == job'[w]
<1>1. job[w] = Idle /\ job[w].pc = "idle"
  BY DEF At, IInv, PoolInv, Requests, KnowsItsRequest
<1>2. S[w] = Promise!Resting
  BY <1>1 DEF Idle, AnswerOf, Promise!Resting, Promise!Request
<1>3. \A x \in Workers \ {w} : AnswerOf(x)' = AnswerOf(x)
  BY DEF AnswerOf
<1>4. S' = [S EXCEPT ![w] = Promise!Request(j.user, j.op, j.id, AnswerOf(w)')]
  BY <1>3 DEF Promise!Request
<1>5. \E op \in Promise!Ops, i \in Ids \cup {NoId} :
        \/ \E u \in Users :
            /\ op = "create" => i \in Ids \ Known
            /\ S' = [S EXCEPT ![w] = Promise!Request(u, op, i, "pending")]
        \/ \E u \in Users \cup {NoUser} :
            S' = [S EXCEPT ![w] = Promise!Request(u, op, i, "error")]
  <2> HIDE DEF S
  <2> QED BY <1>4
<1>6. /\ UNCHANGED [i \in Ids |-> [user |-> places[i].user, value |-> places[i].data]]
      /\ UNCHANGED Known
  BY DEF Known
<1> QED BY <1>2, <1>5, <1>6, Zenon DEF Promise!Accept

\* a request that is decided
LEMMA Decides ==
    ASSUME NEW w \in Workers, NEW answer, NEW seen,
           \A x \in Workers \ {w} : job'[x] = job[x],
           job'[w].user = job[w].user, job'[w].op = job[w].op, job'[w].id = job[w].id,
           AnswerOf(w)' = answer, job'[w].found = seen
    PROVE  Promise!Decided(w, answer, seen)
<1>1. \A x \in Workers \ {w} : AnswerOf(x)' = AnswerOf(x)
  BY DEF AnswerOf
<1> QED BY <1>1 DEF Promise!Decided

\* a step that nobody notices
LEMMA Unnoticed ==
    ASSUME NEW w \in Workers,
           \A x \in Workers \ {w} : job'[x] = job[x],
           job'[w].user = job[w].user, job'[w].op = job[w].op, job'[w].id = job[w].id,
           AnswerOf(w)' = AnswerOf(w), job'[w].found = job[w].found,
           UNCHANGED <<places, owner>>
    PROVE  UNCHANGED Promise!storeVars
<1>1. \A x \in Workers : AnswerOf(x)' = AnswerOf(x)
  BY DEF AnswerOf
<1>2. Known' = Known
  BY DEF Known
<1> QED BY <1>1, <1>2 DEF Promise!storeVars

LEMMA Outside ==
    ASSUME NEW w \in Workers
    PROVE  /\ \A op : Promise!Busy(w, op) <=> job[w].op = op /\ AnswerOf(w) = "pending"
           /\ \A u : Promise!OwnedBy(u) = {i \in Ids : places[i].user = u}
BY DEF Promise!Busy, Promise!OwnedBy

\* what all calls but the first have in common
LEMMA GoesOn ==
    ASSUME IInv, NEW w \in Workers, NEW pc \in PCs, NEW error \in Errors,
           MoveTo(w, pc, error)
    PROVE  /\ \A x \in Workers \ {w} : job'[x] = job[x]
           /\ job'[w].user = job[w].user /\ job'[w].op = job[w].op
           /\ job'[w].id = job[w].id /\ job'[w].found = job[w].found
           /\ job'[w].pc = pc
           /\ AnswerOf(w)' = IF pc \notin {"increment", "return", "respond"} THEN "pending"
                             ELSE IF error = "NONE" THEN "ok" ELSE "error"
BY Moved DEF IInv, PoolInv, TypeOK, AnswerOf

-----------------------------------------------------------------------------
(***************************************************************************)
(* The steps.                                                              *)
(***************************************************************************)

LEMMA RefuseImplements ==
    ASSUME IInv, NEW w \in Workers, NEW u \in Users \cup {NoUser},
           NEW op \in {"create", "update", "delete", "get", "list"},
           NEW error \in Errors \ {"NONE"}, At(w, "idle"), Refuse(w, u, op, error)
    PROVE  Promise!StoreNext
<1>1. /\ \A x \in Workers \ {w} : job'[x] = job[x]
      /\ job'[w].op = op /\ job'[w].user = u /\ job'[w].id = NoId
      /\ job'[w].found = {} /\ job'[w].pc = "respond" /\ job'[w].error = error
  BY DEF Refuse, Idle, IInv, PoolInv, TypeOK
<1>2. AnswerOf(w)' = "error" /\ op \in Promise!Ops
  BY <1>1 DEF AnswerOf, Promise!Ops
<1>3. UNCHANGED <<places, owner>>
  BY DEF Refuse
<1>4. Promise!Accept(w)
  BY <1>1, <1>2, <1>3, Accepts
<1> QED BY <1>4 DEF Promise!StoreNext, Promise!StoreStep

\* a request that is served: its job has the pc of its first call
LEMMA Served ==
    ASSUME IInv, NEW w \in Workers, NEW u \in Users, NEW i \in Ids \cup {NoId},
           NEW op \in {"create", "update", "delete", "get", "list"},
           NEW pc \in {"insert", "find", "delete", "get", "list"},
           At(w, "idle"), op = "create" => i \in Ids \ Known,
           \A x \in Workers \ {w} : job'[x] = job[x],
           job'[w].op = op, job'[w].user = u, job'[w].id = i,
           job'[w].found = {}, job'[w].pc = pc,
           UNCHANGED <<places, owner>>
    PROVE  Promise!StoreNext
<1>1. AnswerOf(w)' = "pending" /\ op \in Promise!Ops
  BY DEF AnswerOf, Promise!Ops
<1>2. Promise!Accept(w)
  BY <1>1, Accepts
<1> QED BY <1>2 DEF Promise!StoreNext, Promise!StoreStep

LEMMA TakeImplements ==
    ASSUME IInv, NEW w \in Workers, NEW u \in Users, NEW i \in Ids \cup {NoId},
           NEW op \in {"create", "update", "delete", "get", "list"},
           NEW pc \in {"insert", "find", "delete", "get", "list"}, NEW o, NEW body,
           At(w, "idle"), op = "create" => i \in Ids \ Known,
           job' = [job EXCEPT ![w] =
                     [Idle EXCEPT !.pc = pc, !.op = op, !.user = u, !.id = i,
                                  !.object = o, !.body = body]],
           UNCHANGED <<places, owner>>
    PROVE  Promise!StoreNext
<1>1. /\ \A x \in Workers \ {w} : job'[x] = job[x]
      /\ job'[w].op = op /\ job'[w].user = u /\ job'[w].id = i
      /\ job'[w].found = {} /\ job'[w].pc = pc
  BY DEF Idle, IInv, PoolInv, TypeOK
<1> QED BY <1>1, Served

LEMMA InsertImplements ==
    ASSUME IInv, NEW w \in Workers, place_insert_one(w)
    PROVE  Promise!StoreNext
<1> USE PlacesAssumption DEF IInv, PoolInv
<1> DEFINE d == [user |-> job[w].user, data |-> Stored(job[w].body)]
<1>1. /\ At(w, "insert") /\ job[w].id \in Ids /\ job[w].user \in Users
      /\ owner[job[w].id] = NoUser /\ job[w].op = "create"
      /\ job[w].found = {}
      /\ places \in [Ids -> Documents] /\ owner \in [Ids -> Users \cup {NoUser}]
      /\ Stored(job[w].body) \in Data
      /\ mem[job[w].object] = [oid |-> job[w].id, user |-> job[w].user,
                               data |-> Made(job[w].body)]
  BY InsertEffect, MadeType
     DEF place_insert_one, TypeOK, Requests, KnowsItsRequest, ObjectContents,
         KnowsItsObject, At
<1>2. PICK outcome \in DbOutcomes :
        /\ IF Applied(outcome)
           THEN /\ places' = [places EXCEPT ![job[w].id] = d]
                /\ owner' = [owner EXCEPT ![job[w].id] = job[w].user]
           ELSE UNCHANGED <<places, owner>>
        /\ MoveTo(w, AfterInsert(outcome), ErrorOf(outcome, "SERVER_ERROR"))
  BY <1>1 DEF place_insert_one, place_to_bson, Stored
<1> DEFINE answer == IF outcome = "ok" THEN "ok" ELSE "error"
<1>3. Promise!Decided(w, answer, {}) /\ AnswerOf(w) = "pending"
  <2>1. /\ AfterInsert(outcome) \in PCs \cap {"increment", "return"}
        /\ ErrorOf(outcome, "SERVER_ERROR") \in Errors
    BY DEF AfterInsert, ErrorOf, PCs, Errors
  <2>2. AnswerOf(w)' = answer
    BY <1>2, <2>1, GoesOn DEF ErrorOf
  <2>3. AnswerOf(w) = "pending"
    BY <1>1 DEF AnswerOf, At
  <2> QED BY <1>1, <1>2, <2>1, <2>2, <2>3, GoesOn, Decides
<1>4. Promise!Busy(w, "create")
  BY <1>1, <1>3, Outside
<1>5. CASE ~Applied(outcome)
  <2>1. answer = "error" /\ UNCHANGED <<places, owner>>
    BY <1>2, <1>5 DEF Applied
  <2>2. UNCHANGED Known
    BY <2>1 DEF Known
  <2> QED BY <1>3, <1>4, <2>1, <2>2
          DEF Promise!Failure, Promise!Ops, Promise!StoreStep, Promise!StoreNext
<1>6. CASE Applied(outcome)
  <2>1. /\ places' = [places EXCEPT ![job[w].id] = d]
        /\ owner' = [owner EXCEPT ![job[w].id] = job[w].user]
    BY <1>2, <1>6
  <2>2. Known' = Known \cup {job[w].id} /\ job[w].id \in Ids \ Known
    BY <1>1, <2>1 DEF Known
  <2>3. [i \in Ids |-> [user |-> places[i].user, value |-> places[i].data]]'
          = [[i \in Ids |-> [user |-> places[i].user, value |-> places[i].data]]
             EXCEPT ![job[w].id] = [user |-> job[w].user,
                                    value |-> Stored(job[w].body)]]
    BY <1>1, <2>1
  <2>4. Promise!Insert(w)
    BY <1>1, <1>3, <1>4, <2>2, <2>3 DEF Promise!Insert
  <2> QED BY <2>4 DEF Promise!StoreStep, Promise!StoreNext
<1> QED BY <1>5, <1>6

\* The counter and the way back to the pool.
LEMMA UnnoticedImplements ==
    ASSUME IInv, NEW w \in Workers,
           pocket_cache_user_increment_places(w) \/ pocket_place_return(w)
    PROVE  UNCHANGED Promise!storeVars
<1>1. CASE pocket_cache_user_increment_places(w)
  <2>1. /\ MoveTo(w, "return", job[w].error) /\ At(w, "increment")
        /\ UNCHANGED <<places, owner>>
    BY <1>1 DEF pocket_cache_user_increment_places
  <2>2. job[w].error \in Errors /\ "return" \in PCs
    BY DEF IInv, PoolInv, TypeOK, Jobs, PCs
  <2>3. AnswerOf(w)' = AnswerOf(w)
    BY <2>1, <2>2, GoesOn DEF AnswerOf, At
  <2> QED BY <2>1, <2>2, <2>3, GoesOn, Unnoticed
<1>2. CASE pocket_place_return(w)
  <2> DEFINE j == [job[w] EXCEPT !.pc = "respond", !.object = NoObject, !.body = NoBody]
  <2>1. /\ At(w, "return") /\ job' = [job EXCEPT ![w] = j]
        /\ UNCHANGED <<places, owner>>
        /\ job \in [Workers -> Jobs]
    BY <1>2 DEF pocket_place_return, IInv, PoolInv, TypeOK
  <2>2. /\ j.user = job[w].user /\ j.op = job[w].op /\ j.id = job[w].id
        /\ j.found = job[w].found /\ j.pc = "respond" /\ j.error = job[w].error
    BY <2>1 DEF Jobs
  <2> HIDE DEF j
  <2>3. /\ \A x \in Workers \ {w} : job'[x] = job[x]
        /\ job'[w] = j
    BY <2>1
  <2>4. AnswerOf(w)' = AnswerOf(w)
    BY <2>1, <2>2, <2>3 DEF AnswerOf, At
  <2> QED BY <2>1, <2>2, <2>3, <2>4, Unnoticed
<1> QED BY <1>1, <1>2

\* An update whose document is not found fails, one with a malformed body says
\* that all is well, and the others go on.
LEMMA FindImplements ==
    ASSUME IInv, NEW w \in Workers, place_get_by_oid_and_user(w)
    PROVE  Promise!StoreNext \/ UNCHANGED Promise!storeVars
<1>1. /\ At(w, "find") /\ job[w].op = "update" /\ job[w].found = {}
      /\ UNCHANGED <<places, owner>>
      /\ AnswerOf(w) = "pending"
  BY DEF place_get_by_oid_and_user, IInv, PoolInv, Requests, KnowsItsRequest, At,
         AnswerOf
<1>2. Promise!Busy(w, "update") /\ "update" \in Promise!Ops
  BY <1>1, Outside DEF Promise!Ops
<1>3. UNCHANGED Known
  BY <1>1 DEF Known
<1>4. CASE NotFound(w)
  <2>1. MoveTo(w, "return", "NOT_FOUND") /\ "return" \in PCs /\ "NOT_FOUND" \in Errors
    BY <1>4 DEF NotFound, PCs, Errors
  <2>2. Promise!Decided(w, "error", {})
    BY <1>1, <2>1, GoesOn, Decides
  <2>3. Promise!Failure(w)
    BY <1>1, <1>2, <1>3, <2>2 DEF Promise!Failure
  <2> QED BY <2>3 DEF Promise!StoreStep, Promise!StoreNext
<1>5. CASE MoveTo(w, "return", "NONE")
  <2>1. "return" \in PCs /\ "NONE" \in Errors
    BY DEF PCs, Errors
  <2>2. Promise!Decided(w, "ok", {})
    BY <1>1, <1>5, <2>1, GoesOn, Decides
  <2>3. Promise!NothingToWrite(w)
    BY <1>1, <1>2, <1>3, <2>2 DEF Promise!NothingToWrite
  <2> QED BY <2>3 DEF Promise!StoreStep, Promise!StoreNext
<1>6. CASE MoveTo(w, "update", "NONE")
  <2>1. "update" \in PCs /\ "NONE" \in Errors
    BY DEF PCs, Errors
  <2> QED BY <1>1, <1>6, <2>1, GoesOn, Unnoticed
<1> QED BY <1>4, <1>5, <1>6 DEF place_get_by_oid_and_user

LEMMA UpdateImplements ==
    ASSUME IInv, NEW w \in Workers, place_update_one(w)
    PROVE  Promise!StoreNext
<1> USE PlacesAssumption DEF IInv, PoolInv
<1> DEFINE match == place_query_oid(job[w].id)
           new == mem[job[w].object].data
<1>1. /\ At(w, "update") /\ job[w].op = "update" /\ job[w].found = {}
      /\ UNCHANGED owner /\ job[w].id \in Ids /\ job[w].user \in Users
      /\ owner[job[w].id] = job[w].user
      /\ places \in [Ids -> Documents]
      /\ mem[job[w].object].oid = job[w].id /\ new \in Data
      /\ AnswerOf(w) = "pending"
  BY DEF place_update_one, Requests, KnowsItsRequest, ObjectContents, KnowsItsObject,
         Ownership, KnowsItsDocument, At, AnswerOf, TypeOK, Holding
<1>2. PICK outcome \in Outcomes(match) :
        /\ places' = [i \in Ids |->
              IF i \in match /\ Applied(outcome)
              THEN [places[i] EXCEPT !.data = place_update_bson(@, new)] ELSE places[i]]
        /\ MoveTo(w, "return", ErrorOf(outcome, "SERVER_ERROR"))
  BY <1>1 DEF place_update_one
<1> DEFINE answer == IF outcome = "ok" THEN "ok" ELSE "error"
<1>3. Promise!Decided(w, answer, {})
  <2>1. "return" \in PCs /\ ErrorOf(outcome, "SERVER_ERROR") \in Errors
    BY DEF ErrorOf, PCs, Errors
  <2>2. AnswerOf(w)' = answer
    BY <1>2, <2>1, GoesOn DEF ErrorOf
  <2> QED BY <1>1, <1>2, <2>1, <2>2, GoesOn, Decides
<1>4. Promise!Busy(w, "update") /\ "update" \in Promise!Ops
  BY <1>1, Outside DEF Promise!Ops
<1>5. UNCHANGED Known
  BY <1>1 DEF Known
<1>6. CASE job[w].id \in match /\ Applied(outcome)
  <2>1. /\ places[job[w].id].user = job[w].user
        /\ places' = [places EXCEPT ![job[w].id].data =
                          place_update_bson(@, new)]
    BY <1>1, <1>2, <1>6 DEF place_query_oid, Ownership
  <2>2. [i \in Ids |-> [user |-> places[i].user, value |-> places[i].data]]'
          = [[i \in Ids |-> [user |-> places[i].user, value |-> places[i].data]]
             EXCEPT ![job[w].id].value =
                       place_update_bson(places[job[w].id].data, new)]
    <3>1. \A i \in Ids : /\ places'[i].user = places[i].user
                         /\ places'[i].data =
                               IF i = job[w].id
                               THEN place_update_bson(places[i].data, new)
                               ELSE places[i].data
      BY <1>1, <2>1 DEF Documents
    <3> QED BY <1>1, <3>1
  <2>3. job[w].id \in Promise!OwnedBy(job[w].user)
    BY <1>1, <2>1, Outside
  <2>4. place_update_bson(places[job[w].id].data, new) \in Data
    BY <1>1, UpdatedType DEF Documents
  <2>5. Promise!Modify(w)
    BY <1>1, <1>3, <1>4, <1>5, <2>2, <2>3, <2>4 DEF Promise!Modify
  <2> QED BY <2>5 DEF Promise!StoreStep, Promise!StoreNext
<1>7. CASE ~(job[w].id \in match /\ Applied(outcome))
  <2>1. UNCHANGED places
    BY <1>1, <1>2, <1>7 DEF place_query_oid
  <2>2. CASE outcome = "ok"
    <3>1. Promise!NothingToWrite(w)
      BY <1>3, <1>4, <1>5, <2>1, <2>2 DEF Promise!NothingToWrite
    <3> QED BY <3>1 DEF Promise!StoreStep, Promise!StoreNext
  <2>3. CASE outcome # "ok"
    <3>1. Promise!Failure(w)
      BY <1>3, <1>4, <1>5, <2>1, <2>3 DEF Promise!Failure
    <3> QED BY <3>1 DEF Promise!StoreStep, Promise!StoreNext
  <2> QED BY <2>2, <2>3
<1> QED BY <1>6, <1>7

LEMMA DeleteImplements ==
    ASSUME IInv, NEW w \in Workers, place_delete_one_by_oid_and_user(w)
    PROVE  Promise!StoreNext
<1> USE PlacesAssumption DEF IInv, PoolInv
<1> DEFINE match == place_query_by_oid_and_user(job[w].id, job[w].user)
<1>1. /\ At(w, "delete") /\ job[w].op = "delete" /\ job[w].found = {}
      /\ UNCHANGED owner /\ job[w].user \in Users
      /\ places \in [Ids -> Documents]
      /\ AnswerOf(w) = "pending"
  BY DEF place_delete_one_by_oid_and_user, Requests, KnowsItsRequest, At, AnswerOf,
         TypeOK
<1>2. PICK outcome \in Outcomes(match) :
        /\ places' = [i \in Ids |->
              IF i \in match /\ Applied(outcome) THEN Missing ELSE places[i]]
        /\ MoveTo(w, "respond", ErrorOf(outcome, "BAD_REQUEST"))
  BY DEF place_delete_one_by_oid_and_user
<1> DEFINE answer == IF outcome = "ok" THEN "ok" ELSE "error"
<1>3. Promise!Decided(w, answer, {})
  <2>1. "respond" \in PCs /\ ErrorOf(outcome, "BAD_REQUEST") \in Errors
    BY DEF ErrorOf, PCs, Errors
  <2>2. AnswerOf(w)' = answer
    BY <1>2, <2>1, GoesOn DEF ErrorOf
  <2> QED BY <1>1, <1>2, <2>1, <2>2, GoesOn, Decides
<1>4. Promise!Busy(w, "delete") /\ "delete" \in Promise!Ops
  BY <1>1, Outside DEF Promise!Ops
<1>5. UNCHANGED Known
  BY <1>1 DEF Known
<1>6. CASE match # {} /\ Applied(outcome)
  <2>1. /\ job[w].id \in Ids /\ match = {job[w].id}
        /\ places[job[w].id].user = job[w].user
    BY <1>6 DEF place_query_by_oid_and_user
  <2>2. places' = [places EXCEPT ![job[w].id] = Missing]
    BY <1>1, <1>2, <1>6, <2>1
  <2>3. [i \in Ids |-> [user |-> places[i].user, value |-> places[i].data]]'
          = [[i \in Ids |-> [user |-> places[i].user, value |-> places[i].data]]
             EXCEPT ![job[w].id] = [user |-> NoUser, value |-> Missing.data]]
    BY <1>1, <2>1, <2>2 DEF Missing
  <2>4. job[w].id \in Promise!OwnedBy(job[w].user)
    BY <2>1, Outside
  <2>5. Promise!Remove(w)
    BY <1>3, <1>4, <1>5, <2>3, <2>4 DEF Promise!Remove
  <2> QED BY <2>5 DEF Promise!StoreStep, Promise!StoreNext
<1>7. CASE match = {} \/ ~Applied(outcome)
  <2>1. UNCHANGED places
    BY <1>1, <1>2, <1>7
  <2>2. CASE outcome = "ok"
    <3>1. match = {}
      BY <1>7, <2>2 DEF Applied
    <3>2. job[w].id \notin Promise!OwnedBy(job[w].user)
      BY <3>1, Outside DEF place_query_by_oid_and_user
    <3>3. Promise!NothingToWrite(w)
      BY <1>3, <1>4, <1>5, <2>1, <2>2, <3>2 DEF Promise!NothingToWrite
    <3> QED BY <3>3 DEF Promise!StoreStep, Promise!StoreNext
  <2>3. CASE outcome # "ok"
    <3>1. Promise!Failure(w)
      BY <1>3, <1>4, <1>5, <2>1, <2>3 DEF Promise!Failure
    <3> QED BY <3>1 DEF Promise!StoreStep, Promise!StoreNext
  <2> QED BY <2>2, <2>3
<1> QED BY <1>6, <1>7

\* A GET shows what its user owns at the moment of the query.
LEMMA ReadImplements ==
    ASSUME IInv, NEW w \in Workers,
           \/ place_get_by_oid_and_user_to_json(w)
           \/ places_get_all_by_user_to_json(w)
    PROVE  Promise!StoreNext
<1> DEFINE one == place_query_by_oid_and_user(job[w].id, job[w].user)
           all == place_query_by_user(job[w].user)
<1>1. /\ At(w, "get") \/ At(w, "list")
      /\ job[w].op = job[w].pc /\ job[w].found = {}
      /\ UNCHANGED <<places, owner>>
      /\ AnswerOf(w) = "pending" /\ job \in [Workers -> Jobs]
  BY DEF place_get_by_oid_and_user_to_json, places_get_all_by_user_to_json, Read,
         ReadNothing, IInv, PoolInv, Requests, KnowsItsRequest, At, AnswerOf, TypeOK
<1>2. /\ Promise!Busy(w, job[w].pc) /\ job[w].pc \in Promise!Ops
      /\ UNCHANGED Known
  BY <1>1, Outside DEF Promise!Ops, Known, At
<1>3. ASSUME NEW error \in Errors \ {"NONE"}, MoveTo(w, "respond", error)
      PROVE  Promise!StoreNext
  <2>1. "respond" \in PCs
    BY DEF PCs
  <2>2. Promise!Decided(w, "error", {})
    BY <1>1, <1>3, <2>1, GoesOn, Decides
  <2>3. Promise!Failure(w)
    BY <1>1, <1>2, <2>2 DEF Promise!Failure
  <2> QED BY <2>3 DEF Promise!StoreStep, Promise!StoreNext
<1>4. ASSUME NEW match, Read(w, match),
             \/ At(w, "get") /\ match = {job[w].id}
                /\ job[w].id \in Promise!OwnedBy(job[w].user)
             \/ At(w, "list") /\ match = Promise!OwnedBy(job[w].user)
      PROVE  Promise!StoreNext
  <2> DEFINE j == [job[w] EXCEPT !.pc = "respond", !.found = match]
  <2>1. job' = [job EXCEPT ![w] = j] /\ job[w].error = "NONE"
    BY <1>1, <1>4 DEF Read, At, IInv, PoolInv, Requests, KnowsItsRequest
  <2>2. /\ j.user = job[w].user /\ j.op = job[w].op /\ j.id = job[w].id
        /\ j.found = match /\ j.pc = "respond" /\ j.error = "NONE"
    BY <1>1, <2>1 DEF Jobs
  <2> HIDE DEF j
  <2>3. (\A x \in Workers \ {w} : job'[x] = job[x]) /\ job'[w] = j
    BY <1>1, <2>1
  <2>4. AnswerOf(w)' = "ok"
    BY <2>2, <2>3 DEF AnswerOf
  <2>5. \A x \in Workers \ {w} : AnswerOf(x)' = AnswerOf(x)
    BY <2>3 DEF AnswerOf
  <2>6. CASE At(w, "get") /\ match = {job[w].id}
             /\ job[w].id \in Promise!OwnedBy(job[w].user)
    <3>1. Promise!Busy(w, "get") /\ Promise!Decided(w, "ok", {job[w].id})
      <4>1. job[w].op = "get" /\ job'[w].found = {job[w].id}
        BY <1>1, <2>2, <2>3, <2>6 DEF At
      <4>2. Promise!Busy(w, "get")
        BY <1>1, <4>1, Outside
      <4>3. Promise!Decided(w, "ok", {job[w].id})
        BY <2>2, <2>3, <2>4, <2>5, <4>1 DEF Promise!Decided
      <4> QED BY <4>2, <4>3
    <3>2. Promise!Look(w)
      BY <1>1, <1>2, <2>6, <3>1
         DEF Promise!Look, Promise!Decided, Promise!Busy, Promise!OwnedBy
    <3> QED BY <3>2 DEF Promise!StoreStep, Promise!StoreNext
  <2>7. CASE At(w, "list") /\ match = Promise!OwnedBy(job[w].user)
    <3>1. /\ Promise!Busy(w, "list")
          /\ Promise!Decided(w, "ok", Promise!OwnedBy(job[w].user))
      <4>1. job[w].op = "list" /\ job'[w].found = Promise!OwnedBy(job[w].user)
        BY <1>1, <2>2, <2>3, <2>7 DEF At
      <4>2. Promise!Busy(w, "list")
        BY <1>1, <4>1, Outside
      <4>3. Promise!Decided(w, "ok", Promise!OwnedBy(job[w].user))
        BY <2>2, <2>3, <2>4, <2>5, <4>1 DEF Promise!Decided
      <4> QED BY <4>2, <4>3
    <3>2. Promise!Look(w)
      BY <1>1, <1>2, <3>1
         DEF Promise!Look, Promise!Decided, Promise!Busy, Promise!OwnedBy
    <3> QED BY <3>2 DEF Promise!StoreStep, Promise!StoreNext
  <2> QED BY <1>4, <2>6, <2>7
<1>5. CASE place_get_by_oid_and_user_to_json(w)
  <2>1. one # {} => one = {job[w].id} /\ job[w].id \in Promise!OwnedBy(job[w].user)
    BY Outside DEF place_query_by_oid_and_user
  <2>2. /\ At(w, "get")
        /\ \/ one # {} /\ Read(w, one)
           \/ \E error \in Errors \ {"NONE"} : MoveTo(w, "respond", error)
    BY <1>5 DEF place_get_by_oid_and_user_to_json, ReadNothing, Errors
  <2> QED BY <1>3, <1>4, <2>1, <2>2
<1>6. CASE places_get_all_by_user_to_json(w)
  <2>1. all = Promise!OwnedBy(job[w].user)
    BY Outside DEF place_query_by_user
  <2>2. /\ At(w, "list")
        /\ \/ Read(w, all)
           \/ \E error \in Errors \ {"NONE"} : MoveTo(w, "respond", error)
    BY <1>6 DEF places_get_all_by_user_to_json, ReadNothing, Errors
  <2> QED BY <1>3, <1>4, <2>1, <2>2
<1> QED BY <1>5, <1>6

LEMMA Rests ==
    ASSUME NEW w \in Workers, job[w] = Idle
    PROVE  [user |-> job[w].user, op |-> job[w].op, id |-> job[w].id,
            answer |-> AnswerOf(w), seen |-> job[w].found] = Promise!Resting
BY DEF Idle, AnswerOf, Promise!Resting, Promise!Request

LEMMA RespondImplements ==
    ASSUME IInv, NEW w \in Workers, pocket_error_send_response(w)
    PROVE  Promise!StoreNext
<1>1. /\ At(w, "respond") /\ job' = [job EXCEPT ![w] = Idle]
      /\ UNCHANGED <<places, owner>> /\ job \in [Workers -> Jobs]
  BY DEF pocket_error_send_response, IInv, PoolInv, TypeOK
<1>2. (\A x \in Workers \ {w} : job'[x] = job[x]) /\ job'[w] = Idle
  BY <1>1
<1>3. AnswerOf(w) # "pending" /\ UNCHANGED Known
  BY <1>1 DEF AnswerOf, At, Known
<1>4. /\ job'[w].user = NoUser /\ job'[w].op = "none" /\ job'[w].id = NoId
      /\ job'[w].found = {} /\ AnswerOf(w)' = "pending"
  BY <1>2 DEF Idle, AnswerOf
<1>5. \A x \in Workers \ {w} : AnswerOf(x)' = AnswerOf(x)
  BY <1>2 DEF AnswerOf
<1>6. Promise!Finish(w)
  BY <1>1, <1>2, <1>3, <1>4, <1>5 DEF Promise!Finish, Promise!Resting, Promise!Request
<1> QED BY <1>6 DEF Promise!StoreStep, Promise!StoreNext

LEMMA CrashImplements ==
    ASSUME Restarted
    PROVE  Promise!StoreNext
<1>1. UNCHANGED <<places, owner>> /\ \A w \in Workers : job'[w] = Idle
  BY DEF Restarted
<1>2. \A w \in Workers : /\ job'[w].user = NoUser /\ job'[w].op = "none"
                         /\ job'[w].id = NoId /\ job'[w].found = {}
                         /\ AnswerOf(w)' = "pending"
  BY <1>1 DEF Idle, AnswerOf
<1>3. UNCHANGED Known
  BY <1>1 DEF Known
<1>4. Promise!Crash
  BY <1>1, <1>2, <1>3 DEF Promise!Crash, Promise!Resting, Promise!Request
<1> QED BY <1>4 DEF Promise!StoreNext

LEMMA RequestImplements ==
    ASSUME IInv, NEW w \in Workers, Request(w)
    PROVE  Promise!StoreNext
<1> USE PlacesAssumption
<1>1. At(w, "idle")
  BY DEF Request, BadUser, pocket_place_create, pocket_place_update, Take,
         pocket_place_delete, pocket_place_get_handler, pocket_places_handler
<1>2. CASE BadUser(w)
  BY <1>1, <1>2, RefuseImplements DEF BadUser, Errors
<1>3. ASSUME NEW u \in Users, pocket_place_create(w, u)
      PROVE  Promise!StoreNext
  <2>1. CASE Refuse(w, u, "create", "BAD_REQUEST")
    BY <1>1, <2>1, RefuseImplements DEF Errors
  <2>2. ASSUME NEW body \in Bodies, NEW o \in pool_pop, NEW i \in FreshOid,
               job' = [job EXCEPT ![w] =
                    [Idle EXCEPT !.pc = "insert", !.op = "create", !.user = u,
                                 !.id = i, !.object = o, !.body = body]],
               UNCHANGED <<places, owner, stats>>
        PROVE  Promise!StoreNext
    <3>1. i \in Ids \ Known
      BY DEF FreshOid, Known, IInv, Ownership
    <3> QED BY <1>1, <2>2, <3>1, TakeImplements
  <2> QED BY <1>3, <2>1, <2>2 DEF pocket_place_create
<1>4. ASSUME NEW u \in Users, pocket_place_update(w, u)
      PROVE  Promise!StoreNext
  <2>1. CASE Refuse(w, u, "update", "BAD_REQUEST") \/ Refuse(w, u, "update", "NOT_FOUND")
    BY <1>1, <2>1, RefuseImplements DEF Errors
  <2>2. ASSUME NEW body \in Bodies, NEW i \in Known \cup {NoId}, NEW o \in pool_pop,
               job' = [job EXCEPT ![w] =
                    [Idle EXCEPT !.pc = "find", !.op = "update", !.user = u,
                                 !.id = i, !.object = o, !.body = body]],
               UNCHANGED <<places, issued, owner, stats>>
        PROVE  Promise!StoreNext
    <3>1. i \in Ids \cup {NoId}
      BY DEF Known
    <3> QED BY <1>1, <2>2, <3>1, TakeImplements
  <2> QED BY <1>4, <2>1, <2>2 DEF pocket_place_update
<1>5. ASSUME NEW u \in Users, NEW op \in {"delete", "get", "list"},
             NEW i \in Ids \cup {NoId}, Take(w, u, op, i)
      PROVE  Promise!StoreNext
  <2>1. /\ \A x \in Workers \ {w} : job'[x] = job[x]
        /\ job'[w].op = op /\ job'[w].user = u /\ job'[w].id = i
        /\ job'[w].found = {} /\ job'[w].pc = op
        /\ UNCHANGED <<places, owner>>
    BY <1>5 DEF Take, Idle, IInv, PoolInv, TypeOK
  <2> QED BY <1>1, <2>1, Served
<1> QED BY <1>2, <1>3, <1>4, <1>5
        DEF Request, pocket_place_delete, pocket_place_get_handler,
            pocket_places_handler, Known

-----------------------------------------------------------------------------
\* The controller is an OwnedStore for any number of users, threads, ids and
\* objects, with every failure and crash that Places allows: each request
\* takes effect at one moment, on documents of its own user, or not at all.
THEOREM Implements == Spec => ImplementsOwnedStore
<1>1. Init => Promise!StoreInit
  <2> SUFFICES ASSUME Init PROVE Promise!StoreInit
    OBVIOUS
  <2>1. /\ places = [i \in Ids |-> Missing] /\ owner = [i \in Ids |-> NoUser]
        /\ \A w \in Workers : job[w] = Idle
    BY DEF Init
  <2>2. Known = {}
    BY <2>1 DEF Known
  <2>3. [i \in Ids |-> [user |-> places[i].user, value |-> places[i].data]]
          = [i \in Ids |-> [user |-> NoUser, value |-> Missing.data]]
    BY <2>1 DEF Missing
  <2>4. [w \in Workers |->
            [user |-> job[w].user, op |-> job[w].op, id |-> job[w].id,
             answer |-> AnswerOf(w), seen |-> job[w].found]]
          = [w \in Workers |-> Promise!Resting]
    BY <2>1, Rests
  <2> QED BY <2>2, <2>3, <2>4 DEF Promise!StoreInit
<1>2. ASSUME IInv, [Next]_vars
      PROVE  [Promise!StoreNext]_Promise!storeVars
  <2>1. CASE Crash
    BY <2>1, CrashImplements DEF Crash
  <2>2. ASSUME NEW w \in Workers, Request(w)
        PROVE  Promise!StoreNext
    BY <1>2, <2>2, RequestImplements
  <2>3. ASSUME NEW w \in Workers, Continue(w)
        PROVE  Promise!StoreNext \/ UNCHANGED Promise!storeVars
    BY <1>2, <2>3, InsertImplements, UnnoticedImplements, FindImplements,
       UpdateImplements, DeleteImplements, ReadImplements, RespondImplements DEF Continue
  <2>4. CASE UNCHANGED vars
    <3>1. job' = job /\ places' = places /\ owner' = owner
      BY <2>4 DEF vars
    <3>2. Known' = Known /\ \A w \in Workers : AnswerOf(w)' = AnswerOf(w)
      BY <3>1 DEF Known, AnswerOf
    <3> QED BY <3>1, <3>2 DEF Promise!storeVars
  <2> QED BY <1>2, <2>1, <2>2, <2>3, <2>4 DEF Next
<1> QED BY <1>1, <1>2, Invariant, PTL DEF Spec, ImplementsOwnedStore, Promise!StoreSpec

=============================================================================
