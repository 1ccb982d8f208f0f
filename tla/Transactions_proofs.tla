-------------------------- MODULE Transactions_proofs --------------------------
(***************************************************************************)
(* Safety of the transactions controller for any number of users, threads, *)
(* ids, objects and categories, for every failure of the database, the     *)
(* cache and the process that Transactions allows, and whatever happens to *)
(* the categories meanwhile.                                               *)
(***************************************************************************)
EXTENDS Transactions, FiniteSetTheorems, TLAPS

\* the steps of the controller, those of the environment left out
OwnNext == Crash \/ \E w \in Workers : Request(w) \/ Continue(w)

Documents == [user : Users \cup {NoUser}, data : Data]

OwnTypeOK ==
    /\ transactions \in [Ids -> Documents]
    /\ issued \subseteq Ids
    /\ owner \in [Ids -> Users \cup {NoUser}]
    /\ stats \in [Users -> Nat]
    /\ pool \subseteq Objects
    /\ allocated \subseteq Objects
    /\ mem \in [Objects -> [oid : Ids \cup {NoId}, user : Users \cup {NoUser},
                            data : Data]]
    /\ job \in [Workers -> Jobs]

\* what a create stores
Made(body) ==
    [title |-> body.title, amount |-> json_real_value(body.amount),
     category |-> body.category, place |-> NoPlace]

\* the bodies a create accepts
Complete == {body \in Contents : body.title # Absent /\ body.category # Absent}

-----------------------------------------------------------------------------
(***************************************************************************)
(* The inductive invariant: what a handler knows at each of its calls.     *)
(***************************************************************************)

Holding == {"check", "insert", "increment", "find", "update", "return"}

\* what a worker is in the middle of
KnowsItsRequest(w) ==
    /\ job[w].pc = "idle" => job[w] = Idle
    /\ job[w].pc \in Holding => job[w].object \in allocated
    /\ job[w].pc \notin Holding => job[w].object = NoObject
    /\ job[w].pc \in {"check", "insert", "increment"} => job[w].op = "create"
    /\ job[w].pc \in {"find", "update"} => job[w].op = "update"
    /\ job[w].pc \in {"delete", "get", "list"} => job[w].op = job[w].pc
    /\ job[w].pc \notin {"idle", "respond"} => job[w].user \in Users
    /\ job[w].pc \notin {"idle", "respond"} => job[w].found = {}
    /\ job[w].pc \in {"check", "insert", "find", "update", "delete", "get", "list"} =>
          job[w].error = "NONE"

\* what is in the object a worker holds
KnowsItsObject(w) ==
    /\ job[w].pc \in {"check", "insert"} =>
          /\ job[w].body \in Complete
          /\ mem[job[w].object] = [oid |-> job[w].id, user |-> job[w].user,
                                   data |-> Made(job[w].body)]
    /\ job[w].pc = "find" =>
          /\ job[w].body # NoBody
          /\ mem[job[w].object].oid = job[w].id
    /\ job[w].pc = "update" =>
          /\ job[w].body \in Contents
          /\ mem[job[w].object].oid = job[w].id

\* what a worker knows of the collection, whatever the others do
KnowsItsDocument(w) ==
    /\ job[w].pc \in {"check", "insert"} =>
          /\ job[w].id \in issued
          /\ owner[job[w].id] = NoUser
          /\ \A x \in Workers \ {w} :
                job[x].pc \in {"check", "insert"} => job[x].id # job[w].id
    /\ job[w].pc = "update" => job[w].id \in Ids /\ owner[job[w].id] = job[w].user

Requests == \A w \in Workers : KnowsItsRequest(w)

ObjectContents == \A w \in Workers : KnowsItsObject(w)

FreeObjects ==
    /\ pool \subseteq allocated
    /\ \A o \in Objects \ allocated : mem[o] = Zeroed

Ownership ==
    /\ \A w \in Workers : KnowsItsDocument(w)
    /\ \A i \in Ids : /\ transactions[i].user \in {NoUser, owner[i]}
                      /\ transactions[i].user = NoUser => transactions[i] = Missing
                      /\ owner[i] # NoUser => i \in issued

ObjectsAreExclusive ==
    \A w \in Workers :
        /\ Held(w) \cap pool = {}
        /\ \A x \in Workers \ {w} : Held(w) \cap Held(x) = {}

FreeObjectsAreWiped == \A o \in pool : mem[o] = Zeroed

NothingLeaks == allocated = pool \cup UNION {Held(w) : w \in Workers}

PoolInv ==
    /\ OwnTypeOK
    /\ Requests
    /\ FreeObjects
    /\ ObjectsAreExclusive
    /\ FreeObjectsAreWiped
    /\ NothingLeaks
    /\ ObjectContents

IInv == PoolInv /\ Ownership

-----------------------------------------------------------------------------
\* Copying the fields of a body over those of an object gives an object.
LEMMA RealType == ASSUME NEW a PROVE json_real_value(a) \in Amounts
BY TransactionsAssumption DEF json_real_value

LEMMA MergedType ==
    ASSUME NEW data \in Data, NEW body \in Contents
    PROVE  Merged(data, body) \in Data
BY RealType DEF Merged, Given, Contents, Data

LEMMA MadeType == ASSUME NEW body \in Complete PROVE Made(body) \in Data
BY RealType, TransactionsAssumption DEF Made, Complete, Contents, Data

LEMMA BlankType == Blank \in Data
BY TransactionsAssumption DEF Blank, Data

\* a new transaction over a wiped object is made of the body alone
LEMMA FilledBlank ==
    ASSUME NEW body \in Complete
    PROVE  [Blank EXCEPT !.title = body.title,
                         !.amount = json_real_value(body.amount),
                         !.category = body.category] = Made(body)
<1> USE TransactionsAssumption
<1> DEFINE r == [Blank EXCEPT !.title = body.title,
                              !.amount = json_real_value(body.amount),
                              !.category = body.category]
<1>1. r \in Data
  <2>1. /\ body.title \in Titles /\ body.category \in CategoryIds \cup {NoId}
        /\ json_real_value(body.amount) \in Amounts
    BY RealType DEF Complete, Contents
  <2> QED BY <2>1, BlankType DEF Data
<1>2. /\ r.title = body.title /\ r.amount = json_real_value(body.amount)
      /\ r.category = body.category /\ r.place = NoPlace
  BY DEF Blank
<1> HIDE DEF r
<1>3. r = [title |-> r.title, amount |-> r.amount, category |-> r.category,
           place |-> r.place]
  BY <1>1 DEF Data
<1>4. r = Made(body)
  BY <1>2, <1>3 DEF Made
<1> QED BY <1>4 DEF r

\* At the start nothing is free, held or issued that should not be.
THEOREM InitPoolInv == Init => PoolInv
<1> SUFFICES ASSUME Init PROVE PoolInv
  OBVIOUS
<1> USE TransactionsAssumption DEF Init, InitTrans
<1>1. OwnTypeOK
  BY BlankType DEF OwnTypeOK, Documents, Missing, Zeroed, Idle, Jobs, PCs, Errors
<1>2. Requests
  BY DEF Requests, KnowsItsRequest, Idle, Holding
<1>3. ObjectContents
  BY DEF ObjectContents, KnowsItsObject, Idle
<1>4. /\ FreeObjects /\ ObjectsAreExclusive
      /\ FreeObjectsAreWiped /\ NothingLeaks
  BY DEF FreeObjects, ObjectsAreExclusive, FreeObjectsAreWiped, NothingLeaks,
     Held, Idle
<1> QED BY <1>1, <1>2, <1>3, <1>4 DEF PoolInv

-----------------------------------------------------------------------------
\* A worker goes on with its request: only its pc and its error change.
LEMMA Moved ==
    ASSUME job \in [Workers -> Jobs], NEW w \in Workers,
           NEW pc \in PCs, NEW error \in Errors, MoveTo(w, pc, error)
    PROVE  /\ job' \in [Workers -> Jobs]
           /\ \A x \in Workers \ {w} : job'[x] = job[x]
           /\ job'[w].pc = pc /\ job'[w].error = error
           /\ job'[w].op = job[w].op /\ job'[w].user = job[w].user
           /\ job'[w].id = job[w].id /\ job'[w].object = job[w].object
           /\ job'[w].body = job[w].body /\ job'[w].found = job[w].found
<1> DEFINE j == [job[w] EXCEPT !.pc = pc, !.error = error]
<1>1. j \in Jobs
  BY DEF Jobs
<1>2. job' = [job EXCEPT ![w] = j]
  BY DEF MoveTo
<1> QED BY <1>1, <1>2 DEF Jobs

\* A worker takes a request: nothing remains of the one before.
LEMMA Began ==
    ASSUME job \in [Workers -> Jobs], NEW w \in Workers, NEW j \in Jobs,
           job' = [job EXCEPT ![w] = j]
    PROVE  /\ job' \in [Workers -> Jobs]
           /\ \A x \in Workers \ {w} : job'[x] = job[x]
           /\ job'[w] = j
OBVIOUS

\* One request at a time takes, fills, or gives back an object, and the others
\* see nothing of it.
LEMMA OneRequestMoves ==
    ASSUME PoolInv, NEW w \in Workers, OwnTypeOK',
           \A x \in Workers \ {w} : job'[x] = job[x],
           Held(w)' \subseteq Held(w) \cup pool \cup (Objects \ allocated),
           pool' = (pool \cup Held(w)) \ Held(w)',
           allocated' = allocated \cup Held(w)',
           \A o \in Objects \ (Held(w) \cup Held(w)') : mem'[o] = mem[o],
           \A o \in Held(w) \ Held(w)' : mem'[o] = Zeroed,
           KnowsItsRequest(w)', KnowsItsObject(w)'
    PROVE  PoolInv'
<1> USE DEF PoolInv
<1>1. Held(w) \subseteq allocated /\ Held(w) \subseteq Objects
  BY TransactionsAssumption DEF Held, Requests, KnowsItsRequest
<1>2. \A x \in Workers \ {w} : /\ Held(x)' = Held(x)
                               /\ Held(x) \subseteq allocated
                               /\ Held(x) \cap pool = {}
                               /\ Held(x) \cap Held(w) = {}
  BY TransactionsAssumption DEF Held, Requests, KnowsItsRequest, ObjectsAreExclusive
<1>3. Requests'
  BY DEF Requests, KnowsItsRequest
<1>4. FreeObjects'
  BY <1>1 DEF FreeObjects, OwnTypeOK
<1>5. ObjectsAreExclusive'
  BY <1>1, <1>2 DEF ObjectsAreExclusive
<1>6. FreeObjectsAreWiped'
  BY <1>1 DEF FreeObjectsAreWiped, OwnTypeOK
<1>7. NothingLeaks'
  <2>1. \A o : o \in allocated' <=> o \in pool' \/ \E x \in Workers : o \in Held(x)'
    BY <1>1, <1>2 DEF NothingLeaks, FreeObjects
  <2> QED BY <2>1 DEF NothingLeaks
<1>8. ObjectContents'
  <2> SUFFICES ASSUME NEW x \in Workers \ {w} PROVE KnowsItsObject(x)'
    BY DEF ObjectContents
  <2>1. CASE job[x].pc \in Holding
    <3>1. job[x].object \in Objects \ (Held(w) \cup Held(w)')
      BY <2>1, <1>2 DEF Held, Requests, KnowsItsRequest, OwnTypeOK
    <3> QED BY <3>1 DEF ObjectContents, KnowsItsObject
  <2>2. CASE job[x].pc \notin Holding
    BY <2>2 DEF ObjectContents, KnowsItsObject, Holding
  <2> QED BY <2>1, <2>2
<1> QED BY <1>3, <1>4, <1>5, <1>6, <1>7, <1>8

\* A step that leaves pool and objects alone moves a request on if the worker
\* still holds what it held.
LEMMA OneRequestWaits ==
    ASSUME PoolInv, NEW w \in Workers, OwnTypeOK',
           \A x \in Workers \ {w} : job'[x] = job[x],
           job'[w].object = job[w].object,
           UNCHANGED <<pool, allocated, mem>>,
           KnowsItsRequest(w)', KnowsItsObject(w)'
    PROVE  PoolInv'
<1>1. Held(w)' = Held(w) /\ Held(w) \cap pool = {} /\ Held(w) \subseteq allocated
  BY TransactionsAssumption
  DEF PoolInv, Held, Requests, KnowsItsRequest, ObjectsAreExclusive
<1>2. pool' = (pool \cup Held(w)) \ Held(w)' /\ allocated' = allocated \cup Held(w)'
  BY <1>1
<1> QED BY <1>1, <1>2, OneRequestMoves

-----------------------------------------------------------------------------
(***************************************************************************)
(* Every action preserves PoolInv.                                         *)
(***************************************************************************)

LEMMA RefusePool ==
    ASSUME PoolInv, NEW w \in Workers, NEW u \in Users \cup {NoUser},
           NEW op \in {"create", "update", "delete", "get", "list"},
           NEW error \in Errors, At(w, "idle"), Refuse(w, u, op, error)
    PROVE  PoolInv'
<1> USE TransactionsAssumption
<1> DEFINE j == [Idle EXCEPT !.pc = "respond", !.op = op, !.user = u, !.error = error]
<1>1. j \in Jobs
  BY DEF Idle, Jobs, PCs, Errors
<1>2. /\ job' \in [Workers -> Jobs] /\ job'[w] = j
      /\ \A x \in Workers \ {w} : job'[x] = job[x]
  BY <1>1, Began DEF PoolInv, OwnTypeOK, Refuse
<1>3. UNCHANGED <<transactions, issued, owner, stats, pool, allocated, mem>>
  BY DEF Refuse
<1>4. OwnTypeOK'
  BY <1>2, <1>3 DEF PoolInv, OwnTypeOK
<1>5. KnowsItsRequest(w)' /\ KnowsItsObject(w)'
  BY <1>2 DEF KnowsItsRequest, KnowsItsObject, Holding, Idle
<1>6. job'[w].object = job[w].object
  BY <1>2 DEF PoolInv, Requests, KnowsItsRequest, At, Idle
<1> QED BY <1>2, <1>3, <1>4, <1>5, <1>6, OneRequestWaits

LEMMA TakePool ==
    ASSUME PoolInv, NEW w \in Workers, NEW u \in Users,
           NEW op \in {"delete", "get", "list"},
           NEW i \in Ids \cup {NoId}, Take(w, u, op, i)
    PROVE  PoolInv'
<1> USE TransactionsAssumption
<1> DEFINE j == [Idle EXCEPT !.pc = op, !.op = op, !.user = u, !.id = i]
<1>1. j \in Jobs
  BY DEF Idle, Jobs, PCs, Errors
<1>2. /\ job' \in [Workers -> Jobs] /\ job'[w] = j
      /\ \A x \in Workers \ {w} : job'[x] = job[x]
  BY <1>1, Began DEF PoolInv, OwnTypeOK, Take
<1>3. UNCHANGED <<transactions, issued, owner, stats, pool, allocated, mem>>
  BY DEF Take
<1>4. OwnTypeOK'
  BY <1>2, <1>3 DEF PoolInv, OwnTypeOK
<1>5. KnowsItsRequest(w)' /\ KnowsItsObject(w)'
  BY <1>2 DEF KnowsItsRequest, KnowsItsObject, Holding, Idle
<1>6. job'[w].object = job[w].object
  BY <1>2 DEF PoolInv, Requests, KnowsItsRequest, At, Idle, Take
<1> QED BY <1>2, <1>3, <1>4, <1>5, <1>6, OneRequestWaits

LEMMA RestartedPool ==
    ASSUME PoolInv, Restarted
    PROVE  PoolInv'
<1> USE TransactionsAssumption DEF Restarted
<1>1. OwnTypeOK'
  <2>1. Idle \in Jobs
    BY DEF Idle, Jobs, PCs, Errors
  <2> QED BY <2>1, BlankType DEF PoolInv, OwnTypeOK, Zeroed
<1>2. Requests' /\ ObjectContents'
  BY DEF Requests, KnowsItsRequest, ObjectContents, KnowsItsObject, Holding, Idle
<1>3. /\ FreeObjects' /\ ObjectsAreExclusive'
      /\ FreeObjectsAreWiped' /\ NothingLeaks'
  BY DEF FreeObjects, ObjectsAreExclusive, FreeObjectsAreWiped, NothingLeaks,
     Held, Idle
<1> QED BY <1>1, <1>2, <1>3 DEF PoolInv

LEMMA CreatePool ==
    ASSUME PoolInv, NEW w \in Workers, NEW u \in Users, pocket_trans_create(w, u)
    PROVE  PoolInv'
<1> USE TransactionsAssumption
<1>1. PICK body \in Bodies :
        \/ \E error \in Errors : Refuse(w, u, "create", error)
        \/ /\ Refusal(body) = "NONE"
           /\ \E o \in pool_pop, i \in FreshOid :
                /\ Taken(o)
                /\ issued' = issued \cup {i}
                /\ mem' = [mem EXCEPT ![o] = Filled(i, u, body, @.data)]
                /\ job' = [job EXCEPT ![w] =
                      [Idle EXCEPT !.pc = "check", !.op = "create", !.user = u,
                                   !.id = i, !.object = o, !.body = body]]
           /\ UNCHANGED <<transactions, owner, stats>>
  BY DEF pocket_trans_create, Refusal, Errors
<1>2. At(w, "idle") /\ Held(w) = {} /\ job[w] \in Jobs
  <2>1. At(w, "idle") /\ job[w] \in Jobs
    BY DEF pocket_trans_create, PoolInv, OwnTypeOK
  <2> QED BY <2>1 DEF PoolInv, Requests, KnowsItsRequest, At, Held, Idle
<1>3. CASE \E error \in Errors : Refuse(w, u, "create", error)
  BY <1>2, <1>3, RefusePool
<1>4. ASSUME Refusal(body) = "NONE", NEW o \in pool_pop, NEW i \in FreshOid,
             Taken(o), issued' = issued \cup {i},
             mem' = [mem EXCEPT ![o] = Filled(i, u, body, @.data)],
             job' = [job EXCEPT ![w] =
                        [Idle EXCEPT !.pc = "check", !.op = "create", !.user = u,
                                     !.id = i, !.object = o, !.body = body]],
             UNCHANGED <<transactions, owner, stats>>
      PROVE  PoolInv'
  <2> DEFINE j == [Idle EXCEPT !.pc = "check", !.op = "create", !.user = u,
                               !.id = i, !.object = o, !.body = body]
  <2>1. /\ o \in Objects /\ i \in Ids /\ body \in Complete
        /\ o \in pool \/ o \notin allocated
    BY <1>4 DEF pool_pop, FreshOid, PoolInv, OwnTypeOK, Complete, Refusal
  <2>2. /\ job' \in [Workers -> Jobs] /\ job'[w] = j
        /\ \A x \in Workers \ {w} : job'[x] = job[x]
    <3>1. j \in Jobs
      BY <2>1 DEF Idle, Jobs, PCs, Errors
    <3> QED BY <1>4, <3>1, Began DEF PoolInv, OwnTypeOK
  <2>3. mem[o].data = Blank
    BY <1>4 DEF pool_pop, PoolInv, FreeObjects, FreeObjectsAreWiped, Zeroed
  <2>4. Filled(i, u, body, mem[o].data) =
          [oid |-> i, user |-> u, data |-> Made(body)]
    BY <2>1, <2>3, FilledBlank DEF Filled
  <2>5. OwnTypeOK'
    <3>1. mem' \in [Objects -> [oid : Ids \cup {NoId}, user : Users \cup {NoUser},
                                data : Data]]
      BY <1>4, <2>1, <2>4, MadeType DEF PoolInv, OwnTypeOK
    <3> QED BY <1>4, <2>1, <2>2, <3>1 DEF PoolInv, OwnTypeOK, Taken
  <2>6. Held(w)' = {o}
    BY <2>1, <2>2 DEF Held, Idle
  <2>7. KnowsItsRequest(w)' /\ KnowsItsObject(w)'
    <3>1. mem'[o] = [oid |-> i, user |-> u, data |-> Made(body)]
      BY <1>4, <2>1, <2>4 DEF PoolInv, OwnTypeOK
    <3> QED BY <1>4, <2>1, <2>2, <3>1
        DEF KnowsItsRequest, KnowsItsObject, Holding, Idle, Taken
  <2> QED BY <1>2, <1>4, <2>1, <2>2, <2>5, <2>6, <2>7, OneRequestMoves
      DEF Taken, PoolInv, OwnTypeOK
<1> QED BY <1>1, <1>3, <1>4

LEMMA CheckPool ==
    ASSUME PoolInv, NEW w \in Workers, pocket_category_belongs_to_user(w)
    PROVE  PoolInv'
<1> USE TransactionsAssumption
<1>1. job[w].object \in Objects /\ At(w, "check")
  BY DEF pocket_category_belongs_to_user, At, PoolInv, OwnTypeOK, Requests,
     KnowsItsRequest, Holding
<1>2. UNCHANGED <<transactions, issued, owner, stats, pool, allocated, mem>>
  BY DEF pocket_category_belongs_to_user
<1>3. MoveTo(w, "insert", "NONE") \/ MoveTo(w, "return", "NOT_FOUND")
  BY DEF pocket_category_belongs_to_user, NotFound
<1>4. /\ job' \in [Workers -> Jobs]
      /\ \A x \in Workers \ {w} : job'[x] = job[x]
      /\ \/ job'[w].pc = "insert" /\ job'[w].error = "NONE"
         \/ job'[w].pc = "return"
      /\ job'[w].op = job[w].op /\ job'[w].user = job[w].user
      /\ job'[w].id = job[w].id /\ job'[w].object = job[w].object
      /\ job'[w].body = job[w].body /\ job'[w].found = job[w].found
  BY <1>3, Moved DEF PoolInv, OwnTypeOK, PCs, Errors
<1>5. OwnTypeOK'
  BY <1>2, <1>4 DEF PoolInv, OwnTypeOK
<1>6. KnowsItsRequest(w)' /\ KnowsItsObject(w)'
  BY <1>1, <1>2, <1>4
  DEF PoolInv, Requests, KnowsItsRequest, ObjectContents, KnowsItsObject, Holding, At
<1> QED BY <1>2, <1>4, <1>5, <1>6, OneRequestWaits

LEMMA InsertPool ==
    ASSUME PoolInv, NEW w \in Workers, transaction_insert_one(w)
    PROVE  PoolInv'
<1> USE TransactionsAssumption
<1>1. job[w].object \in Objects /\ At(w, "insert")
  BY DEF transaction_insert_one, At, PoolInv, OwnTypeOK, Requests, KnowsItsRequest, Holding
<1>2. PICK outcome \in DbOutcomes :
        /\ IF Applied(outcome)
           THEN /\ transactions' = [transactions EXCEPT ![mem[job[w].object].oid] =
                                     transaction_to_bson(mem[job[w].object])]
                /\ owner' = [owner EXCEPT ![mem[job[w].object].oid] =
                                mem[job[w].object].user]
           ELSE UNCHANGED <<transactions, owner>>
        /\ MoveTo(w, AfterInsert(outcome), ErrorOf(outcome, "SERVER_ERROR"))
  BY DEF transaction_insert_one
<1>3. UNCHANGED <<issued, stats, pool, allocated, mem>>
  BY DEF transaction_insert_one
<1>4. /\ AfterInsert(outcome) \in {"increment", "return"}
      /\ ErrorOf(outcome, "SERVER_ERROR") \in {"NONE", "SERVER_ERROR"}
  BY DEF AfterInsert, ErrorOf
<1>5. /\ job' \in [Workers -> Jobs]
      /\ \A x \in Workers \ {w} : job'[x] = job[x]
      /\ job'[w].pc \in {"increment", "return"}
      /\ job'[w].op = job[w].op /\ job'[w].user = job[w].user
      /\ job'[w].object = job[w].object /\ job'[w].found = job[w].found
  BY <1>2, <1>4, Moved DEF PoolInv, OwnTypeOK, PCs, Errors
<1>6. OwnTypeOK'
  <2>1. transactions' \in [Ids -> Documents]
    BY <1>1, <1>2 DEF PoolInv, OwnTypeOK, Documents, transaction_to_bson
  <2>2. owner' \in [Ids -> Users \cup {NoUser}]
    BY <1>1, <1>2 DEF PoolInv, OwnTypeOK
  <2> QED BY <2>1, <2>2, <1>3, <1>5 DEF PoolInv, OwnTypeOK
<1>7. KnowsItsRequest(w)' /\ KnowsItsObject(w)'
  BY <1>1, <1>3, <1>5
  DEF PoolInv, Requests, KnowsItsRequest, KnowsItsObject, Holding, At
<1> QED BY <1>3, <1>5, <1>6, <1>7, OneRequestWaits

LEMMA IncrementPool ==
    ASSUME PoolInv, NEW w \in Workers, pocket_cache_user_increment_transactions(w)
    PROVE  PoolInv'
<1> USE TransactionsAssumption
<1>1. /\ At(w, "increment") /\ MoveTo(w, "return", job[w].error)
      /\ UNCHANGED <<transactions, issued, owner, pool, allocated, mem>>
      /\ stats' \in [Users -> Nat]
  BY DEF pocket_cache_user_increment_transactions, PoolInv, OwnTypeOK
<1>2. job[w].error \in Errors
  BY DEF PoolInv, OwnTypeOK, Jobs
<1>3. /\ job' \in [Workers -> Jobs]
      /\ \A x \in Workers \ {w} : job'[x] = job[x]
      /\ job'[w].pc = "return"
      /\ job'[w].op = job[w].op /\ job'[w].user = job[w].user
      /\ job'[w].object = job[w].object /\ job'[w].found = job[w].found
  BY <1>1, <1>2, Moved DEF PoolInv, OwnTypeOK, PCs
<1>4. OwnTypeOK'
  BY <1>1, <1>3 DEF PoolInv, OwnTypeOK
<1>5. KnowsItsRequest(w)' /\ KnowsItsObject(w)'
  BY <1>1, <1>3
  DEF PoolInv, Requests, KnowsItsRequest, KnowsItsObject, Holding, At
<1> QED BY <1>1, <1>3, <1>4, <1>5, OneRequestWaits

LEMMA ReturnPool ==
    ASSUME PoolInv, NEW w \in Workers, pocket_trans_return(w)
    PROVE  PoolInv'
<1> USE TransactionsAssumption
<1> DEFINE j == [job[w] EXCEPT !.pc = "respond", !.object = NoObject, !.body = NoBody]
<1>1. job[w].object \in Objects /\ At(w, "return") /\ Held(w) = {job[w].object}
  BY DEF pocket_trans_return, At, PoolInv, OwnTypeOK, Requests, KnowsItsRequest,
     Holding, Held
<1>2. j \in Jobs
  <2>1. job[w] \in Jobs
    BY DEF PoolInv, OwnTypeOK
  <2> QED BY <2>1 DEF Jobs, PCs
<1>3. /\ job' = [job EXCEPT ![w] = j]
      /\ mem' = [mem EXCEPT ![job[w].object] = Zeroed]
      /\ pool' = pool \cup {job[w].object}
      /\ UNCHANGED <<transactions, issued, owner, stats, allocated>>
  BY DEF pocket_trans_return, Returned
<1>4. /\ job' \in [Workers -> Jobs] /\ job'[w] = j
      /\ \A x \in Workers \ {w} : job'[x] = job[x]
  BY <1>2, <1>3, Began DEF PoolInv, OwnTypeOK
<1>5. OwnTypeOK'
  BY <1>1, <1>3, <1>4, BlankType DEF PoolInv, OwnTypeOK, Zeroed
<1>6. /\ job'[w].pc = "respond" /\ job'[w].object = NoObject
  BY <1>2, <1>4 DEF Jobs
<1>7. KnowsItsRequest(w)' /\ KnowsItsObject(w)'
  BY <1>6 DEF KnowsItsRequest, KnowsItsObject, Holding
<1>8. Held(w)' = {}
  BY <1>6 DEF Held
<1>9. mem'[job[w].object] = Zeroed
  BY <1>1, <1>3 DEF PoolInv, OwnTypeOK
<1> QED BY <1>1, <1>3, <1>4, <1>5, <1>7, <1>8, <1>9, OneRequestMoves DEF PoolInv, OwnTypeOK

LEMMA UpdatePool ==
    ASSUME PoolInv, NEW w \in Workers, NEW u \in Users, pocket_trans_update(w, u)
    PROVE  PoolInv'
<1> USE TransactionsAssumption
<1>1. PICK body \in Bodies, i \in Known \cup {NoId} :
        \/ \E error \in Errors : Refuse(w, u, "update", error)
        \/ /\ body # NoBody
           /\ \E o \in pool_pop :
                /\ Taken(o)
                /\ mem' = [mem EXCEPT ![o].oid = i]
                /\ job' = [job EXCEPT ![w] =
                      [Idle EXCEPT !.pc = "find", !.op = "update", !.user = u,
                                   !.id = i, !.object = o, !.body = body]]
           /\ UNCHANGED <<transactions, issued, owner, stats>>
  BY DEF pocket_trans_update, Errors
<1>2. At(w, "idle") /\ Held(w) = {}
  <2>1. At(w, "idle")
    BY DEF pocket_trans_update
  <2> QED BY <2>1 DEF PoolInv, Requests, KnowsItsRequest, At, Held, Idle
<1>3. CASE \E error \in Errors : Refuse(w, u, "update", error)
  BY <1>2, <1>3, RefusePool
<1>4. ASSUME body # NoBody, NEW o \in pool_pop, Taken(o),
             mem' = [mem EXCEPT ![o].oid = i],
             job' = [job EXCEPT ![w] =
                        [Idle EXCEPT !.pc = "find", !.op = "update", !.user = u,
                                     !.id = i, !.object = o, !.body = body]],
             UNCHANGED <<transactions, issued, owner, stats>>
      PROVE  PoolInv'
  <2> DEFINE j == [Idle EXCEPT !.pc = "find", !.op = "update", !.user = u,
                               !.id = i, !.object = o, !.body = body]
  <2>1. o \in Objects /\ i \in Ids \cup {NoId} /\ (o \in pool \/ o \notin allocated)
    BY <1>4 DEF pool_pop, Known, PoolInv, OwnTypeOK
  <2>2. /\ job' \in [Workers -> Jobs] /\ job'[w] = j
        /\ \A x \in Workers \ {w} : job'[x] = job[x]
    <3>1. j \in Jobs
      BY <2>1 DEF Idle, Jobs, PCs, Errors
    <3> QED BY <1>4, <3>1, Began DEF PoolInv, OwnTypeOK
  <2>3. OwnTypeOK'
    <3>1. mem' \in [Objects -> [oid : Ids \cup {NoId}, user : Users \cup {NoUser},
                                data : Data]]
      BY <1>4, <2>1 DEF PoolInv, OwnTypeOK
    <3>2. pool' \subseteq Objects /\ allocated' \subseteq Objects
      BY <1>4, <2>1 DEF PoolInv, OwnTypeOK, Taken
    <3> QED BY <1>4, <2>2, <3>1, <3>2 DEF PoolInv, OwnTypeOK
  <2>4. Held(w)' = {o}
    BY <2>1, <2>2 DEF Held, Idle
  <2>5. KnowsItsRequest(w)' /\ KnowsItsObject(w)'
    <3>1. mem'[o].oid = i
      BY <1>4, <2>1 DEF PoolInv, OwnTypeOK
    <3> QED BY <1>4, <2>1, <2>2, <3>1
        DEF KnowsItsRequest, KnowsItsObject, Holding, Idle, Taken
  <2> QED BY <1>2, <1>4, <2>1, <2>2, <2>3, <2>4, <2>5, OneRequestMoves
      DEF Taken, PoolInv, OwnTypeOK
<1> QED BY <1>1, <1>3, <1>4

LEMMA FindPool ==
    ASSUME PoolInv, NEW w \in Workers, transaction_get_by_oid_and_user(w)
    PROVE  PoolInv'
<1> USE TransactionsAssumption
<1> DEFINE o == job[w].object
<1>1. /\ At(w, "find") /\ o \in Objects /\ o \in allocated
      /\ job[w].body \in Bodies \ {NoBody}
  <2>1. At(w, "find") /\ job[w] \in Jobs
    BY DEF transaction_get_by_oid_and_user, PoolInv, OwnTypeOK
  <2> QED BY <2>1
      DEF At, PoolInv, Requests, KnowsItsRequest, ObjectContents, KnowsItsObject,
          Holding, Jobs, OwnTypeOK
<1>2. UNCHANGED <<transactions, issued, owner, stats, pool, allocated>>
  BY DEF transaction_get_by_oid_and_user
<1>3. Held(w) = {o} /\ o \notin pool
  BY <1>1 DEF Held, PoolInv, ObjectsAreExclusive
<1>4. PICK c \in {mem[o]} \cup {trans_doc_parse(i) : i \in Ids} :
        \/ /\ mem' = [mem EXCEPT ![o] = c]
           /\ \E error \in Errors : MoveTo(w, "return", error)
        \/ /\ job[w].body # Malformed
           /\ \E i \in Ids : c = trans_doc_parse(i) /\ i = mem[o].oid
           /\ mem' = [mem EXCEPT ![o] = [c EXCEPT !.data = Merged(@, job[w].body)]]
           /\ MoveTo(w, "update", "NONE")
  <2>1. CASE NotFound(w) /\ UNCHANGED mem
    <3>1. mem' = [mem EXCEPT ![o] = mem[o]]
      BY <2>1 DEF PoolInv, OwnTypeOK
    <3> QED BY <2>1, <3>1 DEF NotFound, Errors
  <2>2. ASSUME NEW i \in Ids, i = mem[o].oid,
               mem' = [mem EXCEPT ![o] = trans_doc_parse(i)],
               MoveTo(w, "return", "NONE")
        PROVE  \E error \in Errors : MoveTo(w, "return", error)
    BY <2>2 DEF Errors
  <2> QED BY <2>1, <2>2
      DEF transaction_get_by_oid_and_user, transaction_query_by_oid_and_user
<1>5. c \in [oid : Ids \cup {NoId}, user : Users \cup {NoUser},
             data : Data]
  BY <1>1 DEF trans_doc_parse, PoolInv, OwnTypeOK, Documents
<1>6. CASE \E error \in Errors : /\ mem' = [mem EXCEPT ![o] = c]
                                 /\ MoveTo(w, "return", error)
  <2>1. /\ job' \in [Workers -> Jobs]
        /\ \A x \in Workers \ {w} : job'[x] = job[x]
        /\ job'[w].pc = "return" /\ job'[w].object = o
        /\ job'[w].user = job[w].user /\ job'[w].found = job[w].found
    BY <1>6, Moved DEF PoolInv, OwnTypeOK, PCs
  <2>2. OwnTypeOK'
    BY <1>1, <1>2, <1>5, <1>6, <2>1 DEF PoolInv, OwnTypeOK
  <2>3. KnowsItsRequest(w)' /\ KnowsItsObject(w)'
    BY <1>1, <1>2, <2>1
    DEF PoolInv, Requests, KnowsItsRequest, KnowsItsObject, Holding, At
  <2>4. Held(w)' = {o}
    BY <1>1, <2>1 DEF Held
  <2>5. \A x \in Objects \ {o} : mem'[x] = mem[x]
    BY <1>6 DEF PoolInv, OwnTypeOK
  <2> QED BY <1>1, <1>2, <1>3, <2>1, <2>2, <2>3, <2>4, <2>5, OneRequestMoves
<1>7. CASE /\ job[w].body # Malformed
           /\ \E i \in Ids : c = trans_doc_parse(i) /\ i = mem[o].oid
           /\ mem' = [mem EXCEPT ![o] = [c EXCEPT !.data = Merged(@, job[w].body)]]
           /\ MoveTo(w, "update", "NONE")
  <2>1. /\ job' \in [Workers -> Jobs]
        /\ \A x \in Workers \ {w} : job'[x] = job[x]
        /\ job'[w].pc = "update" /\ job'[w].object = o
        /\ job'[w].error = "NONE" /\ job'[w].op = job[w].op
        /\ job'[w].id = job[w].id /\ job'[w].body = job[w].body
        /\ job'[w].user = job[w].user /\ job'[w].found = job[w].found
    BY <1>7, Moved DEF PoolInv, OwnTypeOK, PCs, Errors
  <2>2. job[w].body \in Contents
    BY <1>1, <1>7 DEF Contents
  <2>3. OwnTypeOK'
    <3>1. [c EXCEPT !.data = Merged(@, job[w].body)]
            \in [oid : Ids \cup {NoId}, user : Users \cup {NoUser},
                 data : Data]
      BY <1>5, <2>2, MergedType
    <3> QED BY <1>1, <1>2, <1>7, <2>1, <3>1 DEF PoolInv, OwnTypeOK
  <2>4. mem'[o].oid = job[w].id
    <3>1. mem[o].oid = job[w].id
      BY <1>1 DEF At, PoolInv, ObjectContents, KnowsItsObject
    <3>2. mem'[o] = [c EXCEPT !.data = Merged(@, job[w].body)] /\ c.oid = mem[o].oid
      BY <1>1, <1>7 DEF trans_doc_parse, PoolInv, OwnTypeOK
    <3> QED BY <1>5, <3>1, <3>2
  <2>5. KnowsItsRequest(w)' /\ KnowsItsObject(w)'
    BY <1>1, <1>2, <2>1, <2>2, <2>4
    DEF PoolInv, Requests, KnowsItsRequest, KnowsItsObject, Holding, At
  <2>6. Held(w)' = {o}
    BY <1>1, <2>1 DEF Held
  <2>7. \A x \in Objects \ {o} : mem'[x] = mem[x]
    BY <1>7 DEF PoolInv, OwnTypeOK
  <2> QED BY <1>1, <1>2, <1>3, <2>1, <2>3, <2>5, <2>6, <2>7, OneRequestMoves
<1> QED BY <1>4, <1>6, <1>7

LEMMA UpdateOnePool ==
    ASSUME PoolInv, NEW w \in Workers, transaction_update_one(w)
    PROVE  PoolInv'
<1> USE TransactionsAssumption
<1>1. At(w, "update") /\ job[w].object \in Objects
  BY DEF transaction_update_one, At, PoolInv, OwnTypeOK, Requests, KnowsItsRequest, Holding
<1>2. /\ UNCHANGED <<issued, owner, stats, pool, allocated, mem>>
      /\ \E error \in Errors : MoveTo(w, "return", error)
  BY DEF transaction_update_one, ErrorOf, Errors
<1>3. /\ job' \in [Workers -> Jobs]
      /\ \A x \in Workers \ {w} : job'[x] = job[x]
      /\ job'[w].pc = "return" /\ job'[w].object = job[w].object
      /\ job'[w].user = job[w].user /\ job'[w].found = job[w].found
  BY <1>2, Moved DEF PoolInv, OwnTypeOK, PCs
<1>4. OwnTypeOK'
  <2>1. transactions' \in [Ids -> Documents]
    <3> DEFINE c == mem[job[w].object]
    <3>1. \A i \in Ids : /\ transactions[i] \in Documents
                         /\ [transactions[i] EXCEPT !.data = c.data] \in Documents
      BY <1>1 DEF PoolInv, OwnTypeOK, Documents
    <3>2. \E S \in SUBSET Ids : transactions' =
            [i \in Ids |-> IF i \in S THEN [transactions[i] EXCEPT !.data = c.data]
                                     ELSE transactions[i]]
      <4>1. PICK outcome \in Outcomes(transaction_query_oid(c.oid)) : transactions' =
              [i \in Ids |->
                  IF i \in transaction_query_oid(c.oid) /\ Applied(outcome)
                  THEN [transactions[i] EXCEPT !.data = c.data] ELSE transactions[i]]
        BY DEF transaction_update_one
      <4> DEFINE S == {i \in transaction_query_oid(c.oid) : Applied(outcome)}
      <4>2. S \in SUBSET Ids
        BY DEF transaction_query_oid
      <4>3. transactions' =
              [i \in Ids |-> IF i \in S THEN [transactions[i] EXCEPT !.data = c.data]
                                       ELSE transactions[i]]
        BY <4>1
      <4> QED BY <4>2, <4>3
    <3> QED BY <3>1, <3>2
  <2> QED BY <1>2, <1>3, <2>1 DEF PoolInv, OwnTypeOK
<1>5. KnowsItsRequest(w)' /\ KnowsItsObject(w)'
  BY <1>1, <1>2, <1>3
  DEF PoolInv, Requests, KnowsItsRequest, KnowsItsObject, Holding, At
<1> QED BY <1>2, <1>3, <1>4, <1>5, OneRequestWaits

\* DELETE and GET go from their query straight to the answer
LEMMA QueriedPool ==
    ASSUME PoolInv, NEW w \in Workers, job[w].pc \in {"delete", "get", "list"},
           transactions' \in [Ids -> Documents],
           UNCHANGED <<issued, owner, stats, pool, allocated, mem>>,
           job' \in [Workers -> Jobs],
           \A x \in Workers \ {w} : job'[x] = job[x],
           job'[w].pc = "respond", job'[w].object = job[w].object
    PROVE  PoolInv'
<1>1. OwnTypeOK'
  BY DEF PoolInv, OwnTypeOK
<1>2. KnowsItsRequest(w)' /\ KnowsItsObject(w)'
  BY DEF PoolInv, Requests, KnowsItsRequest, KnowsItsObject, Holding
<1> QED BY <1>1, <1>2, OneRequestWaits

LEMMA DeleteOnePool ==
    ASSUME PoolInv, NEW w \in Workers, transaction_delete_one_by_oid_and_user(w)
    PROVE  PoolInv'
<1>1. /\ At(w, "delete") /\ UNCHANGED <<issued, owner, stats, pool, allocated, mem>>
      /\ \E error \in Errors : MoveTo(w, "respond", error)
  BY DEF transaction_delete_one_by_oid_and_user, ErrorOf, Errors
<1>2. /\ job' \in [Workers -> Jobs]
      /\ \A x \in Workers \ {w} : job'[x] = job[x]
      /\ job'[w].pc = "respond" /\ job'[w].object = job[w].object
  BY <1>1, Moved DEF PoolInv, OwnTypeOK, PCs
<1>3. transactions' \in [Ids -> Documents]
  BY BlankType DEF transaction_delete_one_by_oid_and_user, PoolInv, OwnTypeOK, Documents,
     Missing
<1> QED BY <1>1, <1>2, <1>3, QueriedPool DEF At

LEMMA ReadPool ==
    ASSUME PoolInv, NEW w \in Workers, job[w].pc \in {"get", "list"},
           NEW match \in SUBSET Ids,
           Read(w, match) \/ \E error \in Errors : ReadNothing(w, match, error)
    PROVE  PoolInv'
<1> DEFINE j == [job[w] EXCEPT !.pc = "respond", !.found = match]
<1>1. UNCHANGED <<transactions, issued, owner, stats, pool, allocated, mem>>
  BY DEF Read, ReadNothing
<1>2. job[w] \in Jobs /\ transactions' \in [Ids -> Documents]
  BY <1>1 DEF PoolInv, OwnTypeOK
<1>3. j \in Jobs /\ j.pc = "respond" /\ j.object = job[w].object
  BY <1>2 DEF Jobs, PCs
<1>4. CASE Read(w, match)
  <2>1. job' = [job EXCEPT ![w] = j]
    BY <1>4 DEF Read
  <2>2. /\ job' \in [Workers -> Jobs] /\ job'[w] = j
        /\ \A x \in Workers \ {w} : job'[x] = job[x]
    BY <1>3, <2>1, Began DEF PoolInv, OwnTypeOK
  <2> QED BY <1>1, <1>2, <1>3, <2>2, QueriedPool
<1>5. CASE \E error \in Errors : ReadNothing(w, match, error)
  <2>1. /\ job' \in [Workers -> Jobs]
        /\ \A x \in Workers \ {w} : job'[x] = job[x]
        /\ job'[w].pc = "respond" /\ job'[w].object = job[w].object
    BY <1>5, Moved DEF ReadNothing, PoolInv, OwnTypeOK, PCs
  <2> QED BY <1>1, <1>2, <2>1, QueriedPool
<1> QED BY <1>4, <1>5

LEMMA RespondPool ==
    ASSUME PoolInv, NEW w \in Workers, pocket_error_send_response(w)
    PROVE  PoolInv'
<1> USE TransactionsAssumption
<1>1. /\ UNCHANGED <<transactions, issued, owner, stats, pool, allocated, mem>>
      /\ At(w, "respond") /\ job' = [job EXCEPT ![w] = Idle]
  BY DEF pocket_error_send_response
<1>2. /\ job' \in [Workers -> Jobs] /\ job'[w] = Idle
      /\ \A x \in Workers \ {w} : job'[x] = job[x]
  <2>1. Idle \in Jobs
    BY DEF Idle, Jobs, PCs, Errors
  <2> QED BY <1>1, <2>1, Began DEF PoolInv, OwnTypeOK
<1>3. OwnTypeOK'
  BY <1>1, <1>2 DEF PoolInv, OwnTypeOK
<1>4. job'[w].object = job[w].object
  BY <1>1, <1>2 DEF PoolInv, Requests, KnowsItsRequest, Holding, At, Idle
<1>5. KnowsItsRequest(w)' /\ KnowsItsObject(w)'
  BY <1>2 DEF KnowsItsRequest, KnowsItsObject, Holding, Idle
<1> QED BY <1>1, <1>2, <1>3, <1>4, <1>5, OneRequestWaits

-----------------------------------------------------------------------------
LEMMA NextPoolInv ==
    ASSUME PoolInv, OwnNext
    PROVE  PoolInv'
<1>1. CASE Crash
  BY <1>1, RestartedPool DEF Crash
<1>2. ASSUME NEW w \in Workers, Request(w)
      PROVE  PoolInv'
  <2>1. CASE BadUser(w)
    BY <2>1, RefusePool DEF BadUser, Errors
  <2>2. ASSUME NEW u \in Users, pocket_trans_create(w, u)
        PROVE  PoolInv'
    BY <2>2, CreatePool
  <2>3. ASSUME NEW u \in Users, pocket_trans_update(w, u)
        PROVE  PoolInv'
    BY <2>3, UpdatePool
  <2>4. ASSUME NEW u \in Users, NEW op \in {"delete", "get", "list"},
               NEW i \in Ids \cup {NoId}, Take(w, u, op, i)
        PROVE  PoolInv'
    BY <2>4, TakePool
  <2> QED BY <1>2, <2>1, <2>2, <2>3, <2>4
      DEF Request, pocket_trans_delete, pocket_transaction_get_handler,
          pocket_transactions_handler, Known
<1>3. ASSUME NEW w \in Workers, Continue(w)
      PROVE  PoolInv'
  <2>1. CASE transaction_insert_one(w)
    BY <2>1, InsertPool
  <2>2. CASE pocket_cache_user_increment_transactions(w)
    BY <2>2, IncrementPool
  <2>3. CASE pocket_trans_return(w)
    BY <2>3, ReturnPool
  <2>4. CASE transaction_get_by_oid_and_user(w)
    BY <2>4, FindPool
  <2>5. CASE transaction_update_one(w)
    BY <2>5, UpdateOnePool
  <2>6. CASE transaction_delete_one_by_oid_and_user(w)
    BY <2>6, DeleteOnePool
  <2>7. CASE transaction_get_by_oid_and_user_to_json(w)
    <3>1. transaction_query_by_oid_and_user(job[w].id, job[w].user) \in SUBSET Ids
      BY DEF transaction_query_by_oid_and_user
    <3> QED BY <2>7, <3>1, ReadPool DEF transaction_get_by_oid_and_user_to_json, Errors, At
  <2>8. CASE transactions_get_all_by_user_to_json(w)
    <3>1. transaction_query_user(job[w].user) \in SUBSET Ids
      BY DEF transaction_query_user
    <3> QED BY <2>8, <3>1, ReadPool DEF transactions_get_all_by_user_to_json, Errors, At
  <2>9. CASE pocket_error_send_response(w)
    BY <2>9, RespondPool
  <2>10. CASE pocket_category_belongs_to_user(w)
    BY <2>10, CheckPool
  <2> QED BY <1>3, <2>1, <2>2, <2>3, <2>4, <2>5, <2>6, <2>7, <2>8, <2>9,
         <2>10 DEF Continue
<1> QED BY <1>1, <1>2, <1>3 DEF OwnNext

LEMMA StepPoolInv ==
    ASSUME PoolInv, [Next]_vars
    PROVE  PoolInv'
<1>1. CASE OwnNext
  BY <1>1, NextPoolInv
<1>2. CASE UNCHANGED transVars
  BY <1>2
  DEF transVars, PoolInv, OwnTypeOK, Requests, KnowsItsRequest, FreeObjects,
      ObjectsAreExclusive, FreeObjectsAreWiped, NothingLeaks, Held,
      ObjectContents, KnowsItsObject
<1> QED BY <1>1, <1>2 DEF Next, OwnNext, vars, transVars

\* The pool of Transaction objects and the memory of the requests are sound in
\* every reachable state.
THEOREM PoolInvariant == Spec => []PoolInv
BY InitPoolInv, StepPoolInv, PTL DEF Spec

\* However threads interleave in trans_pool, no two requests work on one
\* Transaction object, a free one carries nothing of the request that used it, and
\* no path through a handler loses one.
THEOREM PoolHolds == Spec => []PoolIsSound
<1>1. PoolInv => PoolIsSound
  BY DEF PoolInv, PoolIsSound, ObjectsAreExclusive, FreeObjectsAreWiped, NothingLeaks
<1> QED BY <1>1, PoolInvariant, PTL

-----------------------------------------------------------------------------
(***************************************************************************)
(* What the three writes do to the collection.                             *)
(***************************************************************************)

LEMMA InsertEffect ==
    ASSUME IInv, NEW w \in Workers, transaction_insert_one(w)
    PROVE  /\ job[w].pc = "insert" /\ job[w].id \in Ids /\ job[w].user \in Users
           /\ owner[job[w].id] = NoUser
           /\ \A x \in Workers \ {w} : job'[x] = job[x]
           /\ job'[w].pc \in {"increment", "return"}
           /\ issued' = issued
           /\ \/ UNCHANGED <<transactions, owner>>
              \/ /\ transactions' = [transactions EXCEPT ![job[w].id] =
                        [user |-> job[w].user, data |-> Made(job[w].body)]]
                 /\ owner' = [owner EXCEPT ![job[w].id] = job[w].user]
<1> USE DEF IInv, PoolInv
<1>1. /\ At(w, "insert") /\ issued' = issued /\ job \in [Workers -> Jobs]
      /\ job[w].user \in Users
  BY DEF transaction_insert_one, OwnTypeOK, Requests, KnowsItsRequest, At
<1>2. /\ job[w].id \in Ids /\ owner[job[w].id] = NoUser
      /\ mem[job[w].object] = [oid |-> job[w].id, user |-> job[w].user,
                               data |-> Made(job[w].body)]
  BY <1>1 DEF At, Ownership, KnowsItsDocument, ObjectContents, KnowsItsObject, OwnTypeOK
<1>3. \E outcome \in DbOutcomes :
         MoveTo(w, AfterInsert(outcome), ErrorOf(outcome, "SERVER_ERROR"))
  BY DEF transaction_insert_one
<1>4. /\ \A x \in Workers \ {w} : job'[x] = job[x]
      /\ job'[w].pc \in {"increment", "return"}
  BY <1>1, <1>3, Moved DEF AfterInsert, ErrorOf, PCs, Errors
<1>5. \/ UNCHANGED <<transactions, owner>>
      \/ /\ transactions' = [transactions EXCEPT ![job[w].id] =
               [user |-> job[w].user, data |-> Made(job[w].body)]]
         /\ owner' = [owner EXCEPT ![job[w].id] = job[w].user]
  BY <1>2 DEF transaction_insert_one, transaction_to_bson
<1> QED BY <1>1, <1>2, <1>4, <1>5 DEF At

LEMMA UpdateEffect ==
    ASSUME IInv, NEW w \in Workers, transaction_update_one(w)
    PROVE  /\ job[w].pc = "update" /\ job[w].id \in Ids /\ job[w].user \in Users
           /\ owner[job[w].id] = job[w].user
           /\ \A x \in Workers \ {w} : job'[x] = job[x]
           /\ job'[w].pc = "return"
           /\ UNCHANGED <<issued, owner>>
           /\ \/ UNCHANGED transactions
              \/ /\ transactions[job[w].id].user = job[w].user
                 /\ transactions' = [transactions EXCEPT ![job[w].id].data =
                                      mem[job[w].object].data]
<1> USE DEF IInv, PoolInv
<1>1. /\ At(w, "update") /\ UNCHANGED <<issued, owner>> /\ job \in [Workers -> Jobs]
      /\ transactions \in [Ids -> Documents]
      /\ job[w].user \in Users
  BY DEF transaction_update_one, OwnTypeOK, Requests, KnowsItsRequest, At
<1>2. /\ job[w].id \in Ids /\ owner[job[w].id] = job[w].user
      /\ mem[job[w].object].oid = job[w].id
  BY <1>1 DEF At, Ownership, KnowsItsDocument, ObjectContents, KnowsItsObject
<1>3. PICK outcome \in Outcomes(transaction_query_oid(job[w].id)) :
        /\ transactions' = [i \in Ids |->
              IF i \in transaction_query_oid(job[w].id) /\ Applied(outcome)
              THEN [transactions[i] EXCEPT !.data = mem[job[w].object].data]
              ELSE transactions[i]]
        /\ MoveTo(w, "return", ErrorOf(outcome, "SERVER_ERROR"))
  BY <1>2 DEF transaction_update_one
<1>4. \A x \in Workers \ {w} : job'[x] = job[x]
  BY <1>1, <1>3, Moved DEF ErrorOf, PCs, Errors
<1>5. job'[w].pc = "return"
  BY <1>1, <1>3, Moved DEF ErrorOf, PCs, Errors
<1>6. CASE job[w].id \in transaction_query_oid(job[w].id) /\ Applied(outcome)
  <2>1. transactions[job[w].id].user = job[w].user
    BY <1>2, <1>6 DEF transaction_query_oid, Ownership
  <2>2. transactions' = [transactions EXCEPT ![job[w].id].data =
                          mem[job[w].object].data]
    BY <1>1, <1>2, <1>3, <1>6 DEF transaction_query_oid
  <2> QED BY <1>1, <1>2, <1>4, <1>5, <2>1, <2>2 DEF At
<1>7. CASE ~ (job[w].id \in transaction_query_oid(job[w].id) /\ Applied(outcome))
  <2>1. transactions' = transactions
    BY <1>1, <1>3, <1>7 DEF transaction_query_oid
  <2> QED BY <1>1, <1>2, <1>4, <1>5, <2>1 DEF At
<1> QED BY <1>6, <1>7

LEMMA DeleteEffect ==
    ASSUME IInv, NEW w \in Workers, transaction_delete_one_by_oid_and_user(w)
    PROVE  /\ job[w].pc = "delete" /\ job[w].user \in Users
           /\ \A x \in Workers \ {w} : job'[x] = job[x]
           /\ job'[w].pc = "respond"
           /\ UNCHANGED <<issued, owner>>
           /\ \/ UNCHANGED transactions
              \/ /\ job[w].id \in Ids
                 /\ transactions[job[w].id].user = job[w].user
                 /\ transactions' = [transactions EXCEPT ![job[w].id] = Missing]
<1> USE DEF IInv, PoolInv
<1>1. /\ At(w, "delete") /\ UNCHANGED <<issued, owner>> /\ job \in [Workers -> Jobs]
      /\ transactions \in [Ids -> Documents]
      /\ job[w].user \in Users
  BY DEF transaction_delete_one_by_oid_and_user, OwnTypeOK, Requests, KnowsItsRequest, At
<1> DEFINE match == transaction_query_by_oid_and_user(job[w].id, job[w].user)
<1>2. PICK outcome \in Outcomes(match) :
        /\ transactions' = [i \in Ids |->
              IF i \in match /\ Applied(outcome) THEN Missing ELSE transactions[i]]
        /\ MoveTo(w, "respond", ErrorOf(outcome, "BAD_REQUEST"))
  BY DEF transaction_delete_one_by_oid_and_user
<1>3. /\ \A x \in Workers \ {w} : job'[x] = job[x]
      /\ job'[w].pc = "respond"
  BY <1>1, <1>2, Moved DEF ErrorOf, PCs, Errors
<1>4. CASE job[w].id \in match /\ Applied(outcome)
  <2>1. job[w].id \in Ids /\ transactions[job[w].id].user = job[w].user
    BY <1>4 DEF transaction_query_by_oid_and_user
  <2>2. transactions' = [transactions EXCEPT ![job[w].id] = Missing]
    BY <1>1, <1>2, <1>4 DEF transaction_query_by_oid_and_user
  <2> QED BY <1>1, <1>3, <2>1, <2>2 DEF At
<1>5. CASE ~ (job[w].id \in match /\ Applied(outcome))
  <2>1. transactions' = transactions
    BY <1>1, <1>2, <1>5 DEF transaction_query_by_oid_and_user
  <2> QED BY <1>1, <1>3, <2>1 DEF At
<1> QED BY <1>4, <1>5

-----------------------------------------------------------------------------
(***************************************************************************)
(* Who owns a document: what a worker knows of it outlives the steps of    *)
(* the others.                                                             *)
(***************************************************************************)

\* A step that leaves the collection alone.
LEMMA OwnershipWaits ==
    ASSUME IInv, NEW w \in Workers,
           \A x \in Workers \ {w} : job'[x] = job[x],
           UNCHANGED <<transactions, owner>>, issued \subseteq issued',
           KnowsItsDocument(w)'
    PROVE  Ownership'
BY DEF IInv, Ownership, KnowsItsDocument

\* A step after which the worker is not about to write.
LEMMA OwnershipLeft ==
    ASSUME IInv, NEW w \in Workers,
           \A x \in Workers \ {w} : job'[x] = job[x],
           UNCHANGED <<transactions, owner, issued>>,
           job'[w].pc \notin {"check", "insert", "update"}
    PROVE  Ownership'
BY OwnershipWaits DEF KnowsItsDocument

LEMMA RefuseOwnership ==
    ASSUME IInv, NEW w \in Workers, NEW u, NEW op, NEW error, Refuse(w, u, op, error)
    PROVE  Ownership'
<1>1. /\ \A x \in Workers \ {w} : job'[x] = job[x]
      /\ job'[w].pc = "respond"
  BY DEF Refuse, IInv, PoolInv, OwnTypeOK, Idle
<1> QED BY <1>1, OwnershipLeft DEF Refuse

LEMMA CreateOwnership ==
    ASSUME IInv, NEW w \in Workers, NEW u \in Users, pocket_trans_create(w, u)
    PROVE  Ownership'
<1>1. PICK body \in Bodies :
        \/ \E error \in Errors : Refuse(w, u, "create", error)
        \/ \E o \in pool_pop, i \in FreshOid :
              /\ issued' = issued \cup {i}
              /\ job' = [job EXCEPT ![w] =
                    [Idle EXCEPT !.pc = "check", !.op = "create", !.user = u,
                                 !.id = i, !.object = o, !.body = body]]
              /\ UNCHANGED <<transactions, owner, stats>>
  BY DEF pocket_trans_create, Refusal, Errors
<1>2. ASSUME NEW o \in pool_pop, NEW i \in FreshOid,
             issued' = issued \cup {i},
             job' = [job EXCEPT ![w] =
                    [Idle EXCEPT !.pc = "check", !.op = "create", !.user = u,
                                 !.id = i, !.object = o, !.body = body]],
             UNCHANGED <<transactions, owner, stats>>
      PROVE  Ownership'
  <2>1. i \in Ids /\ i \notin issued /\ owner[i] = NoUser
    BY DEF FreshOid, IInv, Ownership
  <2>2. /\ \A x \in Workers \ {w} : job'[x] = job[x]
        /\ job'[w].pc = "check" /\ job'[w].id = i
    BY <1>2 DEF IInv, PoolInv, OwnTypeOK, Idle
  <2>3. \A x \in Workers \ {w} :
           job[x].pc \in {"check", "insert"} => job[x].id \in issued
    BY DEF IInv, Ownership, KnowsItsDocument
  <2>4. KnowsItsDocument(w)'
    BY <1>2, <2>1, <2>2, <2>3 DEF KnowsItsDocument
  <2> QED BY <1>2, <2>2, <2>4, OwnershipWaits
<1> QED BY <1>1, <1>2, RefuseOwnership

LEMMA UpdateOwnership ==
    ASSUME IInv, NEW w \in Workers, NEW u \in Users, pocket_trans_update(w, u)
    PROVE  Ownership'
<1>1. \/ \E error \in Errors : Refuse(w, u, "update", error)
      \/ /\ \E body \in Bodies, i \in Known \cup {NoId}, o \in pool_pop :
              job' = [job EXCEPT ![w] =
                  [Idle EXCEPT !.pc = "find", !.op = "update", !.user = u,
                               !.id = i, !.object = o, !.body = body]]
         /\ UNCHANGED <<transactions, issued, owner, stats>>
  BY DEF pocket_trans_update, Errors
<1>2. CASE \E error \in Errors : Refuse(w, u, "update", error)
  BY <1>2, RefuseOwnership
<1>3. ASSUME NEW body \in Bodies, NEW i \in Known \cup {NoId}, NEW o \in pool_pop,
             job' = [job EXCEPT ![w] =
                  [Idle EXCEPT !.pc = "find", !.op = "update", !.user = u,
                               !.id = i, !.object = o, !.body = body]],
             UNCHANGED <<transactions, issued, owner, stats>>
      PROVE  Ownership'
  <2>1. /\ \A x \in Workers \ {w} : job'[x] = job[x]
        /\ job'[w].pc = "find"
    BY <1>3 DEF IInv, PoolInv, OwnTypeOK, Idle
  <2> QED BY <1>3, <2>1, OwnershipLeft
<1> QED BY <1>1, <1>2, <1>3

LEMMA CheckOwnership ==
    ASSUME IInv, NEW w \in Workers, pocket_category_belongs_to_user(w)
    PROVE  Ownership'
<1>1. /\ At(w, "check") /\ job \in [Workers -> Jobs]
      /\ UNCHANGED <<transactions, issued, owner>>
      /\ MoveTo(w, "insert", "NONE") \/ MoveTo(w, "return", "NOT_FOUND")
  BY DEF pocket_category_belongs_to_user, NotFound, IInv, PoolInv, OwnTypeOK
<1>2. /\ \A x \in Workers \ {w} : job'[x] = job[x]
      /\ job'[w].pc \in {"insert", "return"} /\ job'[w].id = job[w].id
  BY <1>1, Moved DEF PCs, Errors
<1>3. KnowsItsDocument(w)'
  BY <1>1, <1>2 DEF IInv, Ownership, KnowsItsDocument, At
<1> QED BY <1>1, <1>2, <1>3, OwnershipWaits

LEMMA FindOwnership ==
    ASSUME IInv, NEW w \in Workers, transaction_get_by_oid_and_user(w)
    PROVE  Ownership'
<1> USE TransactionsAssumption
<1> DEFINE match == transaction_query_by_oid_and_user(mem[job[w].object].oid, job[w].user)
<1>1. /\ job \in [Workers -> Jobs] /\ At(w, "find") /\ job[w].user \in Users
      /\ mem[job[w].object].oid = job[w].id
  BY DEF transaction_get_by_oid_and_user, IInv, PoolInv, OwnTypeOK, Requests,
     KnowsItsRequest, ObjectContents, KnowsItsObject, At
<1>2. UNCHANGED <<transactions, owner, issued>>
  BY DEF transaction_get_by_oid_and_user
<1>3. \/ \E error \in Errors : MoveTo(w, "return", error)
      \/ MoveTo(w, "update", "NONE") /\ match # {}
  BY DEF transaction_get_by_oid_and_user, NotFound, Errors
<1>4. CASE \E error \in Errors : MoveTo(w, "return", error)
  <2>1. /\ \A x \in Workers \ {w} : job'[x] = job[x]
        /\ job'[w].pc = "return"
    BY <1>1, <1>4, Moved DEF PCs
  <2> QED BY <1>2, <2>1, OwnershipLeft
<1>5. CASE MoveTo(w, "update", "NONE") /\ match # {}
  <2>1. /\ \A x \in Workers \ {w} : job'[x] = job[x]
        /\ job'[w].pc = "update"
        /\ job'[w].id = job[w].id /\ job'[w].user = job[w].user
    BY <1>1, <1>5, Moved DEF PCs, Errors
  <2>2. job[w].id \in Ids /\ transactions[job[w].id].user = job[w].user
    BY <1>1, <1>5 DEF transaction_query_by_oid_and_user
  <2>3. owner[job[w].id] = job[w].user
    BY <1>1, <2>2 DEF IInv, Ownership
  <2>4. KnowsItsDocument(w)'
    BY <1>2, <2>1, <2>2, <2>3 DEF KnowsItsDocument
  <2> QED BY <1>2, <2>1, <2>4, OwnershipWaits
<1> QED BY <1>3, <1>4, <1>5

LEMMA InsertOwnership ==
    ASSUME IInv, NEW w \in Workers, transaction_insert_one(w)
    PROVE  Ownership'
<1> USE TransactionsAssumption
<1> DEFINE d == [user |-> job[w].user, data |-> Made(job[w].body)]
<1>1. /\ job[w].pc = "insert" /\ job[w].id \in Ids /\ job[w].user \in Users
      /\ owner[job[w].id] = NoUser
      /\ \A x \in Workers \ {w} : job'[x] = job[x]
      /\ job'[w].pc \in {"increment", "return"}
      /\ issued' = issued
      /\ \/ UNCHANGED <<transactions, owner>>
         \/ /\ transactions' = [transactions EXCEPT ![job[w].id] = d]
            /\ owner' = [owner EXCEPT ![job[w].id] = job[w].user]
  BY InsertEffect
<1>2. CASE UNCHANGED <<transactions, owner>>
  BY <1>1, <1>2, OwnershipLeft
<1>3. CASE /\ transactions' = [transactions EXCEPT ![job[w].id] = d]
           /\ owner' = [owner EXCEPT ![job[w].id] = job[w].user]
  <2>1. job[w].id \in issued
    BY <1>1 DEF IInv, Ownership, KnowsItsDocument
  <2>2. ASSUME NEW i \in Ids
        PROVE  /\ transactions'[i].user \in {NoUser, owner'[i]}
               /\ transactions'[i].user = NoUser => transactions'[i] = Missing
               /\ owner'[i] # NoUser => i \in issued'
    <3>1. CASE i = job[w].id
      BY <1>1, <1>3, <2>1, <3>1 DEF IInv, PoolInv, OwnTypeOK
    <3>2. CASE i # job[w].id
      BY <1>1, <1>3, <3>2 DEF IInv, PoolInv, OwnTypeOK, Ownership
    <3> QED BY <3>1, <3>2
  <2>3. ASSUME NEW x \in Workers
        PROVE  KnowsItsDocument(x)'
    <3>1. CASE x = w
      BY <1>1, <3>1 DEF KnowsItsDocument
    <3>2. CASE x # w /\ job[x].pc \in {"check", "insert"}
      <4>1. job[x].id # job[w].id /\ job[x].id \in Ids
        BY <1>1, <3>2 DEF IInv, PoolInv, OwnTypeOK, Ownership, KnowsItsDocument
      <4> QED BY <1>1, <1>3, <3>2, <4>1
          DEF IInv, PoolInv, OwnTypeOK, Ownership, KnowsItsDocument
    <3>3. CASE x # w /\ job[x].pc = "update"
      <4>1. job[x].id # job[w].id /\ job[x].id \in Ids
        BY <1>1, <3>3
        DEF IInv, PoolInv, Requests, KnowsItsRequest, Ownership, KnowsItsDocument
      <4> QED BY <1>1, <1>3, <3>3, <4>1
          DEF IInv, PoolInv, OwnTypeOK, Ownership, KnowsItsDocument
    <3>4. CASE x # w /\ job[x].pc \notin {"check", "insert", "update"}
      BY <1>1, <3>4 DEF KnowsItsDocument
    <3> QED BY <3>1, <3>2, <3>3, <3>4
  <2> QED BY <2>2, <2>3 DEF Ownership
<1> QED BY <1>1, <1>2, <1>3

LEMMA UpdateOneOwnership ==
    ASSUME IInv, NEW w \in Workers, transaction_update_one(w)
    PROVE  Ownership'
<1>1. /\ job[w].id \in Ids /\ job[w].user \in Users
      /\ \A x \in Workers \ {w} : job'[x] = job[x]
      /\ job'[w].pc = "return"
      /\ UNCHANGED <<issued, owner>>
      /\ \/ UNCHANGED transactions
         \/ /\ transactions[job[w].id].user = job[w].user
            /\ transactions' = [transactions EXCEPT ![job[w].id].data =
                                 mem[job[w].object].data]
  BY UpdateEffect
<1>2. \A i \in Ids : /\ transactions'[i].user = transactions[i].user
                     /\ transactions[i].user = NoUser => transactions'[i] = transactions[i]
  BY <1>1, TransactionsAssumption DEF IInv, PoolInv, OwnTypeOK, Documents
<1> QED BY <1>1, <1>2 DEF IInv, Ownership, KnowsItsDocument

LEMMA DeleteOneOwnership ==
    ASSUME IInv, NEW w \in Workers, transaction_delete_one_by_oid_and_user(w)
    PROVE  Ownership'
<1>1. /\ \A x \in Workers \ {w} : job'[x] = job[x]
      /\ job'[w].pc = "respond"
      /\ UNCHANGED <<issued, owner>>
      /\ \/ UNCHANGED transactions
         \/ transactions' = [transactions EXCEPT ![job[w].id] = Missing]
  BY DeleteEffect
<1>2. \A i \in Ids : transactions'[i] \in {transactions[i], Missing}
  BY <1>1 DEF IInv, PoolInv, OwnTypeOK
<1> QED BY <1>1, <1>2 DEF IInv, Ownership, KnowsItsDocument, Missing

\* Everything else that a worker goes on with.
LEMMA OtherOwnership ==
    ASSUME IInv, NEW w \in Workers,
           \/ pocket_cache_user_increment_transactions(w)
           \/ pocket_trans_return(w)
           \/ transaction_get_by_oid_and_user_to_json(w)
           \/ transactions_get_all_by_user_to_json(w)
           \/ pocket_error_send_response(w)
    PROVE  Ownership' /\ UNCHANGED <<transactions, owner>>
<1>1. UNCHANGED <<transactions, owner, issued>>
  BY DEF pocket_cache_user_increment_transactions, pocket_trans_return, Read,
     transaction_get_by_oid_and_user_to_json, transactions_get_all_by_user_to_json,
     ReadNothing, pocket_error_send_response
<1>2. \E j : /\ j.pc \notin {"check", "insert", "update"}
             /\ job' = [job EXCEPT ![w] = j]
  <2>1. CASE pocket_trans_return(w)
    <3> DEFINE j == [job[w] EXCEPT !.pc = "respond", !.object = NoObject,
                                   !.body = NoBody]
    <3>1. j.pc = "respond" /\ job' = [job EXCEPT ![w] = j]
      BY <2>1 DEF pocket_trans_return, IInv, PoolInv, OwnTypeOK, Jobs
    <3> QED BY <3>1
  <2>2. CASE pocket_error_send_response(w)
    BY <2>2 DEF pocket_error_send_response, Idle
  <2>3. ASSUME NEW match, job' = [job EXCEPT ![w].pc = "respond", ![w].found = match]
        PROVE  \E j : /\ j.pc \notin {"check", "insert", "update"}
                      /\ job' = [job EXCEPT ![w] = j]
    <3> DEFINE j == [job[w] EXCEPT !.pc = "respond", !.found = match]
    <3>1. j.pc = "respond" /\ job' = [job EXCEPT ![w] = j]
      BY <2>3 DEF IInv, PoolInv, OwnTypeOK, Jobs
    <3> QED BY <3>1
  <2>4. ASSUME NEW pc \in {"return", "respond"}, NEW error, MoveTo(w, pc, error)
        PROVE  \E j : /\ j.pc \notin {"check", "insert", "update"}
                      /\ job' = [job EXCEPT ![w] = j]
    <3> DEFINE j == [job[w] EXCEPT !.pc = pc, !.error = error]
    <3>1. j.pc = pc /\ job' = [job EXCEPT ![w] = j]
      BY <2>4 DEF MoveTo, IInv, PoolInv, OwnTypeOK, Jobs
    <3> QED BY <3>1
  <2> QED BY <2>1, <2>2, <2>3, <2>4
      DEF pocket_cache_user_increment_transactions, Read, ReadNothing,
          transaction_get_by_oid_and_user_to_json, transactions_get_all_by_user_to_json
<1>3. /\ \A x \in Workers \ {w} : job'[x] = job[x]
      /\ job'[w].pc \notin {"check", "insert", "update"}
  BY <1>2 DEF IInv, PoolInv, OwnTypeOK
<1> QED BY <1>1, <1>3, OwnershipLeft

LEMMA RequestOwnership ==
    ASSUME IInv, NEW w \in Workers, Request(w)
    PROVE  Ownership' /\ UNCHANGED <<transactions, owner>>
<1>1. CASE BadUser(w)
  BY <1>1, RefuseOwnership DEF BadUser, Refuse
<1>2. ASSUME NEW u \in Users, pocket_trans_create(w, u)
      PROVE  Ownership' /\ UNCHANGED <<transactions, owner>>
  BY <1>2, CreateOwnership DEF pocket_trans_create, Refuse
<1>3. ASSUME NEW u \in Users, pocket_trans_update(w, u)
      PROVE  Ownership' /\ UNCHANGED <<transactions, owner>>
  BY <1>3, UpdateOwnership DEF pocket_trans_update, Refuse
<1>4. ASSUME NEW u \in Users, NEW op \in {"delete", "get", "list"}, NEW i,
             Take(w, u, op, i)
      PROVE  Ownership' /\ UNCHANGED <<transactions, owner>>
  <2>1. UNCHANGED <<transactions, owner, issued>>
    BY <1>4 DEF Take
  <2>2. /\ \A x \in Workers \ {w} : job'[x] = job[x]
        /\ job'[w].pc = op
    BY <1>4 DEF Take, IInv, PoolInv, OwnTypeOK, Idle
  <2> QED BY <2>1, <2>2, OwnershipLeft
<1> QED BY <1>1, <1>2, <1>3, <1>4
    DEF Request, pocket_trans_delete, pocket_transaction_get_handler,
        pocket_transactions_handler

-----------------------------------------------------------------------------
\* The inductive invariant holds at the start.
THEOREM InitIInv == Init => IInv
<1>1. Init => Ownership
  BY DEF Init, InitTrans, Ownership, KnowsItsDocument, Idle, Missing
<1> QED BY <1>1, InitPoolInv DEF IInv

LEMMA RestartedOwnership ==
    ASSUME IInv, Restarted
    PROVE  Ownership' /\ UNCHANGED <<transactions, owner>>
BY DEF Restarted, IInv, Ownership, KnowsItsDocument, Idle

LEMMA NextOwnership ==
    ASSUME IInv, OwnNext
    PROVE  Ownership'
<1>1. CASE Crash
  BY <1>1, RestartedOwnership DEF Crash
<1>2. ASSUME NEW w \in Workers, Request(w)
      PROVE  Ownership'
  BY <1>2, RequestOwnership
<1>3. ASSUME NEW w \in Workers, Continue(w)
      PROVE  Ownership'
  BY <1>3, CheckOwnership, InsertOwnership, FindOwnership, UpdateOneOwnership, DeleteOneOwnership,
     OtherOwnership DEF Continue
<1> QED BY <1>1, <1>2, <1>3 DEF OwnNext

LEMMA StepIInv ==
    ASSUME IInv, [Next]_vars
    PROVE  IInv'
<1>1. PoolInv'
  BY StepPoolInv DEF IInv
<1>2. CASE OwnNext
  BY <1>1, <1>2, NextOwnership DEF IInv
<1>3. CASE UNCHANGED transVars
  <2>1. /\ transactions' = transactions /\ owner' = owner
        /\ issued' = issued /\ job' = job
    BY <1>3 DEF transVars
  <2>2. Ownership'
    BY <2>1 DEF IInv, Ownership, KnowsItsDocument
  <2> QED BY <1>1, <2>2 DEF IInv
<1> QED BY <1>2, <1>3 DEF Next, OwnNext, vars, transVars

\* The inductive invariant of the controller.
THEOREM Invariant == Spec => []IInv
BY InitIInv, StepIInv, PTL DEF Spec

\* Which steps touch the collection, and how.
LEMMA OnlyWritesWrite ==
    ASSUME IInv, [Next]_vars
    PROVE  \/ UNCHANGED <<transactions, owner>>
           \/ \E w \in Workers : \/ transaction_insert_one(w)
                                 \/ transaction_update_one(w)
                                 \/ transaction_delete_one_by_oid_and_user(w)
<1>1. CASE Crash
  BY <1>1, RestartedOwnership DEF Crash
<1>2. ASSUME NEW w \in Workers, Request(w)
      PROVE  UNCHANGED <<transactions, owner>>
  BY <1>2, RequestOwnership
<1>3. ASSUME NEW w \in Workers, Continue(w)
      PROVE  \/ UNCHANGED <<transactions, owner>>
             \/ transaction_insert_one(w)
             \/ transaction_update_one(w)
             \/ transaction_delete_one_by_oid_and_user(w)
  BY <1>3, OtherOwnership DEF Continue, pocket_category_belongs_to_user,
                                transaction_get_by_oid_and_user
<1>4. CASE UNCHANGED transVars
  BY <1>4 DEF transVars
<1> QED BY <1>1, <1>2, <1>3, <1>4 DEF Next, vars, transVars

-----------------------------------------------------------------------------
(***************************************************************************)
(* What is stored, and what is shown.                                      *)
(***************************************************************************)

\* A create stores nothing of a request that used its object before: what
\* of its document is not of its own body is blank.
THEOREM StoresNothingStaleHolds == Spec => StoresNothingStale
<1>1. ASSUME IInv, [Next]_vars
      PROVE  StoresNothingStaleStep
  <2> DEFINE body(w) == job[w].body
             data(w) == transactions'[job[w].id].data
  <2> SUFFICES ASSUME NEW w \in Workers, owner' # owner, job'[w] # job[w]
               PROVE  /\ data(w).title = body(w).title
                      /\ data(w).category = body(w).category
                      /\ data(w).amount \in {Given(body(w).amount, Zero), Zero}
                      /\ body(w).amount \in Reals => data(w).amount = body(w).amount
                      /\ data(w).place \in {Given(body(w).place, NoPlace), NoPlace}
    BY DEF StoresNothingStaleStep, Inserting
  <2>1. PICK x \in Workers : transaction_insert_one(x)
    BY <1>1, OnlyWritesWrite
       DEF transaction_update_one, transaction_delete_one_by_oid_and_user
  <2>2. x = w
    BY <1>1, <2>1, InsertEffect
  <2>3. /\ job[w].id \in Ids /\ transactions \in [Ids -> Documents]
        /\ transactions' = [transactions EXCEPT ![job[w].id] =
                              [user |-> job[w].user, data |-> Made(job[w].body)]]
    BY <1>1, <2>1, <2>2, InsertEffect DEF IInv, PoolInv, OwnTypeOK
  <2>4. data(w) = Made(body(w))
    BY <2>3
  <2>5. \A amount : /\ json_real_value(amount) \in {Given(amount, Zero), Zero}
                    /\ amount \in Reals => json_real_value(amount) = amount
    BY TransactionsAssumption DEF json_real_value, Given
  <2> QED BY <2>4, <2>5 DEF Made
<1> QED BY <1>1, Invariant, PTL DEF Spec, StoresNothingStale

-----------------------------------------------------------------------------
(***************************************************************************)
(* The category of a create: once it was seen to be the user's it stays    *)
(* one that this user inserted, whether it is still there or not.          *)
(***************************************************************************)

CategoryOwners ==
    /\ catUser \in [CategoryIds -> Users \cup {NoUser}]
    /\ catOwner \in [CategoryIds -> Users \cup {NoUser}]
    /\ \A c \in CategoryIds : catUser[c] \in {NoUser, catOwner[c]}

KnowsItsCategory(w) ==
    job[w].pc = "insert" =>
        /\ job[w].body.category \in CategoryIds
        /\ catOwner[job[w].body.category] = job[w].user

CategoryInv == CategoryOwners /\ \A w \in Workers : KnowsItsCategory(w)

\* no request goes to its insert but through the check
LEMMA OnlyTheCheckInserts ==
    ASSUME IInv, NEW x \in Workers, Request(x) \/ Continue(x), NEW w \in Workers,
           job'[w].pc = "insert"
    PROVE  \/ job'[w] = job[w]
           \/ w = x /\ pocket_category_belongs_to_user(x)
<1> USE DEF IInv, PoolInv
<1>1. job \in [Workers -> Jobs]
  BY DEF OwnTypeOK
<1>2. ASSUME NEW j, j.pc # "insert", job' = [job EXCEPT ![x] = j]
      PROVE  job'[w] = job[w]
  BY <1>1, <1>2
<1>3. ASSUME NEW pc, NEW error, MoveTo(x, pc, error), pc # "insert"
      PROVE  job'[w] = job[w]
  <2> DEFINE j == [job[x] EXCEPT !.pc = pc, !.error = error]
  <2>1. j.pc = pc /\ job' = [job EXCEPT ![x] = j]
    BY <1>1, <1>3 DEF MoveTo, Jobs
  <2> HIDE DEF j
  <2> QED BY <1>2, <1>3, <2>1
<1>4. ASSUME NEW u, NEW op, NEW error, Refuse(x, u, op, error)
      PROVE  job'[w] = job[w]
  BY <1>1, <1>4 DEF Refuse, Idle
<1>5. ASSUME NEW pc, NEW op, NEW u, NEW i, NEW o, NEW body, pc # "insert",
             job' = [job EXCEPT ![x] =
                        [Idle EXCEPT !.pc = pc, !.op = op, !.user = u, !.id = i,
                                     !.object = o, !.body = body]]
      PROVE  job'[w] = job[w]
  BY <1>1, <1>5 DEF Idle
<1>6. ASSUME NEW op \in {"delete", "get", "list"}, NEW u, NEW i, Take(x, u, op, i)
      PROVE  job'[w] = job[w]
  BY <1>1, <1>6 DEF Take, Idle
<1>7. CASE Request(x)
  <2>1. CASE BadUser(x)
    BY <1>4, <2>1 DEF BadUser
  <2>2. ASSUME NEW u \in Users, pocket_trans_create(x, u)
        PROVE  job'[w] = job[w]
    <3>1. PICK body \in Bodies, i \in Ids \cup {NoId} :
            \/ \E error : Refuse(x, u, "create", error)
            \/ \E o \in pool_pop : job' = [job EXCEPT ![x] =
                      [Idle EXCEPT !.pc = "check", !.op = "create", !.user = u,
                                   !.id = i, !.object = o, !.body = body]]
      BY <2>2 DEF pocket_trans_create, FreshOid
    <3>2. ASSUME NEW o, job' = [job EXCEPT ![x] =
                      [Idle EXCEPT !.pc = "check", !.op = "create", !.user = u,
                                   !.id = i, !.object = o, !.body = body]]
          PROVE  job'[w] = job[w]
      <4>1. "check" # "insert"
        OBVIOUS
      <4> QED BY <1>5, <3>2, <4>1
    <3> QED BY <1>4, <3>1, <3>2
  <2>3. ASSUME NEW u \in Users, pocket_trans_update(x, u)
        PROVE  job'[w] = job[w]
    <3>1. PICK body \in Bodies, i \in Ids \cup {NoId} :
            \/ \E error : Refuse(x, u, "update", error)
            \/ \E o \in pool_pop : job' = [job EXCEPT ![x] =
                      [Idle EXCEPT !.pc = "find", !.op = "update", !.user = u,
                                   !.id = i, !.object = o, !.body = body]]
      BY <2>3 DEF pocket_trans_update, Known
    <3>2. ASSUME NEW o, job' = [job EXCEPT ![x] =
                      [Idle EXCEPT !.pc = "find", !.op = "update", !.user = u,
                                   !.id = i, !.object = o, !.body = body]]
          PROVE  job'[w] = job[w]
      <4>1. "find" # "insert"
        OBVIOUS
      <4> QED BY <1>5, <3>2, <4>1
    <3> QED BY <1>4, <3>1, <3>2
  <2> QED BY <1>6, <1>7, <2>1, <2>2, <2>3
      DEF Request, pocket_trans_delete, pocket_transaction_get_handler,
          pocket_transactions_handler
<1>8. CASE Continue(x)
  <2>1. CASE pocket_category_belongs_to_user(x)
    BY <1>3, <2>1 DEF pocket_category_belongs_to_user, NotFound, MoveTo, OwnTypeOK
  <2>2. CASE \E pc \in PCs \ {"insert"}, error \in Errors : MoveTo(x, pc, error)
    BY <1>3, <2>2
  <2>3. CASE pocket_trans_return(x)
    BY <1>1, <2>3 DEF pocket_trans_return, Jobs
  <2>4. ASSUME NEW match, Read(x, match)
        PROVE  job'[w] = job[w]
    BY <1>1, <2>4 DEF Read, Jobs
  <2>5. CASE pocket_error_send_response(x)
    BY <1>1, <2>5 DEF pocket_error_send_response, Idle
  <2>6. job[x].error \in Errors
    BY <1>1 DEF Jobs
  <2> QED BY <1>8, <2>1, <2>2, <2>3, <2>4, <2>5, <2>6
      DEF Continue, transaction_insert_one, pocket_cache_user_increment_transactions,
          transaction_get_by_oid_and_user, NotFound, transaction_update_one,
          transaction_delete_one_by_oid_and_user, ReadNothing, AfterInsert, ErrorOf,
          transaction_get_by_oid_and_user_to_json,
          transactions_get_all_by_user_to_json, PCs, Errors
<1> QED BY <1>7, <1>8

\* At the start there are no categories.
THEOREM InitCategoryInv == Init => CategoryInv
BY DEF Init, InitTrans, InitCategories, CategoryInv, CategoryOwners, KnowsItsCategory,
   Idle

LEMMA StepCategoryInv ==
    ASSUME IInv, CategoryInv, [Next]_vars
    PROVE  CategoryInv'
<1> USE TransactionsAssumption
<1>1. ASSUME UNCHANGED catVars,
             \A w \in Workers : job'[w].pc = "insert" =>
                job'[w] = job[w] \/ pocket_category_belongs_to_user(w)
      PROVE  CategoryInv'
  <2>1. CategoryOwners'
    BY <1>1 DEF CategoryInv, CategoryOwners, catVars
  <2>2. ASSUME NEW w \in Workers, job'[w].pc = "insert",
               pocket_category_belongs_to_user(w)
        PROVE  /\ job'[w].body.category \in CategoryIds
               /\ catOwner'[job'[w].body.category] = job'[w].user
    <3> DEFINE match == category_query_by_oid_and_user(
                            mem[job[w].object].data.category, job[w].user)
    <3>1. /\ At(w, "check") /\ job \in [Workers -> Jobs] /\ job[w].user \in Users
          /\ mem[job[w].object].data = Made(job[w].body)
      <4>1. At(w, "check")
        BY <2>2 DEF pocket_category_belongs_to_user
      <4>2. job \in [Workers -> Jobs] /\ job[w].user \in Users
        BY <4>1 DEF IInv, PoolInv, OwnTypeOK, Requests, KnowsItsRequest, At
      <4>3. mem[job[w].object] = [oid |-> job[w].id, user |-> job[w].user,
                                  data |-> Made(job[w].body)]
        BY <4>1 DEF IInv, PoolInv, ObjectContents, KnowsItsObject, At
      <4> QED BY <4>1, <4>2, <4>3
    <3>2. \/ match # {} /\ MoveTo(w, "insert", "NONE")
          \/ MoveTo(w, "return", "NOT_FOUND")
      BY <2>2 DEF pocket_category_belongs_to_user, NotFound
    <3>3. match # {} /\ job'[w].body = job[w].body /\ job'[w].user = job[w].user
      BY <2>2, <3>1, <3>2, Moved DEF PCs, Errors
    <3>4. job[w].body.category \in CategoryIds
          /\ catUser[job[w].body.category] = job[w].user
      BY <3>1, <3>3 DEF category_query_by_oid_and_user, Made
    <3> QED BY <1>1, <3>1, <3>3, <3>4 DEF CategoryInv, CategoryOwners, catVars
  <2> QED BY <1>1, <2>1, <2>2 DEF CategoryInv, KnowsItsCategory, catVars
<1>2. CASE CategoriesStep /\ UNCHANGED transVars
  <2>1. CategoryOwners'
    BY <1>2 DEF CategoriesStep, CategoryInserted, CategoryDeleted, CategoryInv,
       CategoryOwners
  <2>2. \A c \in CategoryIds : catOwner[c] # NoUser => catOwner'[c] = catOwner[c]
    BY <1>2 DEF CategoriesStep, CategoryInserted, CategoryDeleted, CategoryInv,
       CategoryOwners
  <2>3. \A w \in Workers : job[w].pc = "insert" => job[w].user \in Users
    BY DEF IInv, PoolInv, Requests, KnowsItsRequest
  <2>4. job' = job
    BY <1>2 DEF transVars
  <2> QED BY <2>1, <2>2, <2>3, <2>4 DEF CategoryInv, KnowsItsCategory
<1>3. CASE OwnNext /\ UNCHANGED catVars
  <2>1. CASE Crash
    BY <1>1, <1>3, <2>1 DEF Crash, Restarted, Idle
  <2>2. CASE \E w \in Workers : Request(w) \/ Continue(w)
    BY <1>1, <1>3, <2>2, OnlyTheCheckInserts
  <2> QED BY <1>3, <2>1, <2>2 DEF OwnNext
<1>4. CASE UNCHANGED vars
  BY <1>1, <1>4 DEF vars, catVars
<1> QED BY <1>2, <1>3, <1>4 DEF Next, OwnNext

\* An id of a category has one owner for good, the one a check saw.
THEOREM CategoryInvariant == Spec => []CategoryInv
BY InitCategoryInv, StepCategoryInv, Invariant, PTL DEF Spec

\* Every variable of the controller keeps its type.
THEOREM TypeCorrect == Spec => []TypeOK
<1>1. IInv /\ CategoryInv => TypeOK
  BY DEF IInv, PoolInv, OwnTypeOK, Documents, CategoryInv, CategoryOwners, TypeOK
<1> QED BY <1>1, Invariant, CategoryInvariant, PTL

\* A transaction is inserted for its own user, under a category of that user,
\* although the category may be deleted between the check and the insert.
THEOREM InsertsUnderOwnCategoryHolds == Spec => InsertsUnderOwnCategory
<1>1. ASSUME IInv, CategoryInv, [Next]_vars
      PROVE  InsertsUnderOwnCategoryStep
  <2> SUFFICES ASSUME NEW w \in Workers, owner' # owner, job'[w] # job[w]
               PROVE  LET t == transactions'[job[w].id] IN
                      /\ t.user = job[w].user
                      /\ t.data.category \in CategoryIds
                      /\ catOwner[t.data.category] = t.user
    BY DEF InsertsUnderOwnCategoryStep, Inserting
  <2>1. PICK x \in Workers : transaction_insert_one(x)
    BY <1>1, OnlyWritesWrite
       DEF transaction_update_one, transaction_delete_one_by_oid_and_user
  <2>2. x = w
    BY <1>1, <2>1, InsertEffect
  <2>3. /\ job[w].id \in Ids /\ transactions \in [Ids -> Documents]
        /\ transactions' = [transactions EXCEPT ![job[w].id] =
                              [user |-> job[w].user, data |-> Made(job[w].body)]]
        /\ job[w].pc = "insert"
    BY <1>1, <2>1, <2>2, InsertEffect DEF IInv, PoolInv, OwnTypeOK
  <2>4. /\ job[w].body.category \in CategoryIds
        /\ catOwner[job[w].body.category] = job[w].user
    BY <1>1, <2>3 DEF CategoryInv, KnowsItsCategory
  <2> QED BY <2>3, <2>4 DEF Made
<1> QED BY <1>1, Invariant, CategoryInvariant, PTL DEF Spec, InsertsUnderOwnCategory

-----------------------------------------------------------------------------
(***************************************************************************)
(* The counter.                                                            *)
(***************************************************************************)

LEMMA OwnersStay ==
    ASSUME IInv, [Next]_vars, NEW i \in Ids, owner[i] # NoUser
    PROVE  owner'[i] = owner[i]
<1>1. ASSUME NEW w \in Workers, transaction_insert_one(w)
      PROVE  owner'[i] = owner[i]
  BY <1>1, InsertEffect DEF IInv, PoolInv, OwnTypeOK
<1> QED BY <1>1, OnlyWritesWrite
        DEF transaction_update_one, transaction_delete_one_by_oid_and_user

\* a request that was just taken or refused: nothing shown, nothing to count and
\* nothing to write back
Asks(j) == j.found = {} /\ j.pc \notin {"increment", "update"}

LEMMA RequestShowsNothing ==
    ASSUME NEW w \in Workers, Request(w)
    PROVE  \E j : Asks(j) /\ job' = [job EXCEPT ![w] = j]
<1>1. ASSUME NEW u, NEW op, NEW error, Refuse(w, u, op, error)
      PROVE  \E j : Asks(j) /\ job' = [job EXCEPT ![w] = j]
  <2> DEFINE j == [Idle EXCEPT !.pc = "respond", !.op = op, !.user = u, !.error = error]
  <2>1. Asks(j) /\ job' = [job EXCEPT ![w] = j]
    BY <1>1 DEF Refuse, Idle, Asks
  <2> QED BY <2>1
<1>2. ASSUME NEW u, NEW op \in {"delete", "get", "list"},
             NEW i, Take(w, u, op, i)
      PROVE  \E j : Asks(j) /\ job' = [job EXCEPT ![w] = j]
  <2> DEFINE j == [Idle EXCEPT !.pc = op, !.op = op, !.user = u, !.id = i]
  <2>1. Asks(j) /\ job' = [job EXCEPT ![w] = j]
    BY <1>2 DEF Take, Idle, Asks
  <2> QED BY <2>1
<1>3. ASSUME NEW pc, NEW op, NEW u, NEW i, NEW o, NEW body,
             pc # "increment", pc # "update",
             job' = [job EXCEPT ![w] =
                [Idle EXCEPT !.pc = pc, !.op = op, !.user = u, !.id = i,
                             !.object = o, !.body = body]]
      PROVE  \E j : Asks(j) /\ job' = [job EXCEPT ![w] = j]
  <2> DEFINE j == [Idle EXCEPT !.pc = pc, !.op = op, !.user = u, !.id = i,
                               !.object = o, !.body = body]
  <2>1. Asks(j) /\ job' = [job EXCEPT ![w] = j]
    BY <1>3 DEF Idle, Asks
  <2> QED BY <2>1
<1>4. ASSUME NEW u \in Users, pocket_trans_create(w, u)
      PROVE  \E j : Asks(j) /\ job' = [job EXCEPT ![w] = j]
  <2>1. PICK body \in Bodies, i \in Ids \cup {NoId} :
        \/ \E error : Refuse(w, u, "create", error)
        \/ \E o \in pool_pop : job' = [job EXCEPT ![w] =
                          [Idle EXCEPT !.pc = "check", !.op = "create", !.user = u,
                                       !.id = i, !.object = o, !.body = body]]
    BY <1>4 DEF pocket_trans_create, FreshOid
  <2>2. ASSUME NEW o, job' = [job EXCEPT ![w] =
                      [Idle EXCEPT !.pc = "check", !.op = "create", !.user = u,
                                   !.id = i, !.object = o, !.body = body]]
        PROVE  \E j : Asks(j) /\ job' = [job EXCEPT ![w] = j]
    BY <1>3, <2>2
  <2> QED BY <1>1, <2>1, <2>2
<1>5. ASSUME NEW u \in Users, pocket_trans_update(w, u)
      PROVE  \E j : Asks(j) /\ job' = [job EXCEPT ![w] = j]
  <2>1. PICK body \in Bodies, i \in Ids \cup {NoId} :
        \/ Refuse(w, u, "update", "BAD_REQUEST")
        \/ Refuse(w, u, "update", "NOT_FOUND")
        \/ \E o \in pool_pop : job' = [job EXCEPT ![w] =
                          [Idle EXCEPT !.pc = "find", !.op = "update", !.user = u,
                                       !.id = i, !.object = o, !.body = body]]
    BY <1>5 DEF pocket_trans_update, Known
  <2>2. ASSUME NEW o, job' = [job EXCEPT ![w] =
                      [Idle EXCEPT !.pc = "find", !.op = "update", !.user = u,
                                   !.id = i, !.object = o, !.body = body]]
        PROVE  \E j : Asks(j) /\ job' = [job EXCEPT ![w] = j]
    BY <1>3, <2>2
  <2> QED BY <1>1, <2>1, <2>2
<1> QED BY <1>1, <1>2, <1>4, <1>5
    DEF Request, BadUser, pocket_trans_delete, pocket_transaction_get_handler,
        pocket_transactions_handler

\* Nobody but an insert has something to count.
LEMMA OnlyInsertsCount ==
    ASSUME IInv, [Next]_vars, NEW w \in Workers, job'[w].pc = "increment"
    PROVE  job'[w] = job[w] \/ transaction_insert_one(w)
<1> USE DEF IInv, PoolInv, OwnTypeOK
<1>1. CASE Crash
  BY <1>1 DEF Crash, Restarted, Idle
<1>2. ASSUME NEW x \in Workers, Request(x)
      PROVE  job'[w] = job[w]
  BY <1>2, RequestShowsNothing DEF Asks
<1>3. ASSUME NEW x \in Workers, NEW pc, NEW error, MoveTo(x, pc, error),
             pc # "increment"
      PROVE  job'[w] = job[w]
  BY <1>3 DEF MoveTo, Jobs
<1>4. ASSUME NEW x \in Workers, NEW match, Read(x, match)
      PROVE  job'[w] = job[w]
  BY <1>4 DEF Read, Jobs
<1>5. ASSUME NEW x \in Workers, pocket_trans_return(x)
      PROVE  job'[w] = job[w]
  BY <1>5 DEF pocket_trans_return, Jobs
<1>6. ASSUME NEW x \in Workers, pocket_error_send_response(x)
      PROVE  job'[w] = job[w]
  BY <1>6 DEF pocket_error_send_response, Idle
<1>7. ASSUME NEW x \in Workers, transaction_insert_one(x)
      PROVE  job'[w] = job[w] \/ x = w
  BY <1>7, InsertEffect
<1>8. ASSUME NEW x \in Workers,
             \/ pocket_cache_user_increment_transactions(x)
             \/ pocket_category_belongs_to_user(x)
             \/ transaction_get_by_oid_and_user(x)
             \/ transaction_update_one(x)
             \/ transaction_delete_one_by_oid_and_user(x)
      PROVE  job'[w] = job[w]
  <2>1. \E pc \in {"insert", "return", "update", "respond"} : \E error : MoveTo(x, pc, error)
    BY <1>8 DEF pocket_cache_user_increment_transactions, transaction_get_by_oid_and_user,
       pocket_category_belongs_to_user,
       NotFound, transaction_update_one, transaction_delete_one_by_oid_and_user
  <2> QED BY <1>3, <2>1
<1>9. ASSUME NEW x \in Workers,
             \/ transaction_get_by_oid_and_user_to_json(x)
             \/ transactions_get_all_by_user_to_json(x)
      PROVE  job'[w] = job[w]
  <2>1. \/ \E match : Read(x, match)
        \/ \E error : MoveTo(x, "respond", error)
    BY <1>9 DEF transaction_get_by_oid_and_user_to_json,
       transactions_get_all_by_user_to_json, ReadNothing
  <2> QED BY <1>3, <1>4, <2>1
<1>10. CASE UNCHANGED transVars
  BY <1>10 DEF transVars
<1> QED BY <1>1, <1>2, <1>5, <1>6, <1>7, <1>8, <1>9, <1>10
    DEF Next, Continue, vars, transVars

\* Nobody but an increment touches the counter.
LEMMA OnlyIncrementsIncrement ==
    ASSUME [Next]_vars, ~ UNCHANGED stats
    PROVE  \E w \in Workers : pocket_cache_user_increment_transactions(w)
<1>1. ~ Crash /\ ~ UNCHANGED transVars
  BY DEF Crash, Restarted, transVars
<1>2. ASSUME NEW w \in Workers, Request(w)
      PROVE  FALSE
  BY <1>2 DEF Request, BadUser, Refuse, pocket_trans_create, pocket_trans_update,
     pocket_trans_delete, pocket_transaction_get_handler, pocket_transactions_handler, Take
<1>3. ASSUME NEW w \in Workers, Continue(w)
      PROVE  pocket_cache_user_increment_transactions(w)
  BY <1>3 DEF Continue, pocket_category_belongs_to_user, transaction_insert_one, pocket_trans_return,
     transaction_get_by_oid_and_user, transaction_update_one,
     transaction_delete_one_by_oid_and_user, transaction_get_by_oid_and_user_to_json,
     transactions_get_all_by_user_to_json, Read, ReadNothing, pocket_error_send_response
<1> QED BY <1>1, <1>2, <1>3 DEF Next, vars, transVars

LEMMA CountsAreFinite ==
    ASSUME IsFiniteSet(Ids), IsFiniteSet(Workers), NEW u
    PROVE  /\ IsFiniteSet(Counting(u)) /\ Cardinality(Counting(u)) \in Nat
           /\ IsFiniteSet(Inserted(u)) /\ Cardinality(Inserted(u)) \in Nat
           /\ IsFiniteSet(Counting(u)') /\ Cardinality(Counting(u)') \in Nat
           /\ IsFiniteSet(Inserted(u)') /\ Cardinality(Inserted(u)') \in Nat
<1>1. /\ Counting(u) \subseteq Workers /\ Counting(u)' \subseteq Workers
      /\ Inserted(u) \subseteq Ids /\ Inserted(u)' \subseteq Ids
  BY DEF Counting, Inserted
<1> HIDE DEF Counting, Inserted
<1> QED BY <1>1, FS_Subset, FS_CardinalityType

\* The counter is never ahead of what was inserted, as long as the ids and the
\* threads are finitely many: an insert gives one thread something to count,
\* and a thread that counted, failed to, or died has nothing more to count.
THEOREM StatsNeverAheadHolds ==
    ASSUME IsFiniteSet(Ids), IsFiniteSet(Workers)
    PROVE  Spec => []StatsNeverAhead
<1>1. Init => StatsNeverAhead
  <2> SUFFICES ASSUME Init, NEW u \in Users
               PROVE  stats[u] + Cardinality(Counting(u)) <= Cardinality(Inserted(u))
    BY DEF StatsNeverAhead
  <2>1. stats[u] = 0 /\ Counting(u) = {}
    BY DEF Init, InitTrans, Counting, At, Idle
  <2> QED BY <2>1, FS_EmptySet, CountsAreFinite
<1>2. ASSUME IInv, StatsNeverAhead, [Next]_vars
      PROVE  StatsNeverAhead'
  <2> SUFFICES ASSUME NEW u \in Users
               PROVE  stats'[u] + Cardinality(Counting(u)') <= Cardinality(Inserted(u)')
    BY DEF StatsNeverAhead
  <2> USE DEF IInv, PoolInv, OwnTypeOK
  <2>1. /\ stats \in [Users -> Nat] /\ stats'[u] \in Nat
        /\ stats[u] + Cardinality(Counting(u)) <= Cardinality(Inserted(u))
    <3>1. OwnTypeOK'
      BY <1>2, StepPoolInv
    <3> QED BY <1>2, <3>1 DEF StatsNeverAhead
  <2>2. CASE \E w \in Workers : transaction_insert_one(w)
    <3>1. PICK w \in Workers : transaction_insert_one(w)
      BY <2>2
    <3>2. stats' = stats /\ At(w, "insert")
      BY <3>1 DEF transaction_insert_one
    <3>3. \A x \in Workers \ {w} : job'[x] = job[x]
      BY <1>2, <3>1, InsertEffect
    <3>4. w \notin Counting(u)
      BY <3>2 DEF Counting, At
    <3>5. Counting(u)' \subseteq Counting(u) \cup {w}
      BY <3>3 DEF Counting, At
    <3>6. CASE job'[w].pc = "increment" /\ job'[w].user = u
      <4>1. /\ job[w].id \in Ids /\ owner[job[w].id] = NoUser
            /\ owner' = [owner EXCEPT ![job[w].id] = u]
        <5>1. PICK outcome \in DbOutcomes :
                /\ IF Applied(outcome)
                   THEN owner' = [owner EXCEPT ![mem[job[w].object].oid] =
                                      mem[job[w].object].user]
                   ELSE UNCHANGED owner
                /\ MoveTo(w, AfterInsert(outcome), ErrorOf(outcome, "SERVER_ERROR"))
          BY <3>1 DEF transaction_insert_one
        <5>2. AfterInsert(outcome) \in PCs /\ ErrorOf(outcome, "SERVER_ERROR") \in Errors
          BY DEF AfterInsert, ErrorOf, PCs, Errors
        <5>3. job'[w].pc = AfterInsert(outcome) /\ job'[w].user = job[w].user
          BY <1>2, <5>1, <5>2, Moved
        <5>4. outcome = "ok"
          BY <3>6, <5>3 DEF AfterInsert
        <5>5. mem[job[w].object] = [oid |-> job[w].id, user |-> job[w].user,
                                    data |-> Made(job[w].body)]
          BY <1>2, <3>2 DEF ObjectContents, KnowsItsObject, At
        <5>6. owner' = [owner EXCEPT ![mem[job[w].object].oid] =
                                       mem[job[w].object].user]
          BY <5>1, <5>4 DEF Applied
        <5>7. mem[job[w].object].oid = job[w].id /\ mem[job[w].object].user = u
          BY <3>6, <5>3, <5>5
        <5> QED BY <1>2, <3>1, <5>6, <5>7, InsertEffect
      <4>2. /\ Inserted(u)' = Inserted(u) \cup {job[w].id}
            /\ job[w].id \notin Inserted(u)
        BY <1>2, <4>1, TransactionsAssumption DEF Inserted
      <4>3. Cardinality(Inserted(u)') = Cardinality(Inserted(u)) + 1
        BY <4>2, CountsAreFinite, FS_AddElement
      <4>4. Cardinality(Counting(u)') <= Cardinality(Counting(u)) + 1
        <5>1. Cardinality(Counting(u) \cup {w}) = Cardinality(Counting(u)) + 1
          BY <3>4, CountsAreFinite, FS_AddElement
        <5>2. IsFiniteSet(Counting(u) \cup {w})
          BY CountsAreFinite, FS_AddElement
        <5> QED BY <3>5, <5>1, <5>2, FS_Subset
      <4> QED BY <2>1, <3>2, <4>3, <4>4, CountsAreFinite
    <3>7. CASE ~ (job'[w].pc = "increment" /\ job'[w].user = u)
      <4>1. Counting(u)' \subseteq Counting(u)
        BY <3>5, <3>7 DEF Counting, At
      <4>2. Inserted(u) \subseteq Inserted(u)'
        BY <1>2, OwnersStay, TransactionsAssumption DEF Inserted
      <4>3. /\ Cardinality(Counting(u)') <= Cardinality(Counting(u))
            /\ Cardinality(Inserted(u)) <= Cardinality(Inserted(u)')
        BY <4>1, <4>2, CountsAreFinite, FS_Subset
      <4> QED BY <2>1, <3>2, <4>3, CountsAreFinite
    <3> QED BY <3>6, <3>7
  <2>3. CASE ~ \E w \in Workers : transaction_insert_one(w)
    <3>1. Inserted(u)' = Inserted(u)
      BY <1>2, <2>3, OnlyWritesWrite
         DEF Inserted, transaction_update_one, transaction_delete_one_by_oid_and_user
    <3>2. Counting(u)' \subseteq Counting(u)
      BY <1>2, <2>3, OnlyInsertsCount DEF Counting, At
    <3>3. Cardinality(Counting(u)') <= Cardinality(Counting(u))
      BY <3>2, CountsAreFinite, FS_Subset
    <3>4. CASE stats'[u] = stats[u]
      BY <2>1, <3>1, <3>3, <3>4, CountsAreFinite
    <3>5. CASE stats'[u] # stats[u]
      <4>1. PICK w \in Workers : pocket_cache_user_increment_transactions(w)
        BY <1>2, <3>5, OnlyIncrementsIncrement
      <4>2. /\ At(w, "increment") /\ job[w].user = u
            /\ stats'[u] = stats[u] + 1
            /\ MoveTo(w, "return", job[w].error)
        BY <2>1, <3>5, <4>1 DEF pocket_cache_user_increment_transactions
      <4>3. w \in Counting(u)
        BY <4>2 DEF Counting
      <4>4. job'[w].pc = "return"
        BY <1>2, <4>2 DEF MoveTo, Jobs
      <4>5. Counting(u)' \subseteq Counting(u) \ {w}
        BY <3>2, <4>4 DEF Counting, At
      <4>6. /\ IsFiniteSet(Counting(u) \ {w})
            /\ Cardinality(Counting(u) \ {w}) = Cardinality(Counting(u)) - 1
        BY <4>3, CountsAreFinite, FS_RemoveElement
      <4>7. Cardinality(Counting(u)') <= Cardinality(Counting(u)) - 1
        BY <4>5, <4>6, FS_Subset
      <4> QED BY <2>1, <3>1, <4>2, <4>7, CountsAreFinite
    <3> QED BY <3>4, <3>5
  <2> QED BY <2>2, <2>3
<1> QED BY <1>1, <1>2, Invariant, PTL DEF Spec

-----------------------------------------------------------------------------
(***************************************************************************)
(* The counter when nothing goes wrong but inserts that fail.              *)
(***************************************************************************)

\* what a step is while the process lives
Running == (\E w \in Workers : Request(w) \/ Continue(w)) \/ UNCHANGED transVars

\* A request moves its own job and no other.
LEMMA OnlyItsJobMoves ==
    ASSUME IInv, NEW x \in Workers, Request(x) \/ Continue(x),
           NEW w \in Workers \ {x}
    PROVE  job'[w] = job[w]
<1> USE DEF IInv, PoolInv, OwnTypeOK
<1>1. CASE Request(x)
  BY <1>1, RequestShowsNothing
<1>2. ASSUME NEW pc, NEW error, MoveTo(x, pc, error)
      PROVE  job'[w] = job[w]
  BY <1>2 DEF MoveTo
<1>3. ASSUME NEW match, Read(x, match)
      PROVE  job'[w] = job[w]
  BY <1>3 DEF Read
<1>4. CASE \/ transaction_insert_one(x)
           \/ pocket_cache_user_increment_transactions(x)
           \/ pocket_category_belongs_to_user(x)
           \/ transaction_get_by_oid_and_user(x)
           \/ transaction_update_one(x)
           \/ transaction_delete_one_by_oid_and_user(x)
  <2>1. \E pc, error : MoveTo(x, pc, error)
    BY <1>4 DEF transaction_insert_one, pocket_cache_user_increment_transactions, pocket_category_belongs_to_user,
       transaction_get_by_oid_and_user, NotFound, transaction_update_one,
       transaction_delete_one_by_oid_and_user
  <2> QED BY <1>2, <2>1
<1>5. CASE \/ transaction_get_by_oid_and_user_to_json(x)
           \/ transactions_get_all_by_user_to_json(x)
  <2>1. \/ \E match : Read(x, match)
        \/ \E pc, error : MoveTo(x, pc, error)
    BY <1>5 DEF transaction_get_by_oid_and_user_to_json,
       transactions_get_all_by_user_to_json, ReadNothing
  <2> QED BY <1>2, <1>3, <2>1
<1>6. CASE pocket_trans_return(x) \/ pocket_error_send_response(x)
  BY <1>6 DEF pocket_trans_return, pocket_error_send_response
<1> QED BY <1>1, <1>4, <1>5, <1>6 DEF Continue

\* What there is to count is counted, as long as the process lives.
LEMMA CountingWaits ==
    ASSUME IInv, Running, NEW w \in Workers, job[w].pc = "increment"
    PROVE  job'[w] = job[w] \/ pocket_cache_user_increment_transactions(w)
<1>1. ~ Request(w)
  BY DEF Request, BadUser, pocket_trans_create, pocket_trans_update,
     pocket_trans_delete, pocket_transaction_get_handler, pocket_transactions_handler,
     Take, At
<1>2. ASSUME Continue(w)
      PROVE  pocket_cache_user_increment_transactions(w)
  BY <1>2 DEF Continue, pocket_category_belongs_to_user, transaction_insert_one, pocket_trans_return,
     transaction_get_by_oid_and_user, transaction_update_one, transaction_delete_one_by_oid_and_user,
     transaction_get_by_oid_and_user_to_json, transactions_get_all_by_user_to_json,
     pocket_error_send_response, At
<1>3. ASSUME NEW x \in Workers \ {w}, Request(x) \/ Continue(x)
      PROVE  job'[w] = job[w]
  BY <1>3, OnlyItsJobMoves
<1>4. CASE UNCHANGED transVars
  BY <1>4 DEF transVars
<1> QED BY <1>1, <1>2, <1>3, <1>4 DEF Running

\* When no reply is lost and Redis works, a step of a live process keeps the
\* counter exact: an insert that succeeds is an insert to count, one that fails
\* is none, and every one of them is counted once.
LEMMA StepStatsExact ==
    ASSUME IsFiniteSet(Ids), IsFiniteSet(Workers),
           "lost" \notin DbOutcomes, "failed" \notin CacheOutcomes,
           IInv, StatsExact, [Next]_vars, Running
    PROVE  StatsExact'
<1> SUFFICES ASSUME NEW u \in Users
             PROVE  stats'[u] + Cardinality(Counting(u)') = Cardinality(Inserted(u)')
  BY DEF StatsExact
<1> USE DEF IInv, PoolInv, OwnTypeOK
<1>1. /\ stats \in [Users -> Nat]
      /\ stats[u] + Cardinality(Counting(u)) = Cardinality(Inserted(u))
  BY DEF StatsExact
<1>2. ASSUME NEW w \in Workers, transaction_insert_one(w)
      PROVE  stats'[u] + Cardinality(Counting(u)') = Cardinality(Inserted(u)')
  <2>1. stats' = stats /\ At(w, "insert") /\ w \notin Counting(u)
    BY <1>2 DEF transaction_insert_one, Counting, At
  <2>2. /\ \A x \in Workers \ {w} : job'[x] = job[x]
        /\ job[w].id \in Ids /\ owner[job[w].id] = NoUser
    BY <1>2, InsertEffect
  <2>3. PICK outcome \in DbOutcomes :
          /\ IF Applied(outcome)
             THEN owner' = [owner EXCEPT ![mem[job[w].object].oid] =
                                mem[job[w].object].user]
             ELSE UNCHANGED owner
          /\ MoveTo(w, AfterInsert(outcome), ErrorOf(outcome, "SERVER_ERROR"))
    BY <1>2 DEF transaction_insert_one
  <2>4. job'[w].pc = AfterInsert(outcome) /\ job'[w].user = job[w].user
    <3>1. AfterInsert(outcome) \in PCs /\ ErrorOf(outcome, "SERVER_ERROR") \in Errors
      BY DEF AfterInsert, ErrorOf, PCs, Errors
    <3> QED BY <2>3, <3>1, Moved
  <2>5. /\ mem[job[w].object].oid = job[w].id
        /\ mem[job[w].object].user = job[w].user
    <3>1. KnowsItsObject(w) /\ job[w].pc = "insert"
      BY <2>1 DEF ObjectContents, At
    <3> QED BY <3>1 DEF KnowsItsObject
  <2>6. CASE outcome = "ok" /\ job[w].user = u
    <3>1. Counting(u)' = Counting(u) \cup {w}
      BY <2>2, <2>4, <2>6 DEF Counting, At, AfterInsert
    <3>2. /\ Inserted(u)' = Inserted(u) \cup {job[w].id}
          /\ job[w].id \notin Inserted(u)
      BY <2>2, <2>3, <2>5, <2>6, TransactionsAssumption DEF Inserted, Applied
    <3>3. /\ Cardinality(Counting(u)') = Cardinality(Counting(u)) + 1
          /\ Cardinality(Inserted(u)') = Cardinality(Inserted(u)) + 1
      BY <2>1, <3>1, <3>2, CountsAreFinite, FS_AddElement
    <3> QED BY <1>1, <2>1, <3>3, CountsAreFinite
  <2>7. CASE ~ (outcome = "ok" /\ job[w].user = u)
    <3>1. Counting(u)' = Counting(u)
      BY <2>1, <2>2, <2>4, <2>7 DEF Counting, At, AfterInsert
    <3>2. Inserted(u)' = Inserted(u)
      BY <2>2, <2>3, <2>5, <2>7, TransactionsAssumption DEF Inserted, Applied
    <3> QED BY <1>1, <2>1, <3>1, <3>2
  <2> QED BY <2>6, <2>7
<1>3. ASSUME NEW w \in Workers, pocket_cache_user_increment_transactions(w)
      PROVE  stats'[u] + Cardinality(Counting(u)') = Cardinality(Inserted(u)')
  <2>1. /\ At(w, "increment") /\ owner' = owner
        /\ stats' = [stats EXCEPT ![job[w].user] = @ + 1]
        /\ MoveTo(w, "return", job[w].error)
    BY <1>3 DEF pocket_cache_user_increment_transactions
  <2>2. /\ \A x \in Workers \ {w} : job'[x] = job[x]
        /\ job'[w].pc = "return" /\ job[w].user \in Users
    BY <2>1 DEF MoveTo, Jobs, At, Requests, KnowsItsRequest
  <2>3. Inserted(u)' = Inserted(u)
    BY <2>1 DEF Inserted
  <2>4. Counting(u)' = Counting(u) \ {w}
    BY <2>2 DEF Counting, At
  <2>5. CASE job[w].user = u
    <3>1. w \in Counting(u) /\ stats'[u] = stats[u] + 1
      BY <1>1, <2>1, <2>5 DEF Counting
    <3>2. Cardinality(Counting(u)') = Cardinality(Counting(u)) - 1
      BY <2>4, <3>1, CountsAreFinite, FS_RemoveElement
    <3> QED BY <1>1, <2>3, <3>1, <3>2, CountsAreFinite
  <2>6. CASE job[w].user # u
    <3>1. w \notin Counting(u) /\ stats'[u] = stats[u]
      BY <1>1, <2>1, <2>2, <2>6 DEF Counting
    <3>2. Counting(u)' = Counting(u)
      BY <2>4, <3>1
    <3> QED BY <1>1, <2>3, <3>1, <3>2
  <2> QED BY <2>5, <2>6
<1>4. CASE ~ \E w \in Workers : transaction_insert_one(w) \/ pocket_cache_user_increment_transactions(w)
  <2>1. Inserted(u)' = Inserted(u)
    BY <1>4, OnlyWritesWrite
       DEF Inserted, transaction_update_one, transaction_delete_one_by_oid_and_user
  <2>2. stats' = stats
    BY <1>4, OnlyIncrementsIncrement
  <2>3. Counting(u)' = Counting(u)
    <3>1. \A w \in Workers : job'[w].pc = "increment" => job'[w] = job[w]
      BY <1>4, OnlyInsertsCount
    <3>2. \A w \in Workers : job[w].pc = "increment" => job'[w] = job[w]
      BY <1>4, CountingWaits
    <3> QED BY <3>1, <3>2 DEF Counting, At
  <2> QED BY <1>1, <2>1, <2>2, <2>3
<1> QED BY <1>2, <1>3, <1>4

\* Nothing is inserted or counted before the first request.
LEMMA InitStatsExact == Init => StatsExact
<1> SUFFICES ASSUME Init, NEW u \in Users
             PROVE  stats[u] + Cardinality(Counting(u)) = Cardinality(Inserted(u))
  BY DEF StatsExact
<1>1. stats[u] = 0 /\ Counting(u) = {} /\ Inserted(u) = {}
  BY TransactionsAssumption DEF Init, InitTrans, Counting, Inserted, At, Idle
<1> QED BY <1>1, FS_EmptySet

\* With as many objects as threads, a thread that comes to the pool without
\* one finds one: each of the others holds one at most, and none is lost.
LEMMA PoppingSucceeds ==
    ASSUME PoolInv, NEW w \in Workers, At(w, "idle"),
           IsFiniteSet(Workers), IsFiniteSet(Objects),
           Cardinality(Workers) <= Cardinality(Objects)
    PROVE  pool_pop # {}
<1> SUFFICES ASSUME pool_pop = {}
             PROVE  FALSE
  OBVIOUS
<1> DEFINE others == Workers \ {w}
           holds == [x \in others |-> job[x].object]
           held == {holds[x] : x \in others}
<1>1. pool = {} /\ Objects \subseteq allocated
  BY DEF pool_pop
<1>2. Objects \subseteq held
  <2> SUFFICES ASSUME NEW o \in Objects
               PROVE  \E x \in others : holds[x] = o
    OBVIOUS
  <2>1. PICK x \in Workers : o \in Held(x)
    BY <1>1 DEF PoolInv, NothingLeaks
  <2>2. job[x].object = o
    BY <2>1 DEF Held
  <2>3. x # w
    BY <2>2, TransactionsAssumption
       DEF At, Holding, PoolInv, Requests, KnowsItsRequest
  <2> QED BY <2>2, <2>3
<1>3. IsFiniteSet(others) /\ Cardinality(others) = Cardinality(Workers) - 1
  BY FS_RemoveElement
<1>4. IsFiniteSet(held) /\ Cardinality(held) <= Cardinality(others)
  <2>1. holds \in Surjection(others, held)
    BY DEF Surjection
  <2> HIDE DEF held, holds, others
  <2> QED BY <1>3, <2>1, FS_Surjection
<1>5. Cardinality(Objects) <= Cardinality(held)
  BY <1>2, <1>4, FS_Subset
<1> HIDE DEF held, others
<1> QED BY <1>3, <1>4, <1>5, FS_CardinalityType

\* With a process that does not die, whatever inserts fail and whatever happens
\* to the categories, the counter of every user is exact at all times.
THEOREM StatsExactHolds ==
    ASSUME IsFiniteSet(Ids), IsFiniteSet(Workers), ~ MayCrash,
           "lost" \notin DbOutcomes, "failed" \notin CacheOutcomes
    PROVE  Spec => []StatsExact
<1>1. ASSUME [Next]_vars
      PROVE  Running
  BY <1>1 DEF Next, Crash, Running, vars, transVars
<1>2. ASSUME IInv, StatsExact, [Next]_vars
      PROVE  StatsExact'
  BY <1>1, <1>2, StepStatsExact
<1> QED BY <1>2, InitStatsExact, Invariant, PTL DEF Spec

-----------------------------------------------------------------------------
(***************************************************************************)
(* One request at a time.                                                  *)
(***************************************************************************)

\* what an update is about to write is what it read, with its body over it
Merges(w) ==
    job[w].pc = "update" =>
        mem[job[w].object].data = Merged(transactions[job[w].id].data, job[w].body)

\* A thread is about to write back after its read, or because it was before.
LEMMA OnlyReadsUpdate ==
    ASSUME IInv, [Next]_vars, NEW w \in Workers, job'[w].pc = "update"
    PROVE  \/ job'[w] = job[w]
           \/ transaction_get_by_oid_and_user(w)
<1> USE DEF IInv, PoolInv, OwnTypeOK
<1>1. ASSUME NEW x \in Workers, Request(x)
      PROVE  job'[w] = job[w]
  BY <1>1, RequestShowsNothing DEF Asks
<1>2. ASSUME NEW x \in Workers, NEW pc, NEW error, MoveTo(x, pc, error),
             pc # "update"
      PROVE  job'[w] = job[w]
  BY <1>2 DEF MoveTo, Jobs
<1>3. ASSUME NEW x \in Workers, NEW match, Read(x, match)
      PROVE  job'[w] = job[w]
  BY <1>3 DEF Read, Jobs
<1>4. ASSUME NEW x \in Workers,
             pocket_trans_return(x) \/ pocket_error_send_response(x)
      PROVE  job'[w] = job[w]
  <2>1. CASE pocket_trans_return(x)
    BY <2>1 DEF pocket_trans_return, Jobs
  <2>2. CASE pocket_error_send_response(x)
    BY <2>2 DEF pocket_error_send_response, Idle
  <2> QED BY <1>4, <2>1, <2>2
<1>5. ASSUME NEW x \in Workers, transaction_insert_one(x) \/ transaction_update_one(x)
      PROVE  job'[w] = job[w]
  BY <1>5, InsertEffect, UpdateEffect
<1>6. ASSUME NEW x \in Workers, transaction_delete_one_by_oid_and_user(x)
      PROVE  job'[w] = job[w]
  BY <1>6, DeleteEffect
<1>7. ASSUME NEW x \in Workers, pocket_cache_user_increment_transactions(x)
             \/ pocket_category_belongs_to_user(x)
      PROVE  job'[w] = job[w]
  <2>1. \E pc, error : MoveTo(x, pc, error) /\ pc # "update"
    BY <1>7 DEF pocket_category_belongs_to_user, NotFound, pocket_cache_user_increment_transactions
  <2> QED BY <1>2, <2>1
<1>8. ASSUME NEW x \in Workers,
             \/ transaction_get_by_oid_and_user_to_json(x)
             \/ transactions_get_all_by_user_to_json(x)
      PROVE  job'[w] = job[w]
  <2>1. \/ \E match : Read(x, match)
        \/ \E error : MoveTo(x, "respond", error)
    BY <1>8 DEF transaction_get_by_oid_and_user_to_json,
       transactions_get_all_by_user_to_json, ReadNothing
  <2>2. "respond" # "update"
    OBVIOUS
  <2> QED BY <1>2, <1>3, <2>1, <2>2
<1>9. ASSUME NEW x \in Workers \ {w}, transaction_get_by_oid_and_user(x)
      PROVE  job'[w] = job[w]
  BY <1>9, OnlyItsJobMoves DEF Continue
<1>10. CASE Crash
  BY <1>10 DEF Crash, Restarted, Idle
<1>11. CASE UNCHANGED transVars
  BY <1>11 DEF transVars
<1> QED BY <1>1, <1>4, <1>5, <1>6, <1>7, <1>8, <1>9, <1>10, <1>11
    DEF Next, Continue, transVars, vars

\* what a read that finds its document leaves in the object
LEMMA ReadMerges ==
    ASSUME IInv, NEW w \in Workers, transaction_get_by_oid_and_user(w),
           job'[w].pc = "update"
    PROVE  Merges(w)'
<1> USE DEF IInv, PoolInv, OwnTypeOK
<1> DEFINE o == job[w].object
<1>1. /\ At(w, "find") /\ transactions' = transactions
      /\ o \in Objects /\ mem[o].oid = job[w].id
  <2>1. At(w, "find") /\ transactions' = transactions
    BY DEF transaction_get_by_oid_and_user
  <2> QED BY <2>1 DEF At, Requests, KnowsItsRequest, Holding, ObjectContents,
                      KnowsItsObject
<1>2. ~ \E error \in Errors : MoveTo(w, "return", error)
  BY Moved DEF PCs
<1>3. PICK i \in Ids :
        /\ i = mem[o].oid
        /\ mem' = [mem EXCEPT ![o] =
              [trans_doc_parse(i) EXCEPT !.data = Merged(@, job[w].body)]]
        /\ MoveTo(w, "update", "NONE")
  BY <1>2 DEF transaction_get_by_oid_and_user, NotFound, Errors,
     transaction_query_by_oid_and_user
<1>4. /\ job'[w].id = job[w].id /\ job'[w].object = o
      /\ job'[w].body = job[w].body
  BY <1>3, Moved DEF PCs, Errors
<1>5. mem'[o] = [trans_doc_parse(i) EXCEPT !.data = Merged(@, job[w].body)]
  <2>1. \A x : mem' = [mem EXCEPT ![o] = x] => mem'[o] = x
    BY <1>1
  <2> QED BY <1>3, <2>1
<1> QED BY <1>1, <1>3, <1>4, <1>5 DEF Merges, trans_doc_parse

\* With one thread, nothing happens between the two halves of an update.
LEMMA StepMerges ==
    ASSUME NEW one, Workers = {one}, IInv, Merges(one), [Next]_vars
    PROVE  Merges(one)'
<1> USE DEF IInv, PoolInv, OwnTypeOK
<1> SUFFICES ASSUME job'[one].pc = "update"
             PROVE  Merges(one)'
  BY DEF Merges
<1>1. CASE transaction_get_by_oid_and_user(one)
  BY <1>1, ReadMerges
<1>2. CASE job'[one] = job[one] /\ ~ transaction_get_by_oid_and_user(one)
  <2>1. At(one, "update")
    BY <1>2 DEF At
  <2>2. ~ Crash
    BY DEF Crash, Restarted, Idle
  <2>3. ~ Request(one)
    BY <2>1 DEF Request, BadUser, pocket_trans_create, pocket_trans_update,
       pocket_trans_delete, pocket_transaction_get_handler, pocket_transactions_handler,
       Take, At
  <2>4. ~ Continue(one)
    <3>1. ASSUME Continue(one)
          PROVE  transaction_update_one(one)
      BY <2>1, <3>1 DEF Continue, pocket_category_belongs_to_user, transaction_insert_one, pocket_trans_return,
         transaction_get_by_oid_and_user, pocket_cache_user_increment_transactions,
         transaction_delete_one_by_oid_and_user, transaction_get_by_oid_and_user_to_json,
         transactions_get_all_by_user_to_json, pocket_error_send_response, At
    <3> QED BY <3>1, UpdateEffect
  <2>5. UNCHANGED <<transactions, mem, job>>
    BY <2>2, <2>3, <2>4 DEF Next, transVars, vars
  <2> QED BY <2>5 DEF Merges
<1> QED BY <1>1, <1>2, OnlyReadsUpdate

\* With one thread, an update changes nothing that its body does not name.
THEOREM KeepsOtherFieldsHolds ==
    ASSUME NEW one, Workers = {one}
    PROVE  Spec => KeepsOtherFields
<1>1. Init => Merges(one)
  BY DEF Init, InitTrans, Merges, Idle
<1>2. ASSUME IInv, Merges(one), [Next]_vars
      PROVE  KeepsOtherFieldsStep
  <2> SUFFICES ASSUME NEW i \in Ids, At(one, "update"), transactions'[i] # transactions[i]
               PROVE  /\ job[one].body.title = Absent =>
                             transactions'[i].data.title = transactions[i].data.title
                      /\ job[one].body.category = Absent =>
                             transactions'[i].data.category =
                                 transactions[i].data.category
                      /\ job[one].body.place = Absent =>
                             transactions'[i].data.place = transactions[i].data.place
    BY DEF KeepsOtherFieldsStep
  <2>1. transaction_update_one(one)
    BY <1>2, OnlyWritesWrite DEF transaction_insert_one, transaction_delete_one_by_oid_and_user, At
  <2>2. /\ i = job[one].id
        /\ transactions'[i].data = mem[job[one].object].data
    BY <1>2, <2>1, UpdateEffect DEF IInv, PoolInv, OwnTypeOK, Documents
  <2>3. Merges(one) /\ job[one].pc = "update"
    BY <1>2 DEF At
  <2> QED BY <2>2, <2>3 DEF Merges, Merged, Given
<1>3. ASSUME IInv, Merges(one), [Next]_vars
      PROVE  Merges(one)'
  BY <1>3, StepMerges
<1> QED BY <1>1, <1>2, <1>3, Invariant, PTL DEF Spec, KeepsOtherFields

-----------------------------------------------------------------------------
(***************************************************************************)
(* The transactions controller implements OwnedStore: every step of it is a *)
(* step of the store or leaves the store and all answers as they are.      *)
(* The check of the category is no step of the store unless it fails.      *)
(***************************************************************************)

(***************************************************************************)
(* How one job looks from outside, and what changes of it.                 *)
(***************************************************************************)

\* a request that is taken, or turned down
LEMMA Accepts ==
    ASSUME IInv, NEW w \in Workers, At(w, "idle"),
           \A x \in Workers \ {w} : job'[x] = job[x],
           UNCHANGED <<transactions, owner>>,
           job'[w].op \in Promise!Ops, job'[w].id \in Ids \cup {NoId},
           job'[w].found = {},
           \/ /\ AnswerOf(w)' = "pending" /\ job'[w].user \in Users
              /\ job'[w].op = "create" => job'[w].id \in Ids \ Known
           \/ AnswerOf(w)' = "error" /\ job'[w].user \in Users \cup {NoUser}
    PROVE  Promise!Accept(w)
<1> DEFINE S == [x \in Workers |->
                    [user |-> job[x].user, op |-> job[x].op, id |-> job[x].id,
                     answer |-> AnswerOf(x), seen |-> job[x].found]]
           j == job'[w]
<1>1. job[w] = Idle /\ job[w].pc = "idle"
  BY DEF At, IInv, PoolInv, Requests, KnowsItsRequest
<1>2. S[w] = Promise!Resting
  BY <1>1 DEF Idle, AnswerOf, Promise!Resting, Promise!Request
<1>3. \A x \in Workers \ {w} : AnswerOf(x)' = AnswerOf(x)
  BY DEF AnswerOf
<1>4. S' = [S EXCEPT ![w] = Promise!Request(j.user, j.op, j.id, AnswerOf(w)')]
  BY <1>3 DEF Promise!Request
<1>5. \E op \in Promise!Ops, i \in Ids \cup {NoId} :
        \/ \E u \in Users :
            /\ op = "create" => i \in Ids \ Known
            /\ S' = [S EXCEPT ![w] = Promise!Request(u, op, i, "pending")]
        \/ \E u \in Users \cup {NoUser} :
            S' = [S EXCEPT ![w] = Promise!Request(u, op, i, "error")]
  <2> HIDE DEF S
  <2> QED BY <1>4
<1>6. /\ UNCHANGED [i \in Ids |-> [user |-> transactions[i].user, value |-> transactions[i].data]]
      /\ UNCHANGED Known
  BY DEF Known
<1> QED BY <1>2, <1>5, <1>6, Zenon DEF Promise!Accept

\* a request that is decided
LEMMA Decides ==
    ASSUME NEW w \in Workers, NEW answer, NEW seen,
           \A x \in Workers \ {w} : job'[x] = job[x],
           job'[w].user = job[w].user, job'[w].op = job[w].op, job'[w].id = job[w].id,
           AnswerOf(w)' = answer, job'[w].found = seen
    PROVE  Promise!Decided(w, answer, seen)
<1>1. \A x \in Workers \ {w} : AnswerOf(x)' = AnswerOf(x)
  BY DEF AnswerOf
<1> QED BY <1>1 DEF Promise!Decided

\* a step that nobody notices
LEMMA Unnoticed ==
    ASSUME NEW w \in Workers,
           \A x \in Workers \ {w} : job'[x] = job[x],
           job'[w].user = job[w].user, job'[w].op = job[w].op, job'[w].id = job[w].id,
           AnswerOf(w)' = AnswerOf(w), job'[w].found = job[w].found,
           UNCHANGED <<transactions, owner>>
    PROVE  UNCHANGED Promise!storeVars
<1>1. \A x \in Workers : AnswerOf(x)' = AnswerOf(x)
  BY DEF AnswerOf
<1>2. Known' = Known
  BY DEF Known
<1> QED BY <1>1, <1>2 DEF Promise!storeVars

LEMMA Outside ==
    ASSUME NEW w \in Workers
    PROVE  /\ \A op : Promise!Busy(w, op) <=> job[w].op = op /\ AnswerOf(w) = "pending"
           /\ \A u : Promise!OwnedBy(u) = {i \in Ids : transactions[i].user = u}
BY DEF Promise!Busy, Promise!OwnedBy

\* what all calls but the first have in common
LEMMA GoesOn ==
    ASSUME IInv, NEW w \in Workers, NEW pc \in PCs, NEW error \in Errors,
           MoveTo(w, pc, error)
    PROVE  /\ \A x \in Workers \ {w} : job'[x] = job[x]
           /\ job'[w].user = job[w].user /\ job'[w].op = job[w].op
           /\ job'[w].id = job[w].id /\ job'[w].found = job[w].found
           /\ job'[w].pc = pc
           /\ AnswerOf(w)' = IF pc \notin {"increment", "return", "respond"} THEN "pending"
                             ELSE IF error = "NONE" THEN "ok" ELSE "error"
BY Moved DEF IInv, PoolInv, OwnTypeOK, AnswerOf

-----------------------------------------------------------------------------
(***************************************************************************)
(* The steps.                                                              *)
(***************************************************************************)

LEMMA RefuseImplements ==
    ASSUME IInv, NEW w \in Workers, NEW u \in Users \cup {NoUser},
           NEW op \in {"create", "update", "delete", "get", "list"},
           NEW error \in Errors \ {"NONE"}, At(w, "idle"), Refuse(w, u, op, error)
    PROVE  Promise!StoreNext
<1>1. /\ \A x \in Workers \ {w} : job'[x] = job[x]
      /\ job'[w].op = op /\ job'[w].user = u /\ job'[w].id = NoId
      /\ job'[w].found = {} /\ job'[w].pc = "respond" /\ job'[w].error = error
  BY DEF Refuse, Idle, IInv, PoolInv, OwnTypeOK
<1>2. AnswerOf(w)' = "error" /\ op \in Promise!Ops
  BY <1>1 DEF AnswerOf, Promise!Ops
<1>3. UNCHANGED <<transactions, owner>>
  BY DEF Refuse
<1>4. Promise!Accept(w)
  BY <1>1, <1>2, <1>3, Accepts
<1> QED BY <1>4 DEF Promise!StoreNext, Promise!StoreStep

\* a request that is served: its job has the pc of its first call
LEMMA Served ==
    ASSUME IInv, NEW w \in Workers, NEW u \in Users, NEW i \in Ids \cup {NoId},
           NEW op \in {"create", "update", "delete", "get", "list"},
           NEW pc \in {"check", "find", "delete", "get", "list"},
           At(w, "idle"), op = "create" => i \in Ids \ Known,
           \A x \in Workers \ {w} : job'[x] = job[x],
           job'[w].op = op, job'[w].user = u, job'[w].id = i,
           job'[w].found = {}, job'[w].pc = pc,
           UNCHANGED <<transactions, owner>>
    PROVE  Promise!StoreNext
<1>1. AnswerOf(w)' = "pending" /\ op \in Promise!Ops
  BY DEF AnswerOf, Promise!Ops
<1>2. Promise!Accept(w)
  BY <1>1, Accepts
<1> QED BY <1>2 DEF Promise!StoreNext, Promise!StoreStep

LEMMA TakeImplements ==
    ASSUME IInv, NEW w \in Workers, NEW u \in Users, NEW i \in Ids \cup {NoId},
           NEW op \in {"create", "update", "delete", "get", "list"},
           NEW pc \in {"check", "find", "delete", "get", "list"}, NEW o, NEW body,
           At(w, "idle"), op = "create" => i \in Ids \ Known,
           job' = [job EXCEPT ![w] =
                     [Idle EXCEPT !.pc = pc, !.op = op, !.user = u, !.id = i,
                                  !.object = o, !.body = body]],
           UNCHANGED <<transactions, owner>>
    PROVE  Promise!StoreNext
<1>1. /\ \A x \in Workers \ {w} : job'[x] = job[x]
      /\ job'[w].op = op /\ job'[w].user = u /\ job'[w].id = i
      /\ job'[w].found = {} /\ job'[w].pc = pc
  BY DEF Idle, IInv, PoolInv, OwnTypeOK
<1> QED BY <1>1, Served

\* A create whose category is not the user's fails, and the others go on.
LEMMA CheckImplements ==
    ASSUME IInv, NEW w \in Workers, pocket_category_belongs_to_user(w)
    PROVE  Promise!StoreNext \/ UNCHANGED Promise!storeVars
<1>1. /\ At(w, "check") /\ job[w].op = "create" /\ job[w].found = {}
      /\ UNCHANGED <<transactions, owner>>
      /\ AnswerOf(w) = "pending"
  BY DEF pocket_category_belongs_to_user, IInv, PoolInv, Requests, KnowsItsRequest, At,
         AnswerOf
<1>2. Promise!Busy(w, "create") /\ "create" \in Promise!Ops
  BY <1>1, Outside DEF Promise!Ops
<1>3. UNCHANGED Known
  BY <1>1 DEF Known
<1>4. CASE NotFound(w)
  <2>1. MoveTo(w, "return", "NOT_FOUND") /\ "return" \in PCs /\ "NOT_FOUND" \in Errors
    BY <1>4 DEF NotFound, PCs, Errors
  <2>2. Promise!Decided(w, "error", {})
    BY <1>1, <2>1, GoesOn, Decides
  <2>3. Promise!Failure(w)
    BY <1>1, <1>2, <1>3, <2>2 DEF Promise!Failure
  <2> QED BY <2>3 DEF Promise!StoreStep, Promise!StoreNext
<1>5. CASE MoveTo(w, "insert", "NONE")
  <2>1. "insert" \in PCs /\ "NONE" \in Errors
    BY DEF PCs, Errors
  <2> QED BY <1>1, <1>5, <2>1, GoesOn, Unnoticed
<1> QED BY <1>4, <1>5 DEF pocket_category_belongs_to_user

LEMMA InsertImplements ==
    ASSUME IInv, NEW w \in Workers, transaction_insert_one(w)
    PROVE  Promise!StoreNext
<1> USE TransactionsAssumption DEF IInv, PoolInv
<1> DEFINE d == [user |-> job[w].user, data |-> Made(job[w].body)]
<1>1. /\ At(w, "insert") /\ job[w].id \in Ids /\ job[w].user \in Users
      /\ owner[job[w].id] = NoUser /\ job[w].op = "create"
      /\ job[w].found = {}
      /\ transactions \in [Ids -> Documents] /\ owner \in [Ids -> Users \cup {NoUser}]
      /\ Made(job[w].body) \in Data
      /\ mem[job[w].object] = [oid |-> job[w].id, user |-> job[w].user,
                               data |-> Made(job[w].body)]
  BY InsertEffect, MadeType
     DEF transaction_insert_one, OwnTypeOK, Requests, KnowsItsRequest, ObjectContents,
         KnowsItsObject, At
<1>2. PICK outcome \in DbOutcomes :
        /\ IF Applied(outcome)
           THEN /\ transactions' = [transactions EXCEPT ![job[w].id] = d]
                /\ owner' = [owner EXCEPT ![job[w].id] = job[w].user]
           ELSE UNCHANGED <<transactions, owner>>
        /\ MoveTo(w, AfterInsert(outcome), ErrorOf(outcome, "SERVER_ERROR"))
  BY <1>1 DEF transaction_insert_one, transaction_to_bson
<1> DEFINE answer == IF outcome = "ok" THEN "ok" ELSE "error"
<1>3. Promise!Decided(w, answer, {}) /\ AnswerOf(w) = "pending"
  <2>1. /\ AfterInsert(outcome) \in PCs \cap {"increment", "return"}
        /\ ErrorOf(outcome, "SERVER_ERROR") \in Errors
    BY DEF AfterInsert, ErrorOf, PCs, Errors
  <2>2. AnswerOf(w)' = answer
    BY <1>2, <2>1, GoesOn DEF ErrorOf
  <2>3. AnswerOf(w) = "pending"
    BY <1>1 DEF AnswerOf, At
  <2> QED BY <1>1, <1>2, <2>1, <2>2, <2>3, GoesOn, Decides
<1>4. Promise!Busy(w, "create")
  BY <1>1, <1>3, Outside
<1>5. CASE ~Applied(outcome)
  <2>1. answer = "error" /\ UNCHANGED <<transactions, owner>>
    BY <1>2, <1>5 DEF Applied
  <2>2. UNCHANGED Known
    BY <2>1 DEF Known
  <2> QED BY <1>3, <1>4, <2>1, <2>2
          DEF Promise!Failure, Promise!Ops, Promise!StoreStep, Promise!StoreNext
<1>6. CASE Applied(outcome)
  <2>1. /\ transactions' = [transactions EXCEPT ![job[w].id] = d]
        /\ owner' = [owner EXCEPT ![job[w].id] = job[w].user]
    BY <1>2, <1>6
  <2>2. Known' = Known \cup {job[w].id} /\ job[w].id \in Ids \ Known
    BY <1>1, <2>1 DEF Known
  <2>3. [i \in Ids |-> [user |-> transactions[i].user, value |-> transactions[i].data]]'
          = [[i \in Ids |-> [user |-> transactions[i].user, value |-> transactions[i].data]]
             EXCEPT ![job[w].id] = [user |-> job[w].user,
                                    value |-> Made(job[w].body)]]
    BY <1>1, <2>1
  <2>4. Promise!Insert(w)
    BY <1>1, <1>3, <1>4, <2>2, <2>3 DEF Promise!Insert
  <2> QED BY <2>4 DEF Promise!StoreStep, Promise!StoreNext
<1> QED BY <1>5, <1>6

\* The counter and the way back to the pool.
LEMMA UnnoticedImplements ==
    ASSUME IInv, NEW w \in Workers,
           pocket_cache_user_increment_transactions(w) \/ pocket_trans_return(w)
    PROVE  UNCHANGED Promise!storeVars
<1>1. CASE pocket_cache_user_increment_transactions(w)
  <2>1. /\ MoveTo(w, "return", job[w].error) /\ At(w, "increment")
        /\ UNCHANGED <<transactions, owner>>
    BY <1>1 DEF pocket_cache_user_increment_transactions
  <2>2. job[w].error \in Errors /\ "return" \in PCs
    BY DEF IInv, PoolInv, OwnTypeOK, Jobs, PCs
  <2>3. AnswerOf(w)' = AnswerOf(w)
    BY <2>1, <2>2, GoesOn DEF AnswerOf, At
  <2> QED BY <2>1, <2>2, <2>3, GoesOn, Unnoticed
<1>2. CASE pocket_trans_return(w)
  <2> DEFINE j == [job[w] EXCEPT !.pc = "respond", !.object = NoObject, !.body = NoBody]
  <2>1. /\ At(w, "return") /\ job' = [job EXCEPT ![w] = j]
        /\ UNCHANGED <<transactions, owner>>
        /\ job \in [Workers -> Jobs]
    BY <1>2 DEF pocket_trans_return, IInv, PoolInv, OwnTypeOK
  <2>2. /\ j.user = job[w].user /\ j.op = job[w].op /\ j.id = job[w].id
        /\ j.found = job[w].found /\ j.pc = "respond" /\ j.error = job[w].error
    BY <2>1 DEF Jobs
  <2> HIDE DEF j
  <2>3. /\ \A x \in Workers \ {w} : job'[x] = job[x]
        /\ job'[w] = j
    BY <2>1
  <2>4. AnswerOf(w)' = AnswerOf(w)
    BY <2>1, <2>2, <2>3 DEF AnswerOf, At
  <2> QED BY <2>1, <2>2, <2>3, <2>4, Unnoticed
<1> QED BY <1>1, <1>2

\* An update whose document is not found fails, one with a malformed body says
\* that all is well, and the others go on.
LEMMA FindImplements ==
    ASSUME IInv, NEW w \in Workers, transaction_get_by_oid_and_user(w)
    PROVE  Promise!StoreNext \/ UNCHANGED Promise!storeVars
<1>1. /\ At(w, "find") /\ job[w].op = "update" /\ job[w].found = {}
      /\ UNCHANGED <<transactions, owner>>
      /\ AnswerOf(w) = "pending"
  BY DEF transaction_get_by_oid_and_user, IInv, PoolInv, Requests, KnowsItsRequest, At,
         AnswerOf
<1>2. Promise!Busy(w, "update") /\ "update" \in Promise!Ops
  BY <1>1, Outside DEF Promise!Ops
<1>3. UNCHANGED Known
  BY <1>1 DEF Known
<1>4. CASE NotFound(w)
  <2>1. MoveTo(w, "return", "NOT_FOUND") /\ "return" \in PCs /\ "NOT_FOUND" \in Errors
    BY <1>4 DEF NotFound, PCs, Errors
  <2>2. Promise!Decided(w, "error", {})
    BY <1>1, <2>1, GoesOn, Decides
  <2>3. Promise!Failure(w)
    BY <1>1, <1>2, <1>3, <2>2 DEF Promise!Failure
  <2> QED BY <2>3 DEF Promise!StoreStep, Promise!StoreNext
<1>5. CASE MoveTo(w, "return", "NONE")
  <2>1. "return" \in PCs /\ "NONE" \in Errors
    BY DEF PCs, Errors
  <2>2. Promise!Decided(w, "ok", {})
    BY <1>1, <1>5, <2>1, GoesOn, Decides
  <2>3. Promise!NothingToWrite(w)
    BY <1>1, <1>2, <1>3, <2>2 DEF Promise!NothingToWrite
  <2> QED BY <2>3 DEF Promise!StoreStep, Promise!StoreNext
<1>6. CASE MoveTo(w, "update", "NONE")
  <2>1. "update" \in PCs /\ "NONE" \in Errors
    BY DEF PCs, Errors
  <2> QED BY <1>1, <1>6, <2>1, GoesOn, Unnoticed
<1> QED BY <1>4, <1>5, <1>6 DEF transaction_get_by_oid_and_user

LEMMA UpdateImplements ==
    ASSUME IInv, NEW w \in Workers, transaction_update_one(w)
    PROVE  Promise!StoreNext
<1> USE TransactionsAssumption DEF IInv, PoolInv
<1> DEFINE match == transaction_query_oid(job[w].id)
           new == mem[job[w].object].data
<1>1. /\ At(w, "update") /\ job[w].op = "update" /\ job[w].found = {}
      /\ UNCHANGED owner /\ job[w].id \in Ids /\ job[w].user \in Users
      /\ owner[job[w].id] = job[w].user
      /\ transactions \in [Ids -> Documents]
      /\ mem[job[w].object].oid = job[w].id /\ new \in Data
      /\ AnswerOf(w) = "pending"
  BY DEF transaction_update_one, Requests, KnowsItsRequest, ObjectContents, KnowsItsObject,
         Ownership, KnowsItsDocument, At, AnswerOf, OwnTypeOK, Holding
<1>2. PICK outcome \in Outcomes(match) :
        /\ transactions' = [i \in Ids |->
              IF i \in match /\ Applied(outcome)
              THEN [transactions[i] EXCEPT !.data = new] ELSE transactions[i]]
        /\ MoveTo(w, "return", ErrorOf(outcome, "SERVER_ERROR"))
  BY <1>1 DEF transaction_update_one
<1> DEFINE answer == IF outcome = "ok" THEN "ok" ELSE "error"
<1>3. Promise!Decided(w, answer, {})
  <2>1. "return" \in PCs /\ ErrorOf(outcome, "SERVER_ERROR") \in Errors
    BY DEF ErrorOf, PCs, Errors
  <2>2. AnswerOf(w)' = answer
    BY <1>2, <2>1, GoesOn DEF ErrorOf
  <2> QED BY <1>1, <1>2, <2>1, <2>2, GoesOn, Decides
<1>4. Promise!Busy(w, "update") /\ "update" \in Promise!Ops
  BY <1>1, Outside DEF Promise!Ops
<1>5. UNCHANGED Known
  BY <1>1 DEF Known
<1>6. CASE job[w].id \in match /\ Applied(outcome)
  <2>1. /\ transactions[job[w].id].user = job[w].user
        /\ transactions' = [transactions EXCEPT ![job[w].id].data = new]
    BY <1>1, <1>2, <1>6 DEF transaction_query_oid, Ownership
  <2>2. [i \in Ids |-> [user |-> transactions[i].user, value |-> transactions[i].data]]'
          = [[i \in Ids |-> [user |-> transactions[i].user, value |-> transactions[i].data]]
             EXCEPT ![job[w].id].value = new]
    <3>1. \A i \in Ids : /\ transactions'[i].user = transactions[i].user
                         /\ transactions'[i].data = IF i = job[w].id THEN new
                                                  ELSE transactions[i].data
      BY <1>1, <2>1 DEF Documents
    <3> QED BY <1>1, <3>1
  <2>3. job[w].id \in Promise!OwnedBy(job[w].user)
    BY <1>1, <2>1, Outside
  <2>4. Promise!Modify(w)
    BY <1>1, <1>3, <1>4, <1>5, <2>2, <2>3 DEF Promise!Modify
  <2> QED BY <2>4 DEF Promise!StoreStep, Promise!StoreNext
<1>7. CASE ~(job[w].id \in match /\ Applied(outcome))
  <2>1. UNCHANGED transactions
    BY <1>1, <1>2, <1>7 DEF transaction_query_oid
  <2>2. CASE outcome = "ok"
    <3>1. Promise!NothingToWrite(w)
      BY <1>3, <1>4, <1>5, <2>1, <2>2 DEF Promise!NothingToWrite
    <3> QED BY <3>1 DEF Promise!StoreStep, Promise!StoreNext
  <2>3. CASE outcome # "ok"
    <3>1. Promise!Failure(w)
      BY <1>3, <1>4, <1>5, <2>1, <2>3 DEF Promise!Failure
    <3> QED BY <3>1 DEF Promise!StoreStep, Promise!StoreNext
  <2> QED BY <2>2, <2>3
<1> QED BY <1>6, <1>7

LEMMA DeleteImplements ==
    ASSUME IInv, NEW w \in Workers, transaction_delete_one_by_oid_and_user(w)
    PROVE  Promise!StoreNext
<1> USE TransactionsAssumption DEF IInv, PoolInv
<1> DEFINE match == transaction_query_by_oid_and_user(job[w].id, job[w].user)
<1>1. /\ At(w, "delete") /\ job[w].op = "delete" /\ job[w].found = {}
      /\ UNCHANGED owner /\ job[w].user \in Users
      /\ transactions \in [Ids -> Documents]
      /\ AnswerOf(w) = "pending"
  BY DEF transaction_delete_one_by_oid_and_user, Requests, KnowsItsRequest, At, AnswerOf,
         OwnTypeOK
<1>2. PICK outcome \in Outcomes(match) :
        /\ transactions' = [i \in Ids |->
              IF i \in match /\ Applied(outcome) THEN Missing ELSE transactions[i]]
        /\ MoveTo(w, "respond", ErrorOf(outcome, "BAD_REQUEST"))
  BY DEF transaction_delete_one_by_oid_and_user
<1> DEFINE answer == IF outcome = "ok" THEN "ok" ELSE "error"
<1>3. Promise!Decided(w, answer, {})
  <2>1. "respond" \in PCs /\ ErrorOf(outcome, "BAD_REQUEST") \in Errors
    BY DEF ErrorOf, PCs, Errors
  <2>2. AnswerOf(w)' = answer
    BY <1>2, <2>1, GoesOn DEF ErrorOf
  <2> QED BY <1>1, <1>2, <2>1, <2>2, GoesOn, Decides
<1>4. Promise!Busy(w, "delete") /\ "delete" \in Promise!Ops
  BY <1>1, Outside DEF Promise!Ops
<1>5. UNCHANGED Known
  BY <1>1 DEF Known
<1>6. CASE match # {} /\ Applied(outcome)
  <2>1. /\ job[w].id \in Ids /\ match = {job[w].id}
        /\ transactions[job[w].id].user = job[w].user
    BY <1>6 DEF transaction_query_by_oid_and_user
  <2>2. transactions' = [transactions EXCEPT ![job[w].id] = Missing]
    BY <1>1, <1>2, <1>6, <2>1
  <2>3. [i \in Ids |-> [user |-> transactions[i].user, value |-> transactions[i].data]]'
          = [[i \in Ids |-> [user |-> transactions[i].user, value |-> transactions[i].data]]
             EXCEPT ![job[w].id] = [user |-> NoUser, value |-> Blank]]
    BY <1>1, <2>1, <2>2 DEF Missing
  <2>4. job[w].id \in Promise!OwnedBy(job[w].user)
    BY <2>1, Outside
  <2>5. Promise!Remove(w)
    BY <1>3, <1>4, <1>5, <2>3, <2>4 DEF Promise!Remove
  <2> QED BY <2>5 DEF Promise!StoreStep, Promise!StoreNext
<1>7. CASE match = {} \/ ~Applied(outcome)
  <2>1. UNCHANGED transactions
    BY <1>1, <1>2, <1>7
  <2>2. CASE outcome = "ok"
    <3>1. match = {}
      BY <1>7, <2>2 DEF Applied
    <3>2. job[w].id \notin Promise!OwnedBy(job[w].user)
      BY <3>1, Outside DEF transaction_query_by_oid_and_user
    <3>3. Promise!NothingToWrite(w)
      BY <1>3, <1>4, <1>5, <2>1, <2>2, <3>2 DEF Promise!NothingToWrite
    <3> QED BY <3>3 DEF Promise!StoreStep, Promise!StoreNext
  <2>3. CASE outcome # "ok"
    <3>1. Promise!Failure(w)
      BY <1>3, <1>4, <1>5, <2>1, <2>3 DEF Promise!Failure
    <3> QED BY <3>1 DEF Promise!StoreStep, Promise!StoreNext
  <2> QED BY <2>2, <2>3
<1> QED BY <1>6, <1>7

\* A GET shows what its user owns at the moment of the query.
LEMMA ReadImplements ==
    ASSUME IInv, NEW w \in Workers,
           \/ transaction_get_by_oid_and_user_to_json(w)
           \/ transactions_get_all_by_user_to_json(w)
    PROVE  Promise!StoreNext
<1> DEFINE one == transaction_query_by_oid_and_user(job[w].id, job[w].user)
           all == transaction_query_user(job[w].user)
<1>1. /\ At(w, "get") \/ At(w, "list")
      /\ job[w].op = job[w].pc /\ job[w].found = {}
      /\ UNCHANGED <<transactions, owner>>
      /\ AnswerOf(w) = "pending" /\ job \in [Workers -> Jobs]
  BY DEF transaction_get_by_oid_and_user_to_json, transactions_get_all_by_user_to_json, Read,
         ReadNothing, IInv, PoolInv, Requests, KnowsItsRequest, At, AnswerOf, OwnTypeOK
<1>2. /\ Promise!Busy(w, job[w].pc) /\ job[w].pc \in Promise!Ops
      /\ UNCHANGED Known
  BY <1>1, Outside DEF Promise!Ops, Known, At
<1>3. ASSUME NEW error \in Errors \ {"NONE"}, MoveTo(w, "respond", error)
      PROVE  Promise!StoreNext
  <2>1. "respond" \in PCs
    BY DEF PCs
  <2>2. Promise!Decided(w, "error", {})
    BY <1>1, <1>3, <2>1, GoesOn, Decides
  <2>3. Promise!Failure(w)
    BY <1>1, <1>2, <2>2 DEF Promise!Failure
  <2> QED BY <2>3 DEF Promise!StoreStep, Promise!StoreNext
<1>4. ASSUME NEW match, Read(w, match),
             \/ At(w, "get") /\ match = {job[w].id}
                /\ job[w].id \in Promise!OwnedBy(job[w].user)
             \/ At(w, "list") /\ match = Promise!OwnedBy(job[w].user)
      PROVE  Promise!StoreNext
  <2> DEFINE j == [job[w] EXCEPT !.pc = "respond", !.found = match]
  <2>1. job' = [job EXCEPT ![w] = j] /\ job[w].error = "NONE"
    BY <1>1, <1>4 DEF Read, At, IInv, PoolInv, Requests, KnowsItsRequest
  <2>2. /\ j.user = job[w].user /\ j.op = job[w].op /\ j.id = job[w].id
        /\ j.found = match /\ j.pc = "respond" /\ j.error = "NONE"
    BY <1>1, <2>1 DEF Jobs
  <2> HIDE DEF j
  <2>3. (\A x \in Workers \ {w} : job'[x] = job[x]) /\ job'[w] = j
    BY <1>1, <2>1
  <2>4. AnswerOf(w)' = "ok"
    BY <2>2, <2>3 DEF AnswerOf
  <2>5. \A x \in Workers \ {w} : AnswerOf(x)' = AnswerOf(x)
    BY <2>3 DEF AnswerOf
  <2>6. CASE At(w, "get") /\ match = {job[w].id}
             /\ job[w].id \in Promise!OwnedBy(job[w].user)
    <3>1. Promise!Busy(w, "get") /\ Promise!Decided(w, "ok", {job[w].id})
      <4>1. job[w].op = "get" /\ job'[w].found = {job[w].id}
        BY <1>1, <2>2, <2>3, <2>6 DEF At
      <4>2. Promise!Busy(w, "get")
        BY <1>1, <4>1, Outside
      <4>3. Promise!Decided(w, "ok", {job[w].id})
        BY <2>2, <2>3, <2>4, <2>5, <4>1 DEF Promise!Decided
      <4> QED BY <4>2, <4>3
    <3>2. Promise!Look(w)
      BY <1>1, <1>2, <2>6, <3>1
         DEF Promise!Look, Promise!Decided, Promise!Busy, Promise!OwnedBy
    <3> QED BY <3>2 DEF Promise!StoreStep, Promise!StoreNext
  <2>7. CASE At(w, "list") /\ match = Promise!OwnedBy(job[w].user)
    <3>1. /\ Promise!Busy(w, "list")
          /\ Promise!Decided(w, "ok", Promise!OwnedBy(job[w].user))
      <4>1. job[w].op = "list" /\ job'[w].found = Promise!OwnedBy(job[w].user)
        BY <1>1, <2>2, <2>3, <2>7 DEF At
      <4>2. Promise!Busy(w, "list")
        BY <1>1, <4>1, Outside
      <4>3. Promise!Decided(w, "ok", Promise!OwnedBy(job[w].user))
        BY <2>2, <2>3, <2>4, <2>5, <4>1 DEF Promise!Decided
      <4> QED BY <4>2, <4>3
    <3>2. Promise!Look(w)
      BY <1>1, <1>2, <3>1
         DEF Promise!Look, Promise!Decided, Promise!Busy, Promise!OwnedBy
    <3> QED BY <3>2 DEF Promise!StoreStep, Promise!StoreNext
  <2> QED BY <1>4, <2>6, <2>7
<1>5. CASE transaction_get_by_oid_and_user_to_json(w)
  <2>1. one # {} => one = {job[w].id} /\ job[w].id \in Promise!OwnedBy(job[w].user)
    BY Outside DEF transaction_query_by_oid_and_user
  <2>2. /\ At(w, "get")
        /\ \/ one # {} /\ Read(w, one)
           \/ \E error \in Errors \ {"NONE"} : MoveTo(w, "respond", error)
    BY <1>5 DEF transaction_get_by_oid_and_user_to_json, ReadNothing, Errors
  <2> QED BY <1>3, <1>4, <2>1, <2>2
<1>6. CASE transactions_get_all_by_user_to_json(w)
  <2>1. all = Promise!OwnedBy(job[w].user)
    BY Outside DEF transaction_query_user
  <2>2. /\ At(w, "list")
        /\ \/ Read(w, all)
           \/ \E error \in Errors \ {"NONE"} : MoveTo(w, "respond", error)
    BY <1>6 DEF transactions_get_all_by_user_to_json, ReadNothing, Errors
  <2> QED BY <1>3, <1>4, <2>1, <2>2
<1> QED BY <1>5, <1>6

LEMMA Rests ==
    ASSUME NEW w \in Workers, job[w] = Idle
    PROVE  [user |-> job[w].user, op |-> job[w].op, id |-> job[w].id,
            answer |-> AnswerOf(w), seen |-> job[w].found] = Promise!Resting
BY DEF Idle, AnswerOf, Promise!Resting, Promise!Request

LEMMA RespondImplements ==
    ASSUME IInv, NEW w \in Workers, pocket_error_send_response(w)
    PROVE  Promise!StoreNext
<1>1. /\ At(w, "respond") /\ job' = [job EXCEPT ![w] = Idle]
      /\ UNCHANGED <<transactions, owner>> /\ job \in [Workers -> Jobs]
  BY DEF pocket_error_send_response, IInv, PoolInv, OwnTypeOK
<1>2. (\A x \in Workers \ {w} : job'[x] = job[x]) /\ job'[w] = Idle
  BY <1>1
<1>3. AnswerOf(w) # "pending" /\ UNCHANGED Known
  BY <1>1 DEF AnswerOf, At, Known
<1>4. /\ job'[w].user = NoUser /\ job'[w].op = "none" /\ job'[w].id = NoId
      /\ job'[w].found = {} /\ AnswerOf(w)' = "pending"
  BY <1>2 DEF Idle, AnswerOf
<1>5. \A x \in Workers \ {w} : AnswerOf(x)' = AnswerOf(x)
  BY <1>2 DEF AnswerOf
<1>6. Promise!Finish(w)
  BY <1>1, <1>2, <1>3, <1>4, <1>5 DEF Promise!Finish, Promise!Resting, Promise!Request
<1> QED BY <1>6 DEF Promise!StoreStep, Promise!StoreNext

LEMMA CrashImplements ==
    ASSUME Restarted
    PROVE  Promise!StoreNext
<1>1. UNCHANGED <<transactions, owner>> /\ \A w \in Workers : job'[w] = Idle
  BY DEF Restarted
<1>2. \A w \in Workers : /\ job'[w].user = NoUser /\ job'[w].op = "none"
                         /\ job'[w].id = NoId /\ job'[w].found = {}
                         /\ AnswerOf(w)' = "pending"
  BY <1>1 DEF Idle, AnswerOf
<1>3. UNCHANGED Known
  BY <1>1 DEF Known
<1>4. Promise!Crash
  BY <1>1, <1>2, <1>3 DEF Promise!Crash, Promise!Resting, Promise!Request
<1> QED BY <1>4 DEF Promise!StoreNext

LEMMA RequestImplements ==
    ASSUME IInv, NEW w \in Workers, Request(w)
    PROVE  Promise!StoreNext
<1> USE TransactionsAssumption
<1>1. At(w, "idle")
  BY DEF Request, BadUser, pocket_trans_create, pocket_trans_update, Take,
         pocket_trans_delete, pocket_transaction_get_handler, pocket_transactions_handler
<1>2. CASE BadUser(w)
  BY <1>1, <1>2, RefuseImplements DEF BadUser, Errors
<1>3. ASSUME NEW u \in Users, pocket_trans_create(w, u)
      PROVE  Promise!StoreNext
  <2>1. CASE \E error \in Errors \ {"NONE"} : Refuse(w, u, "create", error)
    BY <1>1, <2>1, RefuseImplements DEF Errors
  <2>2. ASSUME NEW body \in Bodies, NEW o \in pool_pop, NEW i \in FreshOid,
               job' = [job EXCEPT ![w] =
                    [Idle EXCEPT !.pc = "check", !.op = "create", !.user = u,
                                 !.id = i, !.object = o, !.body = body]],
               UNCHANGED <<transactions, owner, stats>>
        PROVE  Promise!StoreNext
    <3>1. i \in Ids \ Known
      BY DEF FreshOid, Known, IInv, Ownership
    <3> QED BY <1>1, <2>2, <3>1, TakeImplements
  <2> QED BY <1>3, <2>1, <2>2 DEF pocket_trans_create, Refusal, Errors
<1>4. ASSUME NEW u \in Users, pocket_trans_update(w, u)
      PROVE  Promise!StoreNext
  <2>1. CASE Refuse(w, u, "update", "BAD_REQUEST") \/ Refuse(w, u, "update", "NOT_FOUND")
    BY <1>1, <2>1, RefuseImplements DEF Errors
  <2>2. ASSUME NEW body \in Bodies, NEW i \in Known \cup {NoId}, NEW o \in pool_pop,
               job' = [job EXCEPT ![w] =
                    [Idle EXCEPT !.pc = "find", !.op = "update", !.user = u,
                                 !.id = i, !.object = o, !.body = body]],
               UNCHANGED <<transactions, issued, owner, stats>>
        PROVE  Promise!StoreNext
    <3>1. i \in Ids \cup {NoId}
      BY DEF Known
    <3> QED BY <1>1, <2>2, <3>1, TakeImplements
  <2> QED BY <1>4, <2>1, <2>2 DEF pocket_trans_update
<1>5. ASSUME NEW u \in Users, NEW op \in {"delete", "get", "list"},
             NEW i \in Ids \cup {NoId}, Take(w, u, op, i)
      PROVE  Promise!StoreNext
  <2>1. /\ \A x \in Workers \ {w} : job'[x] = job[x]
        /\ job'[w].op = op /\ job'[w].user = u /\ job'[w].id = i
        /\ job'[w].found = {} /\ job'[w].pc = op
        /\ UNCHANGED <<transactions, owner>>
    BY <1>5 DEF Take, Idle, IInv, PoolInv, OwnTypeOK
  <2> QED BY <1>1, <2>1, Served
<1> QED BY <1>2, <1>3, <1>4, <1>5
        DEF Request, pocket_trans_delete, pocket_transaction_get_handler,
            pocket_transactions_handler, Known

-----------------------------------------------------------------------------
\* The controller is an OwnedStore for any number of users, threads, ids and
\* objects, with every failure and crash that Transactions allows: each request
\* takes effect at one moment, on documents of its own user, or not at all.
THEOREM Implements == Spec => ImplementsOwnedStore
<1>1. Init => Promise!StoreInit
  <2> SUFFICES ASSUME Init PROVE Promise!StoreInit
    OBVIOUS
  <2>1. /\ transactions = [i \in Ids |-> Missing] /\ owner = [i \in Ids |-> NoUser]
        /\ \A w \in Workers : job[w] = Idle
    BY DEF Init, InitTrans
  <2>2. Known = {}
    BY <2>1 DEF Known
  <2>3. [i \in Ids |-> [user |-> transactions[i].user, value |-> transactions[i].data]]
          = [i \in Ids |-> [user |-> NoUser, value |-> Blank]]
    BY <2>1 DEF Missing
  <2>4. [w \in Workers |->
            [user |-> job[w].user, op |-> job[w].op, id |-> job[w].id,
             answer |-> AnswerOf(w), seen |-> job[w].found]]
          = [w \in Workers |-> Promise!Resting]
    BY <2>1, Rests
  <2> QED BY <2>2, <2>3, <2>4 DEF Promise!StoreInit
<1>2. ASSUME IInv, [Next]_vars
      PROVE  [Promise!StoreNext]_Promise!storeVars
  <2>1. CASE Crash
    BY <2>1, CrashImplements DEF Crash
  <2>2. ASSUME NEW w \in Workers, Request(w)
        PROVE  Promise!StoreNext
    BY <1>2, <2>2, RequestImplements
  <2>3. ASSUME NEW w \in Workers, Continue(w)
        PROVE  Promise!StoreNext \/ UNCHANGED Promise!storeVars
    BY <1>2, <2>3, CheckImplements, InsertImplements, UnnoticedImplements, FindImplements,
       UpdateImplements, DeleteImplements, ReadImplements, RespondImplements DEF Continue
  <2>4. CASE UNCHANGED transVars
    <3>1. job' = job /\ transactions' = transactions /\ owner' = owner
      BY <2>4 DEF transVars
    <3>2. Known' = Known /\ \A w \in Workers : AnswerOf(w)' = AnswerOf(w)
      BY <3>1 DEF Known, AnswerOf
    <3> QED BY <3>1, <3>2 DEF Promise!storeVars
  <2> QED BY <1>2, <2>1, <2>2, <2>3, <2>4 DEF Next, vars, transVars
<1> QED BY <1>1, <1>2, Invariant, PTL DEF Spec, ImplementsOwnedStore, Promise!StoreSpec

=============================================================================
