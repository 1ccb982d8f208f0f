----------------------------- MODULE Categories -----------------------------
(***************************************************************************)
(* The categories controller: src/controllers/categories.c with the        *)
(* handlers of src/routes/categories.c that call it, the model functions   *)
(* of src/models/category.c it calls, and the counter of src/cache.c.      *)
(*                                                                         *)
(* Workers are the threads of the cerver's thread pool.  A worker serves   *)
(* one request at a time; job[w].pc names the call the worker is about to  *)
(* make.  A step ends at each call that touches something shared: the      *)
(* collection in MongoDB, the counters in Redis, the pool of Category      *)
(* objects.  What a handler computes in between is part of the step.       *)
(*                                                                         *)
(* MongoDB, Redis and the pool are libraries: an operation of theirs is    *)
(* atomic, and an operation that the driver reports as failed may or may   *)
(* not have been carried out (DbOutcomes).                                 *)
(***************************************************************************)
EXTENDS Naturals, FiniteSets

CONSTANTS
    Users,          \* the users that own a valid token
    Workers,        \* threads of the cerver's thread pool
    Ids,            \* bson_oid_t values this service will ever generate
    Objects,        \* the Category structures that fit in memory
    PoolInit,       \* those that pool_init () creates (CATEGORIES_POOL_INIT)
    Fields,         \* title, description, color
    Texts,          \* what a field can hold
    Empty,          \* the empty string, what a wiped field holds
    Absent,         \* a field that a body does not have
    Bodies,         \* the request bodies considered
    NoBody,         \* request->body == NULL
    Malformed,      \* a body that json_loads () refuses
    DbOutcomes,     \* how a MongoDB write can end
    CacheOutcomes,  \* how a Redis command can end
    MayCrash,       \* whether the process may die at any moment
    NoUser, NoId, NoObject

ASSUME CategoriesAssumption ==
    /\ NoUser \notin Users
    /\ NoId \notin Ids
    /\ NoObject \notin Objects
    /\ PoolInit \subseteq Objects
    /\ Empty \in Texts /\ Absent \notin Texts
    /\ NoBody # Malformed
    /\ {NoBody, Malformed} \cap [Fields -> Texts \cup {Absent}] = {}
    /\ Bodies \subseteq [Fields -> Texts \cup {Absent}] \cup {NoBody, Malformed}
    /\ DbOutcomes \subseteq {"ok", "failed", "lost"}
    /\ CacheOutcomes \subseteq {"ok", "failed"}
    /\ MayCrash \in BOOLEAN

VARIABLES
    categories,     \* the collection: a document for every id, or Missing
    issued,         \* the ids that bson_oid_init () generated
    owner,          \* history: the user for whom a document was inserted
    stats,          \* pocket:user:<id>:stats categories, in Redis
    pool,           \* the free objects of categories_pool
    allocated,      \* the objects that category_new () created
    mem,            \* the contents of the objects
    job             \* what each worker is doing

vars == <<categories, issued, owner, stats, pool, allocated, mem, job>>

Blank == [f \in Fields |-> Empty]
Missing == [user |-> NoUser, text |-> Blank]
Zeroed == [oid |-> NoId, user |-> NoUser, text |-> Blank]

(***************************************************************************)
(* object is the pooled Category a worker holds, error the PocketError it  *)
(* will answer with, found the documents it read for its answer.           *)
(***************************************************************************)
Idle == [pc |-> "idle", op |-> "none", user |-> NoUser, id |-> NoId,
         object |-> NoObject, body |-> NoBody, error |-> "NONE", found |-> {}]

Init ==
    /\ categories = [i \in Ids |-> Missing]
    /\ issued = {}
    /\ owner = [i \in Ids |-> NoUser]
    /\ stats = [u \in Users |-> 0]
    /\ pool = PoolInit
    /\ allocated = PoolInit
    /\ mem = [o \in Objects |-> Zeroed]
    /\ job = [w \in Workers |-> Idle]

-----------------------------------------------------------------------------
(***************************************************************************)
(* Helpers: queries, conversions, the pool.                                *)
(***************************************************************************)

category_query_oid(i) ==
    {j \in Ids : j = i /\ categories[j].user # NoUser}

\* mutant: the filter forgets the user
QueryAnyOwner(i, u) == category_query_oid(i)

category_query_by_oid_and_user(i, u) ==
    {j \in Ids : j = i /\ categories[j].user = u}

\* mutant: an empty filter
QueryAll(u) == {j \in Ids : categories[j].user # NoUser}

category_query_by_user(u) ==
    {j \in Ids : categories[j].user = u}

\* what is read from a document into an object, and written back
category_doc_parse(i) ==
    [oid |-> i, user |-> categories[i].user, text |-> categories[i].text]

category_to_bson(c) ==
    [user |-> c.user, text |-> c.text]

\* mutant: a field that is absent is copied too
MergedUnchecked(text, body) == body

\* mutant: a field that is absent is emptied
MergedResetting(text, body) ==
    [f \in Fields |-> IF body[f] = Absent THEN Empty ELSE body[f]]

\* the fields a body has are copied over those of the object
Merged(text, body) ==
    [f \in Fields |-> IF body[f] = Absent THEN text[f] ELSE body[f]]

\* mutant: no memset
ReturnedDirty(c) == c

\* an object on its way back to the pool
Returned(c) == Zeroed

\* pool_pop () makes a new object when the pool is empty, while memory lasts
pool_pop == IF pool # {} THEN pool ELSE Objects \ allocated

Taken(o) ==
    /\ pool' = pool \ {o}
    /\ allocated' = allocated \cup {o}

\* bson_oid_init (): an id that was never generated before
FreshOid == Ids \ issued

Known == {i \in Ids : owner[i] # NoUser}

\* a query without a match or that fails leaves nothing to read
MayFindNothing(match) == match = {} \/ "failed" \in DbOutcomes

\* a write without a match changes nothing, and may be reported either way
Outcomes(match) == IF match = {} THEN {"ok", "failed"} ELSE DbOutcomes

Applied(outcome) == outcome \in {"ok", "lost"}

\* mutant: the result of the write is ignored
ErrorIgnored(outcome, error) == "NONE"

ErrorOf(outcome, error) == IF outcome = "ok" THEN "NONE" ELSE error

At(w, pc) == job[w].pc = pc

MoveTo(w, pc, error) ==
    job' = [job EXCEPT ![w].pc = pc, ![w].error = error]

\* mutant: every insert is counted
CountedAnyway(outcome) == "increment"

\* mutant: no insert is counted
NeverCounted(outcome) == "return"

AfterInsert(outcome) == IF outcome = "ok" THEN "increment" ELSE "return"

\* mutant: the query is repeated until it finds the document
NotFoundRetrying(w) == MoveTo(w, "find", "NOT_FOUND")

\* the object goes back to the pool, the user gets a 404
NotFound(w) == MoveTo(w, "return", "NOT_FOUND")

\* the request is turned down before anything shared is touched
Refuse(w, u, op, error) ==
    /\ job' = [job EXCEPT ![w] = [Idle EXCEPT !.pc = "respond", !.op = op,
                                              !.user = u, !.error = error]]
    /\ UNCHANGED <<categories, issued, owner, stats, pool, allocated, mem>>

\* the process is gone and a new one has run pocket_init ()
Restarted ==
    /\ pool' = PoolInit
    /\ allocated' = PoolInit
    /\ mem' = [o \in Objects |-> Zeroed]
    /\ job' = [w \in Workers |-> Idle]
    /\ UNCHANGED <<categories, issued, owner, stats>>

-----------------------------------------------------------------------------
(***************************************************************************)
(* POST: create, insert, count, return.                                    *)
(***************************************************************************)

Filled(i, u, body, old) ==
    [oid |-> i, user |-> u, text |-> Merged(old.text, body)]

pocket_category_create(w, u) ==
    /\ At(w, "idle")
    /\ \E body \in Bodies :
        \/ /\ body \in {NoBody, Malformed}
           /\ Refuse(w, u, "create", "BAD_REQUEST")
        \/ /\ body \notin {NoBody, Malformed}
           /\ \E o \in pool_pop, i \in FreshOid :
                /\ Taken(o)
                /\ issued' = issued \cup {i}
                /\ mem' = [mem EXCEPT ![o] = Filled(i, u, body, @)]
                /\ job' = [job EXCEPT ![w] =
                      [Idle EXCEPT !.pc = "insert", !.op = "create", !.user = u,
                                   !.id = i, !.object = o, !.body = body]]
           /\ UNCHANGED <<categories, owner, stats>>

category_insert_one(w) ==
    LET c == mem[job[w].object] IN
    /\ At(w, "insert")
    /\ \E outcome \in DbOutcomes :
        /\ IF Applied(outcome)
           THEN /\ categories' = [categories EXCEPT ![c.oid] = category_to_bson(c)]
                /\ owner' = [owner EXCEPT ![c.oid] = c.user]
           ELSE UNCHANGED <<categories, owner>>
        /\ MoveTo(w, AfterInsert(outcome), ErrorOf(outcome, "SERVER_ERROR"))
    /\ UNCHANGED <<issued, stats, pool, allocated, mem>>

\* the reply of HINCRBY is not looked at
pocket_cache_user_increment_categories(w) ==
    /\ At(w, "increment")
    /\ \/ "ok" \in CacheOutcomes /\ stats' = [stats EXCEPT ![job[w].user] = @ + 1]
       \/ "failed" \in CacheOutcomes /\ UNCHANGED stats
    /\ MoveTo(w, "return", job[w].error)
    /\ UNCHANGED <<categories, issued, owner, pool, allocated, mem>>

\* mutant: the object is given back while its request goes on using it
ReturnedEarly(w) ==
    LET o == job[w].object IN
    /\ At(w, "return")
    /\ mem' = [mem EXCEPT ![o] = Returned(@)]
    /\ pool' = pool \cup {o}
    /\ MoveTo(w, "respond", job[w].error)
    /\ UNCHANGED <<categories, issued, owner, stats, allocated>>

\* wipe the object and give it back
pocket_category_return(w) ==
    LET o == job[w].object IN
    /\ At(w, "return")
    /\ mem' = [mem EXCEPT ![o] = Returned(@)]
    /\ pool' = pool \cup {o}
    /\ job' = [job EXCEPT ![w] = [@ EXCEPT !.pc = "respond", !.object = NoObject,
                                           !.body = NoBody]]
    /\ UNCHANGED <<categories, issued, owner, stats, allocated>>

-----------------------------------------------------------------------------
(***************************************************************************)
(* PUT: read the whole document into an object, change the fields the body *)
(* names, write the whole document back.                                   *)
(***************************************************************************)

pocket_category_update(w, u) ==
    /\ At(w, "idle")
    /\ \E body \in Bodies, i \in Known \cup {NoId} :
        \/ body = NoBody /\ Refuse(w, u, "update", "BAD_REQUEST")
        \/ body # NoBody /\ pool_pop = {} /\ Refuse(w, u, "update", "NOT_FOUND")
        \/ /\ body # NoBody
           /\ \E o \in pool_pop :
                /\ Taken(o)
                /\ mem' = [mem EXCEPT ![o].oid = i]
                /\ job' = [job EXCEPT ![w] =
                      [Idle EXCEPT !.pc = "find", !.op = "update", !.user = u,
                                   !.id = i, !.object = o, !.body = body]]
           /\ UNCHANGED <<categories, issued, owner, stats>>

category_get_by_oid_and_user(w) ==
    LET o == job[w].object
        body == job[w].body
        match == category_query_by_oid_and_user(mem[o].oid, job[w].user) IN
    /\ At(w, "find")
    /\ \/ /\ MayFindNothing(match)
          /\ NotFound(w)
          /\ UNCHANGED mem
       \/ \E i \in match :
            LET c == category_doc_parse(i) IN
            IF body = Malformed         \* its BAD_REQUEST is not passed on
            THEN /\ mem' = [mem EXCEPT ![o] = c]
                 /\ MoveTo(w, "return", "NONE")
            ELSE /\ mem' = [mem EXCEPT ![o] =
                              [c EXCEPT !.text = Merged(@, body)]]
                 /\ MoveTo(w, "update", "NONE")
    /\ UNCHANGED <<categories, issued, owner, stats, pool, allocated>>

\* mutant: a document that is gone is written again
UpsertOne(w) ==
    LET c == mem[job[w].object] IN
    /\ At(w, "update")
    /\ categories' = [categories EXCEPT ![c.oid] = category_to_bson(c)]
    /\ MoveTo(w, "return", "NONE")
    /\ UNCHANGED <<issued, owner, stats, pool, allocated, mem>>

\* the filter names the id only
category_update_one(w) ==
    LET c == mem[job[w].object]
        match == category_query_oid(c.oid) IN
    /\ At(w, "update")
    /\ \E outcome \in Outcomes(match) :
        /\ categories' = [i \in Ids |->
              IF i \in match /\ Applied(outcome)
              THEN [categories[i] EXCEPT !.text = c.text]
              ELSE categories[i]]
        /\ MoveTo(w, "return", ErrorOf(outcome, "SERVER_ERROR"))
    /\ UNCHANGED <<issued, owner, stats, pool, allocated, mem>>

-----------------------------------------------------------------------------
(***************************************************************************)
(* DELETE and GET: one call to the database, no object.                    *)
(***************************************************************************)

Take(w, u, op, i) ==
    /\ At(w, "idle")
    /\ job' = [job EXCEPT ![w] = [Idle EXCEPT !.pc = op, !.op = op,
                                              !.user = u, !.id = i]]
    /\ UNCHANGED <<categories, issued, owner, stats, pool, allocated, mem>>

pocket_category_delete(w, u) ==
    \E i \in Known \cup {NoId} : Take(w, u, "delete", i)

category_delete_one_by_oid_and_user(w) ==
    LET match == category_query_by_oid_and_user(job[w].id, job[w].user) IN
    /\ At(w, "delete")
    /\ \E outcome \in Outcomes(match) :
        /\ categories' = [i \in Ids |->
              IF i \in match /\ Applied(outcome) THEN Missing ELSE categories[i]]
        /\ MoveTo(w, "respond", ErrorOf(outcome, "BAD_REQUEST"))
    /\ UNCHANGED <<issued, owner, stats, pool, allocated, mem>>

pocket_category_get_handler(w, u) ==
    \E i \in Known \cup {NoId} : Take(w, u, "get", i)

Read(w, match) ==
    /\ job' = [job EXCEPT ![w].pc = "respond", ![w].found = match]
    /\ UNCHANGED <<categories, issued, owner, stats, pool, allocated, mem>>

ReadNothing(w, match, error) ==
    /\ MayFindNothing(match)
    /\ MoveTo(w, "respond", error)
    /\ UNCHANGED <<categories, issued, owner, stats, pool, allocated, mem>>

\* a document that cannot be turned into json is a server error
category_get_by_oid_and_user_to_json(w) ==
    LET match == category_query_by_oid_and_user(job[w].id, job[w].user) IN
    /\ At(w, "get")
    /\ \/ match # {} /\ Read(w, match)
       \/ match # {} /\ ReadNothing(w, match, "SERVER_ERROR")
       \/ ReadNothing(w, match, "NOT_FOUND")

pocket_categories_handler(w, u) == Take(w, u, "list", NoId)

categories_get_all_by_user_to_json(w) ==
    LET match == category_query_by_user(job[w].user) IN
    /\ At(w, "list")
    /\ Read(w, match) \/ ReadNothing(w, match, "NOT_FOUND")

-----------------------------------------------------------------------------

\* the token was not that of a user: request->decoded_data is NULL
BadUser(w) ==
    /\ At(w, "idle")
    /\ \E op \in {"create", "update", "delete", "get", "list"} :
          Refuse(w, NoUser, op, "BAD_USER")

pocket_error_send_response(w) ==
    /\ At(w, "respond")
    /\ job' = [job EXCEPT ![w] = Idle]
    /\ UNCHANGED <<categories, issued, owner, stats, pool, allocated, mem>>

Request(w) ==
    \/ BadUser(w)
    \/ \E u \in Users :
        \/ pocket_category_create(w, u)
        \/ pocket_category_update(w, u)
        \/ pocket_category_delete(w, u)
        \/ pocket_category_get_handler(w, u)
        \/ pocket_categories_handler(w, u)

Continue(w) ==
    \/ category_insert_one(w)
    \/ pocket_cache_user_increment_categories(w)
    \/ pocket_category_return(w)
    \/ category_get_by_oid_and_user(w)
    \/ category_update_one(w)
    \/ category_delete_one_by_oid_and_user(w)
    \/ category_get_by_oid_and_user_to_json(w)
    \/ categories_get_all_by_user_to_json(w)
    \/ pocket_error_send_response(w)

\* a create without an object goes on with NULL
NullDereferenced(w) ==
    /\ At(w, "idle")
    /\ Bodies \ {NoBody, Malformed} # {}
    /\ Users # {}
    /\ pool_pop = {}

Crash == (MayCrash \/ \E w \in Workers : NullDereferenced(w)) /\ Restarted

Next == Crash \/ \E w \in Workers : Request(w) \/ Continue(w)

Spec == Init /\ [][Next]_vars

-----------------------------------------------------------------------------
(***************************************************************************)
(* Properties.                                                             *)
(***************************************************************************)

Documents == [user : Users \cup {NoUser}, text : [Fields -> Texts]]

PCs == {"idle", "insert", "increment", "find", "update", "return",
        "delete", "get", "list", "respond"}

Errors == {"NONE", "BAD_REQUEST", "BAD_USER", "NOT_FOUND", "SERVER_ERROR"}

Jobs == [pc : PCs,
         op : {"none", "create", "update", "delete", "get", "list"},
         user : Users \cup {NoUser},
         id : Ids \cup {NoId},
         object : Objects \cup {NoObject},
         body : Bodies \cup {NoBody},
         error : Errors,
         found : SUBSET Ids]

\* The type invariant of the controller's state.
TypeOK ==
    /\ categories \in [Ids -> Documents]
    /\ issued \subseteq Ids
    /\ owner \in [Ids -> Users \cup {NoUser}]
    /\ stats \in [Users -> Nat]
    /\ pool \subseteq Objects
    /\ allocated \subseteq Objects
    /\ mem \in [Objects -> [oid : Ids \cup {NoId}, user : Users \cup {NoUser},
                            text : [Fields -> Texts]]]
    /\ job \in [Workers -> Jobs]

Held(w) == {job[w].object} \cap Objects

\* categories_pool: an object is either free or in the hands of one request,
\* whatever other threads pop and push; nobody works on another's category.
ObjectsAreExclusive ==
    \A w \in Workers :
        /\ Held(w) \cap pool = {}
        /\ \A x \in Workers \ {w} : Held(w) \cap Held(x) = {}

\* What pocket_category_return () pushes is wiped, so that the next request,
\* of any user, that pops the object inherits no field of this one.
FreeObjectsAreWiped == \A o \in pool : mem[o] = Zeroed

\* Every path through a handler gives back the object it took: what
\* category_new () allocated is free or held by a running request.
NothingLeaks == allocated = pool \cup UNION {Held(w) : w \in Workers}

\* The pool of categories, whatever two threads do with it, whatever fails and
\* on every path through the handlers: all three of the above.
PoolIsSound == ObjectsAreExclusive /\ FreeObjectsAreWiped /\ NothingLeaks

Inserted(u) == {i \in Ids : owner[i] = u}

Counting(u) == {w \in Workers : At(w, "increment") /\ job[w].user = u}

\* The counter in Redis runs behind the collection and never ahead of it:
\* lost replies, failed commands and crashes cannot make it count an insert
\* that did not happen, or one twice.
StatsNeverAhead ==
    \A u \in Users : stats[u] + Cardinality(Counting(u)) <= Cardinality(Inserted(u))

\* Without failures the counter is exact once no insert is being counted.
StatsExact ==
    \A u \in Users : stats[u] + Cardinality(Counting(u)) = Cardinality(Inserted(u))

\* A request that reads from the database answers with nothing but documents
\* that were inserted for its own user.
ReadsAreOwn ==
    \A w \in Workers : \A i \in job[w].found : owner[i] = job[w].user

\* A 200 tells the truth: the category created is in the collection under the
\* user's name or was deleted since, the category deleted is not there.
SuccessIsTrue ==
    \A w \in Workers : At(w, "respond") /\ job[w].error = "NONE" =>
        /\ job[w].op = "create" => owner[job[w].id] = job[w].user
        /\ job[w].op = "delete" /\ job[w].id \in Ids =>
              categories[job[w].id].user # job[w].user

\* No step of one user's request changes a document of another user, also
\* between the ownership check of an update and its write by id alone.
IsolationStep ==
    \A i \in Ids : categories'[i] # categories[i] =>
        \E w \in Workers : /\ job[w].pc \in {"insert", "update", "delete"}
                           /\ job[w].user = owner'[i]

Isolation == [][IsolationStep]_vars

\* A document keeps its owner for as long as it exists and an id whose
\* document was deleted never has one again, not by an update that read the
\* document before the delete either.
NoResurrectionStep ==
    \A i \in Known : /\ owner'[i] = owner[i]
                     /\ categories'[i].user \in {NoUser, categories[i].user}

NoResurrection == [][NoResurrectionStep]_vars

\* What a create stores is what its body said and nothing else: a field that
\* the body leaves out is empty, whatever the pooled object held before.
StoresWhatWasSentStep ==
    \A w \in Workers : At(w, "insert") /\ owner' # owner /\ job'[w] # job[w] =>
        categories'[job[w].id] = [user |-> job[w].user,
                                  text |-> Merged(Blank, job[w].body)]

StoresWhatWasSent == [][StoresWhatWasSentStep]_vars

\* An update leaves the fields its body does not name as they are.  True of
\* one request at a time: two that overlap write back what they read.
KeepsOtherFieldsStep ==
    \A w \in Workers, i \in Ids :
        At(w, "update") /\ job'[w] # job[w] /\ categories'[i] # categories[i] =>
            \A f \in Fields : job[w].body[f] = Absent =>
                categories'[i].text[f] = categories[i].text[f]

KeepsOtherFields == [][KeepsOtherFieldsStep]_vars

\* "200 on success updating user's category", "400 bad request due to missing
\* values" (README.md:121-122): an update that is going to be answered with
\* 200 has put the values of its body into the category.
AcknowledgedUpdateStep ==
    \A w \in Workers :
        /\ job[w].pc \in {"find", "update"}
        /\ job'[w].pc = "return" /\ job'[w].error = "NONE"
        => /\ job[w].body # Malformed
           /\ LET text == categories'[job[w].id].text IN
              text = Merged(text, job[w].body)

AcknowledgedUpdate == [][AcknowledgedUpdateStep]_vars

(***************************************************************************)
(* The controller implements OwnedStore.  A request takes effect at its    *)
(* call to insert, update_one, delete_one or the query of a GET.           *)
(***************************************************************************)
AnswerOf(w) ==
    IF job[w].pc \notin {"increment", "return", "respond"} THEN "pending"
    ELSE IF job[w].error = "NONE" THEN "ok" ELSE "error"

Promise == INSTANCE OwnedStore WITH
    Values <- [Fields -> Texts],
    Nothing <- Blank,
    store <- [i \in Ids |-> [user |-> categories[i].user,
                             value |-> categories[i].text]],
    spent <- Known,
    serving <- [w \in Workers |->
        [user |-> job[w].user, op |-> job[w].op, id |-> job[w].id,
         answer |-> AnswerOf(w), seen |-> job[w].found]]

\* Each request takes effect at a single moment, on its own user's documents.
ImplementsOwnedStore == Promise!StoreSpec

=============================================================================
