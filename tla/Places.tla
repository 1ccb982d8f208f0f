------------------------------- MODULE Places -------------------------------
(***************************************************************************)
(* The places controller: src/controllers/places.c with the handlers of    *)
(* src/routes/places.c, the model functions of src/models/place.c and the  *)
(* counter of src/cache.c.                                                 *)
(*                                                                         *)
(* It is built like Categories, with two differences that matter: a        *)
(* document is read into an object only in part (place_doc_parse skips the *)
(* site and the color), and an update writes back no more than the name    *)
(* and the description.                                                    *)
(***************************************************************************)
EXTENDS Integers, FiniteSets

CONSTANTS
    Users, Workers,
    Ids,            \* the place ids this service will ever generate
    Objects, PoolInit,
    Texts, Empty,   \* Empty is what a wiped text holds
    Numbers,        \* what atoi () can make of a type
    NoSite,         \* a document without a "site"
    Absent, Bodies, NoBody, Malformed,
    DbOutcomes, CacheOutcomes, MayCrash,
    NoUser, NoId, NoObject

\* enum PlaceType
PLACE_TYPE_NONE == 0
PLACE_TYPE_LOCATION == 1
PLACE_TYPE_SITE == 2
PLACE_TYPE_INVALID == 3

\* site stands for the two fields of a Site, link and logo
Contents == [name : Texts \cup {Absent},
             description : Texts \cup {Absent},
             type : Numbers \cup {Absent},
             site : Texts \cup {Absent},
             color : Texts \cup {Absent}]

ASSUME PlacesAssumption ==
    /\ NoUser \notin Users
    /\ NoId \notin Ids
    /\ NoObject \notin Objects
    /\ PoolInit \subseteq Objects
    /\ Empty \in Texts /\ NoSite \notin Texts
    /\ Numbers \subseteq Int /\ PLACE_TYPE_NONE \in Numbers
    /\ Absent \notin Texts \cup Numbers
    /\ NoBody # Malformed
    /\ {NoBody, Malformed} \cap Contents = {}
    /\ Bodies \subseteq Contents \cup {NoBody, Malformed}
    /\ DbOutcomes \subseteq {"ok", "failed", "lost"}
    /\ CacheOutcomes \subseteq {"ok", "failed"}
    /\ MayCrash \in BOOLEAN

VARIABLES
    places,         \* the collection: a document for every id, or Missing
    issued,         \* the ids that bson_oid_init () generated
    owner,          \* history: the user for whom a document was inserted
    stats,          \* pocket:user:<id>:stats places, in Redis
    pool,           \* the free objects of places_pool
    allocated,      \* the objects that place_new () created
    mem,            \* the contents of the objects
    job             \* what each worker is doing

vars == <<places, issued, owner, stats, pool, allocated, mem, job>>

Blank == [name |-> Empty, description |-> Empty, type |-> PLACE_TYPE_NONE,
          site |-> Empty, color |-> Empty]
Missing == [user |-> NoUser, data |-> [Blank EXCEPT !.site = NoSite]]
Zeroed == [oid |-> NoId, user |-> NoUser, data |-> Blank]

Idle == [pc |-> "idle", op |-> "none", user |-> NoUser, id |-> NoId,
         object |-> NoObject, body |-> NoBody, error |-> "NONE", found |-> {}]

Init ==
    /\ places = [i \in Ids |-> Missing]
    /\ issued = {}
    /\ owner = [i \in Ids |-> NoUser]
    /\ stats = [u \in Users |-> 0]
    /\ pool = PoolInit
    /\ allocated = PoolInit
    /\ mem = [o \in Objects |-> Zeroed]
    /\ job = [w \in Workers |-> Idle]

-----------------------------------------------------------------------------
(***************************************************************************)
(* Helpers: queries, conversions, the pool.                                *)
(***************************************************************************)

place_query_oid(i) == {j \in Ids : j = i /\ places[j].user # NoUser}

place_query_by_oid_and_user(i, u) == {j \in Ids : j = i /\ places[j].user = u}

place_query_by_user(u) == {j \in Ids : places[j].user = u}

\* there is an upper bound and no lower one
place_type_from_value_string(n) ==
    IF n # Absent /\ n < PLACE_TYPE_INVALID THEN n ELSE PLACE_TYPE_NONE

\* the document without its site and its color, over what the object holds
place_doc_parse(i, old) ==
    LET doc == places[i].data IN
    [oid |-> i, user |-> places[i].user,
     data |-> [old EXCEPT !.name = doc.name, !.description = doc.description,
                          !.type = doc.type]]

\* mutant: only a location has none
SiteUnlessLocation(p) ==
    [user |-> p.user,
     data |-> IF p.data.type # PLACE_TYPE_LOCATION THEN p.data
              ELSE [p.data EXCEPT !.site = NoSite]]

\* only the document of a site has one
place_to_bson(p) ==
    [user |-> p.user,
     data |-> IF p.data.type = PLACE_TYPE_SITE THEN p.data
              ELSE [p.data EXCEPT !.site = NoSite]]

\* mutant: the whole object is written
WholeBson(doc, data) == data

\* what $set makes of a document
place_update_bson(doc, data) ==
    [doc EXCEPT !.name = data.name, !.description = data.description]

Given(value, default) == IF value = Absent THEN default ELSE value

\* a new place: link and logo are for sites only
Filled(i, u, body, old) ==
    LET type == place_type_from_value_string(body.type) IN
    [oid |-> i, user |-> u,
     data |-> [name |-> Given(body.name, old.name),
               description |-> Given(body.description, old.description),
               type |-> type,
               site |-> IF type = PLACE_TYPE_SITE THEN Given(body.site, old.site)
                        ELSE old.site,
               color |-> Given(body.color, old.color)]]

\* mutant: a name that is absent is copied too
MergedUnchecked(data, body) ==
    [data EXCEPT !.name = body.name,
                 !.description = Given(body.description, @)]

\* mutant: a field that is absent is emptied
MergedResetting(data, body) ==
    [data EXCEPT !.name = Given(body.name, Empty),
                 !.description = Given(body.description, Empty)]

\* an update looks at no more than the name and the description
Merged(data, body) ==
    [data EXCEPT !.name = Given(body.name, @),
                 !.description = Given(body.description, @)]

\* mutant: no memset
ReturnedDirty(p) == p

Returned(p) == Zeroed

pool_pop == IF pool # {} THEN pool ELSE Objects \ allocated

Taken(o) ==
    /\ pool' = pool \ {o}
    /\ allocated' = allocated \cup {o}

FreshOid == Ids \ issued

Known == {i \in Ids : owner[i] # NoUser}

MayFindNothing(match) == match = {} \/ "failed" \in DbOutcomes

Outcomes(match) == IF match = {} THEN {"ok", "failed"} ELSE DbOutcomes

Applied(outcome) == outcome \in {"ok", "lost"}

ErrorOf(outcome, error) == IF outcome = "ok" THEN "NONE" ELSE error

\* mutant: every insert is counted
CountedAnyway(outcome) == "increment"

AfterInsert(outcome) == IF outcome = "ok" THEN "increment" ELSE "return"

At(w, pc) == job[w].pc = pc

MoveTo(w, pc, error) ==
    job' = [job EXCEPT ![w].pc = pc, ![w].error = error]

Refuse(w, u, op, error) ==
    /\ job' = [job EXCEPT ![w] = [Idle EXCEPT !.pc = "respond", !.op = op,
                                              !.user = u, !.error = error]]
    /\ UNCHANGED <<places, issued, owner, stats, pool, allocated, mem>>

\* mutant: the object is forgotten
NotFoundLeaking(w) ==
    job' = [job EXCEPT ![w] = [@ EXCEPT !.pc = "respond", !.object = NoObject,
                                        !.error = "NOT_FOUND"]]

\* the object goes back to the pool, the user gets a 404
NotFound(w) == MoveTo(w, "return", "NOT_FOUND")

\* the process is gone and a new one has run pocket_init ()
Restarted ==
    /\ pool' = PoolInit
    /\ allocated' = PoolInit
    /\ mem' = [o \in Objects |-> Zeroed]
    /\ job' = [w \in Workers |-> Idle]
    /\ UNCHANGED <<places, issued, owner, stats>>

-----------------------------------------------------------------------------
(***************************************************************************)
(* POST: create, insert, count, return.                                    *)
(***************************************************************************)

pocket_place_create(w, u) ==
    /\ At(w, "idle")
    /\ \E body \in Bodies :
        \/ /\ body \in {NoBody, Malformed}
           /\ Refuse(w, u, "create", "BAD_REQUEST")
        \/ /\ body \notin {NoBody, Malformed}
           /\ \E o \in pool_pop, i \in FreshOid :
                /\ Taken(o)
                /\ issued' = issued \cup {i}
                /\ mem' = [mem EXCEPT ![o] = Filled(i, u, body, @.data)]
                /\ job' = [job EXCEPT ![w] =
                      [Idle EXCEPT !.pc = "insert", !.op = "create", !.user = u,
                                   !.id = i, !.object = o, !.body = body]]
           /\ UNCHANGED <<places, owner, stats>>

place_insert_one(w) ==
    LET p == mem[job[w].object] IN
    /\ At(w, "insert")
    /\ \E outcome \in DbOutcomes :
        /\ IF Applied(outcome)
           THEN /\ places' = [places EXCEPT ![p.oid] = place_to_bson(p)]
                /\ owner' = [owner EXCEPT ![p.oid] = p.user]
           ELSE UNCHANGED <<places, owner>>
        /\ MoveTo(w, AfterInsert(outcome), ErrorOf(outcome, "SERVER_ERROR"))
    /\ UNCHANGED <<issued, stats, pool, allocated, mem>>

pocket_cache_user_increment_places(w) ==
    /\ At(w, "increment")
    /\ \/ "ok" \in CacheOutcomes /\ stats' = [stats EXCEPT ![job[w].user] = @ + 1]
       \/ "failed" \in CacheOutcomes /\ UNCHANGED stats
    /\ MoveTo(w, "return", job[w].error)
    /\ UNCHANGED <<places, issued, owner, pool, allocated, mem>>

pocket_place_return(w) ==
    LET o == job[w].object IN
    /\ At(w, "return")
    /\ mem' = [mem EXCEPT ![o] = Returned(@)]
    /\ pool' = pool \cup {o}
    /\ job' = [job EXCEPT ![w] = [@ EXCEPT !.pc = "respond", !.object = NoObject,
                                           !.body = NoBody]]
    /\ UNCHANGED <<places, issued, owner, stats, allocated>>

-----------------------------------------------------------------------------
(***************************************************************************)
(* PUT, DELETE and GET.                                                    *)
(***************************************************************************)

pocket_place_update(w, u) ==
    /\ At(w, "idle")
    /\ \E body \in Bodies, i \in Known \cup {NoId} :
        \/ body = NoBody /\ Refuse(w, u, "update", "BAD_REQUEST")
        \/ body # NoBody /\ pool_pop = {} /\ Refuse(w, u, "update", "NOT_FOUND")
        \/ /\ body # NoBody
           /\ \E o \in pool_pop :
                /\ Taken(o)
                /\ mem' = [mem EXCEPT ![o].oid = i]
                /\ job' = [job EXCEPT ![w] =
                      [Idle EXCEPT !.pc = "find", !.op = "update", !.user = u,
                                   !.id = i, !.object = o, !.body = body]]
           /\ UNCHANGED <<places, issued, owner, stats>>

place_get_by_oid_and_user(w) ==
    LET o == job[w].object
        body == job[w].body
        match == place_query_by_oid_and_user(mem[o].oid, job[w].user) IN
    /\ At(w, "find")
    /\ \/ /\ MayFindNothing(match)
          /\ NotFound(w)
          /\ UNCHANGED mem
       \/ \E i \in match :
            LET p == place_doc_parse(i, mem[o].data) IN
            IF body = Malformed         \* its BAD_REQUEST is not passed on
            THEN /\ mem' = [mem EXCEPT ![o] = p]
                 /\ MoveTo(w, "return", "NONE")
            ELSE /\ mem' = [mem EXCEPT ![o] =
                              [p EXCEPT !.data = Merged(@, body)]]
                 /\ MoveTo(w, "update", "NONE")
    /\ UNCHANGED <<places, issued, owner, stats, pool, allocated>>

\* mutant: a document that is gone is written again
UpsertOne(w) ==
    LET p == mem[job[w].object] IN
    /\ At(w, "update")
    /\ places' = [places EXCEPT ![p.oid] = place_to_bson(p)]
    /\ MoveTo(w, "return", "NONE")
    /\ UNCHANGED <<issued, owner, stats, pool, allocated, mem>>

\* the filter names the id only
place_update_one(w) ==
    LET p == mem[job[w].object]
        match == place_query_oid(p.oid) IN
    /\ At(w, "update")
    /\ \E outcome \in Outcomes(match) :
        /\ places' = [i \in Ids |->
              IF i \in match /\ Applied(outcome)
              THEN [places[i] EXCEPT !.data = place_update_bson(@, p.data)]
              ELSE places[i]]
        /\ MoveTo(w, "return", ErrorOf(outcome, "SERVER_ERROR"))
    /\ UNCHANGED <<issued, owner, stats, pool, allocated, mem>>

Take(w, u, op, i) ==
    /\ At(w, "idle")
    /\ job' = [job EXCEPT ![w] = [Idle EXCEPT !.pc = op, !.op = op,
                                              !.user = u, !.id = i]]
    /\ UNCHANGED <<places, issued, owner, stats, pool, allocated, mem>>

pocket_place_delete(w, u) ==
    \E i \in Known \cup {NoId} : Take(w, u, "delete", i)

place_delete_one_by_oid_and_user(w) ==
    LET match == place_query_by_oid_and_user(job[w].id, job[w].user) IN
    /\ At(w, "delete")
    /\ \E outcome \in Outcomes(match) :
        /\ places' = [i \in Ids |->
              IF i \in match /\ Applied(outcome) THEN Missing ELSE places[i]]
        /\ MoveTo(w, "respond", ErrorOf(outcome, "BAD_REQUEST"))
    /\ UNCHANGED <<issued, owner, stats, pool, allocated, mem>>

Read(w, match) ==
    /\ job' = [job EXCEPT ![w].pc = "respond", ![w].found = match]
    /\ UNCHANGED <<places, issued, owner, stats, pool, allocated, mem>>

ReadNothing(w, match, error) ==
    /\ MayFindNothing(match)
    /\ MoveTo(w, "respond", error)
    /\ UNCHANGED <<places, issued, owner, stats, pool, allocated, mem>>

pocket_place_get_handler(w, u) ==
    \E i \in Known \cup {NoId} : Take(w, u, "get", i)

place_get_by_oid_and_user_to_json(w) ==
    LET match == place_query_by_oid_and_user(job[w].id, job[w].user) IN
    /\ At(w, "get")
    /\ \/ match # {} /\ Read(w, match)
       \/ match # {} /\ ReadNothing(w, match, "SERVER_ERROR")
       \/ ReadNothing(w, match, "NOT_FOUND")

pocket_places_handler(w, u) == Take(w, u, "list", NoId)

places_get_all_by_user_to_json(w) ==
    LET match == place_query_by_user(job[w].user) IN
    /\ At(w, "list")
    /\ Read(w, match) \/ ReadNothing(w, match, "NOT_FOUND")

BadUser(w) ==
    /\ At(w, "idle")
    /\ \E op \in {"create", "update", "delete", "get", "list"} :
          Refuse(w, NoUser, op, "BAD_USER")

pocket_error_send_response(w) ==
    /\ At(w, "respond")
    /\ job' = [job EXCEPT ![w] = Idle]
    /\ UNCHANGED <<places, issued, owner, stats, pool, allocated, mem>>

-----------------------------------------------------------------------------

Request(w) ==
    \/ BadUser(w)
    \/ \E u \in Users :
        \/ pocket_place_create(w, u)
        \/ pocket_place_update(w, u)
        \/ pocket_place_delete(w, u)
        \/ pocket_place_get_handler(w, u)
        \/ pocket_places_handler(w, u)

Continue(w) ==
    \/ place_insert_one(w)
    \/ pocket_cache_user_increment_places(w)
    \/ pocket_place_return(w)
    \/ place_get_by_oid_and_user(w)
    \/ place_update_one(w)
    \/ place_delete_one_by_oid_and_user(w)
    \/ place_get_by_oid_and_user_to_json(w)
    \/ places_get_all_by_user_to_json(w)
    \/ pocket_error_send_response(w)

\* a create without an object goes on with NULL
NullDereferenced(w) ==
    /\ At(w, "idle")
    /\ Bodies \ {NoBody, Malformed} # {}
    /\ Users # {}
    /\ pool_pop = {}

Crash == (MayCrash \/ \E w \in Workers : NullDereferenced(w)) /\ Restarted

Next == Crash \/ \E w \in Workers : Request(w) \/ Continue(w)

Spec == Init /\ [][Next]_vars

-----------------------------------------------------------------------------
(***************************************************************************)
(* Properties.                                                             *)
(***************************************************************************)

Data == [name : Texts, description : Texts, type : Numbers,
         site : Texts \cup {NoSite}, color : Texts]

Documents == [user : Users \cup {NoUser}, data : Data]

PCs == {"idle", "insert", "increment", "find", "update", "return",
        "delete", "get", "list", "respond"}

Errors == {"NONE", "BAD_REQUEST", "BAD_USER", "NOT_FOUND", "SERVER_ERROR"}

Jobs == [pc : PCs,
         op : {"none", "create", "update", "delete", "get", "list"},
         user : Users \cup {NoUser},
         id : Ids \cup {NoId},
         object : Objects \cup {NoObject},
         body : Bodies \cup {NoBody},
         error : Errors,
         found : SUBSET Ids]

\* The type invariant of the controller's state.
TypeOK ==
    /\ places \in [Ids -> Documents]
    /\ issued \subseteq Ids
    /\ owner \in [Ids -> Users \cup {NoUser}]
    /\ stats \in [Users -> Nat]
    /\ pool \subseteq Objects
    /\ allocated \subseteq Objects
    /\ mem \in [Objects -> [oid : Ids \cup {NoId}, user : Users \cup {NoUser},
                            data : Data]]
    /\ job \in [Workers -> Jobs]

Held(w) == {job[w].object} \cap Objects

\* places_pool: an object is free and wiped, or held by one request; no path
\* through create and update loses one.
PoolIsSound ==
    /\ allocated = pool \cup UNION {Held(w) : w \in Workers}
    /\ \A w \in Workers :
        /\ Held(w) \cap pool = {}
        /\ \A x \in Workers \ {w} : Held(w) \cap Held(x) = {}
    /\ \A o \in pool : mem[o] = Zeroed

Inserted(u) == {i \in Ids : owner[i] = u}

Counting(u) == {w \in Workers : At(w, "increment") /\ job[w].user = u}

\* The counter in Redis runs behind the collection and never ahead of it.
StatsNeverAhead ==
    \A u \in Users : stats[u] + Cardinality(Counting(u)) <= Cardinality(Inserted(u))

\* A stored document has a site exactly when its type is a site's, before and
\* after any update, for every number that atoi () makes of the type of a body:
\* also for a negative one, which place_type_from_value_string () lets through.
SitesMatchTypes ==
    \A i \in Ids : (places[i].data.site # NoSite) <=> (places[i].data.type = PLACE_TYPE_SITE)

\* What a place is is decided when it is created: no update changes the type,
\* the site or the color, though the object it writes from does not hold them.
OnlyTextsChangeStep ==
    \A i \in Ids :
        places[i].user # NoUser /\ places'[i].user # NoUser =>
            /\ places'[i].data.type = places[i].data.type
            /\ places'[i].data.site = places[i].data.site
            /\ places'[i].data.color = places[i].data.color

OnlyTextsChange == [][OnlyTextsChangeStep]_vars

\* A create stores what its body said and nothing of the request that used
\* the object before it.
StoresWhatWasSentStep ==
    \A w \in Workers : At(w, "insert") /\ owner' # owner /\ job'[w] # job[w] =>
        LET data == places'[job[w].id].data
            body == job[w].body IN
        /\ data.name = Given(body.name, Empty)
        /\ data.description = Given(body.description, Empty)
        /\ data.color = Given(body.color, Empty)
        /\ data.site \in {NoSite, Given(body.site, Empty)}

StoresWhatWasSent == [][StoresWhatWasSentStep]_vars

\* Without failures the counter is exact once no insert is being counted.
StatsExact ==
    \A u \in Users : stats[u] + Cardinality(Counting(u)) = Cardinality(Inserted(u))

\* An update leaves a name or a description that its body does not hold as it
\* is.  True of one request at a time, as for categories.
KeepsOtherFieldsStep ==
    \A w \in Workers, i \in Ids :
        At(w, "update") /\ job'[w] # job[w] /\ places'[i] # places[i] =>
            /\ job[w].body.name = Absent =>
                  places'[i].data.name = places[i].data.name
            /\ job[w].body.description = Absent =>
                  places'[i].data.description = places[i].data.description

KeepsOtherFields == [][KeepsOtherFieldsStep]_vars

(***************************************************************************)
(* The controller implements OwnedStore, like the other two.               *)
(***************************************************************************)
AnswerOf(w) ==
    IF job[w].pc \notin {"increment", "return", "respond"} THEN "pending"
    ELSE IF job[w].error = "NONE" THEN "ok" ELSE "error"

Promise == INSTANCE OwnedStore WITH
    Values <- Data,
    Nothing <- Missing.data,
    store <- [i \in Ids |-> [user |-> places[i].user,
                             value |-> places[i].data]],
    spent <- Known,
    serving <- [w \in Workers |->
        [user |-> job[w].user, op |-> job[w].op, id |-> job[w].id,
         answer |-> AnswerOf(w), seen |-> job[w].found]]

\* Each request takes effect at a single moment, on its own user's documents.
ImplementsOwnedStore == Promise!StoreSpec

=============================================================================
