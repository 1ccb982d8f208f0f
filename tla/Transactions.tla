---------------------------- MODULE Transactions ----------------------------
(***************************************************************************)
(* The transactions controller: src/controllers/transactions.c with the    *)
(* handlers of src/routes/transactions.c, the model functions of           *)
(* src/models/transaction.c and the counter of src/cache.c.                *)
(*                                                                         *)
(* It is built like Categories, with three differences that matter: a      *)
(* create asks the categories collection first whether the category is the *)
(* user's, an update writes the amount whether the body has one or not,    *)
(* and a create without an object answers instead of crashing.             *)
(*                                                                         *)
(* The categories collection is the environment here: its documents come   *)
(* and go at any moment.  PocketService replaces it by Categories.         *)
(***************************************************************************)
EXTENDS Naturals, FiniteSets

CONSTANTS
    Users, Workers,
    Ids,            \* the transaction ids this service will ever generate
    CategoryIds,    \* the category ids
    Objects, PoolInit,
    Titles, Empty,  \* Empty is the title of a wiped object
    Amounts, Zero,  \* Zero is the amount of a wiped object
    Reals,          \* the amounts that JSON writes with a fraction
    Places, NoPlace,
    Absent, Bodies, NoBody, Malformed,
    DbOutcomes, CacheOutcomes, MayCrash,
    NoUser, NoId, NoObject

Contents == [title : Titles \cup {Absent},
             amount : Amounts \cup {Absent},
             category : CategoryIds \cup {NoId, Absent},
             place : Places \cup {Absent}]

ASSUME TransactionsAssumption ==
    /\ NoUser \notin Users
    /\ NoId \notin Ids \cup CategoryIds
    /\ NoObject \notin Objects
    /\ PoolInit \subseteq Objects
    /\ Empty \in Titles /\ Zero \in Amounts /\ NoPlace \in Places
    /\ Reals \subseteq Amounts
    /\ Absent \notin Titles \cup Amounts \cup CategoryIds \cup {NoId} \cup Places
    /\ NoBody # Malformed
    /\ {NoBody, Malformed} \cap Contents = {}
    /\ Bodies \subseteq Contents \cup {NoBody, Malformed}
    /\ DbOutcomes \subseteq {"ok", "failed", "lost"}
    /\ CacheOutcomes \subseteq {"ok", "failed"}
    /\ MayCrash \in BOOLEAN

VARIABLES
    transactions,   \* the collection: a document for every id, or Missing
    issued,         \* the ids that bson_oid_init () generated
    owner,          \* history: the user for whom a document was inserted
    stats,          \* pocket:user:<id>:stats transactions, in Redis
    pool,           \* the free objects of trans_pool
    allocated,      \* the objects that transaction_new () created
    mem,            \* the contents of the objects
    job,            \* what each worker is doing
    catUser,        \* the user of each category that exists
    catOwner        \* history: the user for whom a category was inserted

transVars == <<transactions, issued, owner, stats, pool, allocated, mem, job>>
catVars == <<catUser, catOwner>>
vars == <<transactions, issued, owner, stats, pool, allocated, mem, job,
          catUser, catOwner>>

Blank == [title |-> Empty, amount |-> Zero, category |-> NoId, place |-> NoPlace]
Missing == [user |-> NoUser, data |-> Blank]
Zeroed == [oid |-> NoId, user |-> NoUser, data |-> Blank]

Idle == [pc |-> "idle", op |-> "none", user |-> NoUser, id |-> NoId,
         object |-> NoObject, body |-> NoBody, error |-> "NONE", found |-> {}]

InitTrans ==
    /\ transactions = [i \in Ids |-> Missing]
    /\ issued = {}
    /\ owner = [i \in Ids |-> NoUser]
    /\ stats = [u \in Users |-> 0]
    /\ pool = PoolInit
    /\ allocated = PoolInit
    /\ mem = [o \in Objects |-> Zeroed]
    /\ job = [w \in Workers |-> Idle]

InitCategories ==
    /\ catUser = [c \in CategoryIds |-> NoUser]
    /\ catOwner = [c \in CategoryIds |-> NoUser]

Init == InitTrans /\ InitCategories

-----------------------------------------------------------------------------
(***************************************************************************)
(* Helpers: queries, conversions, the pool.                                *)
(***************************************************************************)

transaction_query_oid(i) == {j \in Ids : j = i /\ transactions[j].user # NoUser}

transaction_query_by_oid_and_user(i, u) ==
    {j \in Ids : j = i /\ transactions[j].user = u}

transaction_query_user(u) == {j \in Ids : transactions[j].user = u}

\* mutant: any category will do
CategoryOfAnyone(c, u) == {d \in CategoryIds : d = c /\ catUser[d] # NoUser}

category_query_by_oid_and_user(c, u) ==
    {d \in CategoryIds : d = c /\ catUser[d] = u}

trans_doc_parse(i) ==
    [oid |-> i, user |-> transactions[i].user, data |-> transactions[i].data]

transaction_to_bson(t) == [user |-> t.user, data |-> t.data]

\* json_real_value () is 0 for whatever is not a JSON real
json_real_value(a) == IF a \in Reals THEN a ELSE Zero

Given(value, default) == IF value = Absent THEN default ELSE value

\* a new transaction: the place of the body is not looked at
Filled(i, u, body, old) ==
    [oid |-> i, user |-> u,
     data |-> [old EXCEPT !.title = body.title,
                          !.amount = json_real_value(body.amount),
                          !.category = body.category]]

\* mutant: the title is emptied by a body without one
MergedResetting(data, body) ==
    [title |-> Given(body.title, Empty),
     amount |-> json_real_value(body.amount),
     category |-> Given(body.category, data.category),
     place |-> Given(body.place, data.place)]

\* mutant: a category that is absent is copied too
MergedUnchecked(data, body) ==
    [title |-> Given(body.title, data.title),
     amount |-> json_real_value(body.amount),
     category |-> body.category,
     place |-> Given(body.place, data.place)]

\* an update: the amount is overwritten even if the body has none
Merged(data, body) ==
    [title |-> Given(body.title, data.title),
     amount |-> json_real_value(body.amount),
     category |-> Given(body.category, data.category),
     place |-> Given(body.place, data.place)]

\* mutant: no memset
ReturnedDirty(t) == t

Returned(t) == Zeroed

pool_pop == IF pool # {} THEN pool ELSE Objects \ allocated

Taken(o) ==
    /\ pool' = pool \ {o}
    /\ allocated' = allocated \cup {o}

FreshOid == Ids \ issued

Known == {i \in Ids : owner[i] # NoUser}

MayFindNothing(match) == match = {} \/ "failed" \in DbOutcomes

Outcomes(match) == IF match = {} THEN {"ok", "failed"} ELSE DbOutcomes

Applied(outcome) == outcome \in {"ok", "lost"}

ErrorOf(outcome, error) == IF outcome = "ok" THEN "NONE" ELSE error

\* mutant: every insert is counted
CountedAnyway(outcome) == "increment"

AfterInsert(outcome) == IF outcome = "ok" THEN "increment" ELSE "return"

At(w, pc) == job[w].pc = pc

MoveTo(w, pc, error) ==
    job' = [job EXCEPT ![w].pc = pc, ![w].error = error]

Refuse(w, u, op, error) ==
    /\ job' = [job EXCEPT ![w] = [Idle EXCEPT !.pc = "respond", !.op = op,
                                              !.user = u, !.error = error]]
    /\ UNCHANGED <<transactions, issued, owner, stats, pool, allocated, mem>>

\* mutant: the object is forgotten
NotFoundLeaking(w) ==
    job' = [job EXCEPT ![w] = [@ EXCEPT !.pc = "respond", !.object = NoObject,
                                        !.error = "NOT_FOUND"]]

\* the object goes back to the pool, the user gets a 404
NotFound(w) == MoveTo(w, "return", "NOT_FOUND")

-----------------------------------------------------------------------------
(***************************************************************************)
(* POST: create, check the category, insert, count, return.                *)
(***************************************************************************)

\* what a create turns down before it takes an object
Refusal(body) ==
    IF body \in {NoBody, Malformed} THEN "BAD_REQUEST"
    ELSE IF Absent \in {body.title, body.category} THEN "MISSING_VALUES"
    ELSE IF pool_pop = {} THEN "SERVER_ERROR"
    ELSE "NONE"

pocket_trans_create(w, u) ==
    /\ At(w, "idle")
    /\ \E body \in Bodies :
        \/ /\ Refusal(body) # "NONE"
           /\ Refuse(w, u, "create", Refusal(body))
        \/ /\ Refusal(body) = "NONE"
           /\ \E o \in pool_pop, i \in FreshOid :
                /\ Taken(o)
                /\ issued' = issued \cup {i}
                /\ mem' = [mem EXCEPT ![o] = Filled(i, u, body, @.data)]
                /\ job' = [job EXCEPT ![w] =
                      [Idle EXCEPT !.pc = "check", !.op = "create", !.user = u,
                                   !.id = i, !.object = o, !.body = body]]
           /\ UNCHANGED <<transactions, owner, stats>>

\* a check that fails counts as a category that is not the user's
pocket_category_belongs_to_user(w) ==
    LET t == mem[job[w].object]
        match == category_query_by_oid_and_user(t.data.category, job[w].user) IN
    /\ At(w, "check")
    /\ \/ match # {} /\ MoveTo(w, "insert", "NONE")
       \/ MayFindNothing(match) /\ NotFound(w)
    /\ UNCHANGED <<transactions, issued, owner, stats, pool, allocated, mem>>

transaction_insert_one(w) ==
    LET t == mem[job[w].object] IN
    /\ At(w, "insert")
    /\ \E outcome \in DbOutcomes :
        /\ IF Applied(outcome)
           THEN /\ transactions' =
                      [transactions EXCEPT ![t.oid] = transaction_to_bson(t)]
                /\ owner' = [owner EXCEPT ![t.oid] = t.user]
           ELSE UNCHANGED <<transactions, owner>>
        /\ MoveTo(w, AfterInsert(outcome), ErrorOf(outcome, "SERVER_ERROR"))
    /\ UNCHANGED <<issued, stats, pool, allocated, mem>>

pocket_cache_user_increment_transactions(w) ==
    /\ At(w, "increment")
    /\ \/ "ok" \in CacheOutcomes /\ stats' = [stats EXCEPT ![job[w].user] = @ + 1]
       \/ "failed" \in CacheOutcomes /\ UNCHANGED stats
    /\ MoveTo(w, "return", job[w].error)
    /\ UNCHANGED <<transactions, issued, owner, pool, allocated, mem>>

pocket_trans_return(w) ==
    LET o == job[w].object IN
    /\ At(w, "return")
    /\ mem' = [mem EXCEPT ![o] = Returned(@)]
    /\ pool' = pool \cup {o}
    /\ job' = [job EXCEPT ![w] = [@ EXCEPT !.pc = "respond", !.object = NoObject,
                                           !.body = NoBody]]
    /\ UNCHANGED <<transactions, issued, owner, stats, allocated>>

-----------------------------------------------------------------------------
(***************************************************************************)
(* PUT, DELETE and GET.                                                    *)
(***************************************************************************)

pocket_trans_update(w, u) ==
    /\ At(w, "idle")
    /\ \E body \in Bodies, i \in Known \cup {NoId} :
        \/ body = NoBody /\ Refuse(w, u, "update", "BAD_REQUEST")
        \/ body # NoBody /\ pool_pop = {} /\ Refuse(w, u, "update", "NOT_FOUND")
        \/ /\ body # NoBody
           /\ \E o \in pool_pop :
                /\ Taken(o)
                /\ mem' = [mem EXCEPT ![o].oid = i]
                /\ job' = [job EXCEPT ![w] =
                      [Idle EXCEPT !.pc = "find", !.op = "update", !.user = u,
                                   !.id = i, !.object = o, !.body = body]]
           /\ UNCHANGED <<transactions, issued, owner, stats>>

transaction_get_by_oid_and_user(w) ==
    LET o == job[w].object
        body == job[w].body
        match == transaction_query_by_oid_and_user(mem[o].oid, job[w].user) IN
    /\ At(w, "find")
    /\ \/ /\ MayFindNothing(match)
          /\ NotFound(w)
          /\ UNCHANGED mem
       \/ \E i \in match :
            LET t == trans_doc_parse(i) IN
            IF body = Malformed         \* its BAD_REQUEST is not passed on
            THEN /\ mem' = [mem EXCEPT ![o] = t]
                 /\ MoveTo(w, "return", "NONE")
            ELSE /\ mem' = [mem EXCEPT ![o] =
                              [t EXCEPT !.data = Merged(@, body)]]
                 /\ MoveTo(w, "update", "NONE")
    /\ UNCHANGED <<transactions, issued, owner, stats, pool, allocated>>

\* mutant: a document that is gone is written again
UpsertOne(w) ==
    LET t == mem[job[w].object] IN
    /\ At(w, "update")
    /\ transactions' = [transactions EXCEPT ![t.oid] = transaction_to_bson(t)]
    /\ MoveTo(w, "return", "NONE")
    /\ UNCHANGED <<issued, owner, stats, pool, allocated, mem>>

\* the filter names the id only
transaction_update_one(w) ==
    LET t == mem[job[w].object]
        match == transaction_query_oid(t.oid) IN
    /\ At(w, "update")
    /\ \E outcome \in Outcomes(match) :
        /\ transactions' = [i \in Ids |->
              IF i \in match /\ Applied(outcome)
              THEN [transactions[i] EXCEPT !.data = t.data]
              ELSE transactions[i]]
        /\ MoveTo(w, "return", ErrorOf(outcome, "SERVER_ERROR"))
    /\ UNCHANGED <<issued, owner, stats, pool, allocated, mem>>

Take(w, u, op, i) ==
    /\ At(w, "idle")
    /\ job' = [job EXCEPT ![w] = [Idle EXCEPT !.pc = op, !.op = op,
                                              !.user = u, !.id = i]]
    /\ UNCHANGED <<transactions, issued, owner, stats, pool, allocated, mem>>

pocket_trans_delete(w, u) ==
    \E i \in Known \cup {NoId} : Take(w, u, "delete", i)

transaction_delete_one_by_oid_and_user(w) ==
    LET match == transaction_query_by_oid_and_user(job[w].id, job[w].user) IN
    /\ At(w, "delete")
    /\ \E outcome \in Outcomes(match) :
        /\ transactions' = [i \in Ids |->
              IF i \in match /\ Applied(outcome) THEN Missing ELSE transactions[i]]
        /\ MoveTo(w, "respond", ErrorOf(outcome, "BAD_REQUEST"))
    /\ UNCHANGED <<issued, owner, stats, pool, allocated, mem>>

Read(w, match) ==
    /\ job' = [job EXCEPT ![w].pc = "respond", ![w].found = match]
    /\ UNCHANGED <<transactions, issued, owner, stats, pool, allocated, mem>>

ReadNothing(w, match, error) ==
    /\ MayFindNothing(match)
    /\ MoveTo(w, "respond", error)
    /\ UNCHANGED <<transactions, issued, owner, stats, pool, allocated, mem>>

pocket_transaction_get_handler(w, u) ==
    \E i \in Known \cup {NoId} : Take(w, u, "get", i)

transaction_get_by_oid_and_user_to_json(w) ==
    LET match == transaction_query_by_oid_and_user(job[w].id, job[w].user) IN
    /\ At(w, "get")
    /\ \/ match # {} /\ Read(w, match)
       \/ match # {} /\ ReadNothing(w, match, "SERVER_ERROR")
       \/ ReadNothing(w, match, "NOT_FOUND")

pocket_transactions_handler(w, u) == Take(w, u, "list", NoId)

transactions_get_all_by_user_to_json(w) ==
    LET match == transaction_query_user(job[w].user) IN
    /\ At(w, "list")
    /\ Read(w, match) \/ ReadNothing(w, match, "NOT_FOUND")

BadUser(w) ==
    /\ At(w, "idle")
    /\ \E op \in {"create", "update", "delete", "get", "list"} :
          Refuse(w, NoUser, op, "BAD_USER")

pocket_error_send_response(w) ==
    /\ At(w, "respond")
    /\ job' = [job EXCEPT ![w] = Idle]
    /\ UNCHANGED <<transactions, issued, owner, stats, pool, allocated, mem>>

-----------------------------------------------------------------------------

Request(w) ==
    \/ BadUser(w)
    \/ \E u \in Users :
        \/ pocket_trans_create(w, u)
        \/ pocket_trans_update(w, u)
        \/ pocket_trans_delete(w, u)
        \/ pocket_transaction_get_handler(w, u)
        \/ pocket_transactions_handler(w, u)

Continue(w) ==
    \/ pocket_category_belongs_to_user(w)
    \/ transaction_insert_one(w)
    \/ pocket_cache_user_increment_transactions(w)
    \/ pocket_trans_return(w)
    \/ transaction_get_by_oid_and_user(w)
    \/ transaction_update_one(w)
    \/ transaction_delete_one_by_oid_and_user(w)
    \/ transaction_get_by_oid_and_user_to_json(w)
    \/ transactions_get_all_by_user_to_json(w)
    \/ pocket_error_send_response(w)

Restarted ==
    /\ pool' = PoolInit
    /\ allocated' = PoolInit
    /\ mem' = [o \in Objects |-> Zeroed]
    /\ job' = [w \in Workers |-> Idle]
    /\ UNCHANGED <<transactions, issued, owner, stats>>

Crash == MayCrash /\ Restarted

\* the environment: a category appears under a new id, or disappears
CategoryInserted ==
    \E c \in CategoryIds, u \in Users :
        /\ catOwner[c] = NoUser
        /\ catUser' = [catUser EXCEPT ![c] = u]
        /\ catOwner' = [catOwner EXCEPT ![c] = u]

CategoryDeleted ==
    \E c \in CategoryIds :
        /\ catUser[c] # NoUser
        /\ catUser' = [catUser EXCEPT ![c] = NoUser]
        /\ UNCHANGED catOwner

CategoriesStep == CategoryInserted \/ CategoryDeleted

Next ==
    \/ (Crash \/ \E w \in Workers : Request(w) \/ Continue(w)) /\ UNCHANGED catVars
    \/ CategoriesStep /\ UNCHANGED transVars

Spec == Init /\ [][Next]_vars

-----------------------------------------------------------------------------
(***************************************************************************)
(* Properties.                                                             *)
(***************************************************************************)

Data == [title : Titles, amount : Amounts,
         category : CategoryIds \cup {NoId}, place : Places]

PCs == {"idle", "check", "insert", "increment", "find", "update", "return",
        "delete", "get", "list", "respond"}

Errors == {"NONE", "BAD_REQUEST", "MISSING_VALUES", "BAD_USER", "NOT_FOUND",
           "SERVER_ERROR"}

Jobs == [pc : PCs,
         op : {"none", "create", "update", "delete", "get", "list"},
         user : Users \cup {NoUser},
         id : Ids \cup {NoId},
         object : Objects \cup {NoObject},
         body : Bodies \cup {NoBody},
         error : Errors,
         found : SUBSET Ids]

\* The type invariant of the controller's state.
TypeOK ==
    /\ transactions \in [Ids -> [user : Users \cup {NoUser}, data : Data]]
    /\ issued \subseteq Ids
    /\ owner \in [Ids -> Users \cup {NoUser}]
    /\ stats \in [Users -> Nat]
    /\ pool \subseteq Objects
    /\ allocated \subseteq Objects
    /\ mem \in [Objects -> [oid : Ids \cup {NoId}, user : Users \cup {NoUser},
                            data : Data]]
    /\ job \in [Workers -> Jobs]
    /\ catUser \in [CategoryIds -> Users \cup {NoUser}]
    /\ catOwner \in [CategoryIds -> Users \cup {NoUser}]

Held(w) == {job[w].object} \cap Objects

\* trans_pool: an object is free and wiped, or held by one request; the error
\* paths of create (missing values, a category of somebody else, a failed
\* insert) and of update lose none.
PoolIsSound ==
    /\ allocated = pool \cup UNION {Held(w) : w \in Workers}
    /\ \A w \in Workers :
        /\ Held(w) \cap pool = {}
        /\ \A x \in Workers \ {w} : Held(w) \cap Held(x) = {}
    /\ \A o \in pool : mem[o] = Zeroed

Inserted(u) == {i \in Ids : owner[i] = u}

Counting(u) == {w \in Workers : At(w, "increment") /\ job[w].user = u}

\* The counter in Redis runs behind the collection and never ahead of it.
StatsNeverAhead ==
    \A u \in Users : stats[u] + Cardinality(Counting(u)) <= Cardinality(Inserted(u))

\* Without failures the counter is exact once no insert is being counted.
StatsExact ==
    \A u \in Users : stats[u] + Cardinality(Counting(u)) = Cardinality(Inserted(u))

Inserting(w) == At(w, "insert") /\ owner' # owner /\ job'[w] # job[w]

\* A transaction is inserted under a category that was its user's at some
\* moment of the request, and never under one of another user.
InsertsUnderOwnCategoryStep ==
    \A w \in Workers : Inserting(w) =>
        LET t == transactions'[job[w].id] IN
        /\ t.user = job[w].user
        /\ t.data.category \in CategoryIds
        /\ catOwner[t.data.category] = t.user

InsertsUnderOwnCategory == [][InsertsUnderOwnCategoryStep]_vars

\* What a create stores is of its own body, or blank: no title, category, amount
\* or place of a request that used the object before it.  (Whether all that the
\* body names is stored, CreateStoresItsBody asks.)
StoresNothingStaleStep ==
    \A w \in Workers : Inserting(w) =>
        LET body == job[w].body
            data == transactions'[job[w].id].data IN
        /\ data.title = body.title
        /\ data.category = body.category
        /\ data.amount \in {Given(body.amount, Zero), Zero}
        /\ body.amount \in Reals => data.amount = body.amount
        /\ data.place \in {Given(body.place, NoPlace), NoPlace}

StoresNothingStale == [][StoresNothingStaleStep]_vars

\* An update leaves title, category and place as they are when its body does
\* not name them (the amount it always writes).  True of one request at a time.
KeepsOtherFieldsStep ==
    \A w \in Workers, i \in Ids :
        At(w, "update") /\ job'[w] # job[w] /\ transactions'[i] # transactions[i] =>
            /\ job[w].body.title = Absent =>
                  transactions'[i].data.title = transactions[i].data.title
            /\ job[w].body.category = Absent =>
                  transactions'[i].data.category = transactions[i].data.category
            /\ job[w].body.place = Absent =>
                  transactions'[i].data.place = transactions[i].data.place

KeepsOtherFields == [][KeepsOtherFieldsStep]_vars

\* "reference to the owener's defined category"
\* (include/models/transaction.h:47): the category of a stored transaction is
\* one that its owner defined.
CategoryIsOwners ==
    \A i \in Ids : transactions[i].user # NoUser =>
        /\ transactions[i].data.category \in CategoryIds
        /\ catOwner[transactions[i].data.category] = transactions[i].user

\* "reference to the place where this transaction was made"
\* (include/models/transaction.h:51) and "the actual value of the transaction"
\* (include/models/transaction.h:65): of the place and the amount that its body
\* names a create stores both.
CreateStoresItsBodyStep ==
    \A w \in Workers : Inserting(w) =>
        LET body == job[w].body
            data == transactions'[job[w].id].data IN
        /\ body.place # Absent => data.place = body.place
        /\ body.amount # Absent => data.amount = body.amount

CreateStoresItsBody == [][CreateStoresItsBodyStep]_vars

(***************************************************************************)
(* The controller implements OwnedStore.  A create takes effect at its     *)
(* insert, or at the check that refuses its category.                      *)
(***************************************************************************)
AnswerOf(w) ==
    IF job[w].pc \notin {"increment", "return", "respond"} THEN "pending"
    ELSE IF job[w].error = "NONE" THEN "ok" ELSE "error"

Promise == INSTANCE OwnedStore WITH
    Values <- Data,
    Nothing <- Blank,
    store <- [i \in Ids |-> [user |-> transactions[i].user,
                             value |-> transactions[i].data]],
    spent <- Known,
    serving <- [w \in Workers |->
        [user |-> job[w].user, op |-> job[w].op, id |-> job[w].id,
         answer |-> AnswerOf(w), seen |-> job[w].found]]

\* Each request takes effect at a single moment, on its own user's documents.
ImplementsOwnedStore == Promise!StoreSpec

=============================================================================
