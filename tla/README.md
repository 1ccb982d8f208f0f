# Verification of the pocket service

The pocket service (`src/`) is a REST service in C with which a user records
transactions, the categories they belong to and the places they were made at.
It runs inside the *cerver* framework (HTTP, JSON web tokens, a thread pool, an
object pool), keeps its documents in MongoDB through *cmongo* and its counters
in Redis through *credis*. This directory models its request handling in TLA+,
checks the models with TLC and proves the main results with TLAPS.

## 1. Inventory

### The parts and how they interact

`main.c` reads signals and registers the routes; `cerver` accepts connections,
checks the token of a request, and gives it to one of `CERVER_TH_THREADS`
threads, which calls the handler in `routes/`. A handler calls its controller
(`controllers/`), the controller pops an object from its pool, calls the model
functions (`models/`) that talk to MongoDB, and the cache (`cache.c`), gives the
object back, and returns a `PocketError` that the handler turns into an HTTP
answer (`errors.c`). Nothing is locked by the service itself: the pool locks
one operation at a time and so does MongoDB.

| Part | Files | State it keeps | Operations |
|---|---|---|---|
| categories | `routes/`, `controllers/`, `models/` categor(y/ies) | collection `categories`, `categories_pool` | list, create, info, update, remove |
| transactions | the same for transaction(s) | collection `transactions`, `trans_pool` | list, create (checks the category), info, update, remove |
| places | the same for place(s) | collection `places`, `places_pool` | list, create, info, update, remove |
| users | `controllers/users.c`, `models/user.c` | `users_pool` | decode the token of every private request, wipe the user afterwards; a lookup by email, with no caller in `src/` |
| roles | `controllers/roles.c`, `models/role.c` | the list of roles read at start; the array of actions of a role | search, parse a document, add, remove and check an action, with no caller in `src/` |
| cache | `cache.c` | Redis hash `pocket:user:<id>:stats` and the service state | increment on create |
| errors | `errors.c` | none | `PocketError` to HTTP status |
| life cycle | `pocket.c`, `main.c`, `controllers/service.c` | connections, prepared responses, pools, models | `pocket_init`, `pocket_end`, the signal handler `end` |
| service routes | `routes/service.c` | none | liveness, version, token check, catch-all |
| configuration | `pocket.c:55-313`, `runtime.c`, `version.c` | values of the environment | read once |
| actions | `models/action.c` | none, nothing calls it but for its CMongoModel | |
| cerver, cmongo, credis, libbson, jansson | outside `src/` | thread pool, object pool, database, cache | modelled as they are used |

### What is hard

* Handlers of one user and of several run at once on several threads, with no
  lock around *find, change, write back* (`pocket_category_update`), nor around
  *check the category, insert the transaction* (`pocket_trans_create`).
* `update_one` filters by id only: that the document is the user's own was
  checked by an earlier call, and other requests ran in between.
* Objects are recycled between users. Whatever a handler leaves in one would
  reach the document of the next; a path that forgets one loses it for good.
* MongoDB can fail, or do the work and lose the reply; Redis can fail silently;
  the process can die between the insert and the count.
* Errors are values: an ignored one turns into a 200.
* Signals interrupt the start, the service and each other's handlers, on whichever
  thread the system gives them to; the handler does all of the teardown, and
  waits for threads and locks that it may itself keep from going on. A start that
  fails half-way is ended by the same code as one that succeeded.

### What makes each part correct

* **Collections (categories, transactions, places).** A request writes only
  documents of its own user and shows only documents of its own user; a
  document never changes owner, and a deleted one does not come back, not by an
  update that was under way either; a create stores what its body said and
  nothing of another request; an answer of success is true; a request takes
  effect at one moment.
* **Pools.** An object is free or in the hands of one request; a free one is
  wiped; no path loses one.
* **Counter.** Never ahead of the collection; exact when nothing fails.
* **Transactions.** The category of a transaction is one its user owned.
* **Liveness.** Each request that was taken is answered.
* **Users.** A request acts for the person of its own token, or for nobody; a
  free user of the pool is nobody's and none is lost.
* **Roles.** A role holds each action as often as it was given and not taken, and
  grants nothing that it was not given; a search says what is stored.
* **Life cycle.** A request only meets live parts; one end releases everything
  once, however far the start came, and uses nothing that was released; an end
  that has begun comes to its end. The code gives the last two with exceptions
  (section 5, findings).

## 2. Plan

The collections come first: they hold the users' data, all requests go through
them and every hard behaviour above happens there. Each step of the plan leaves
modules that are complete for their part.

| Step | Module | Part | Standing |
|---|---|---|---|
| 1 | `OwnedStore` | what a collection promises, for all three controllers | done |
| 2 | `Categories` | the categories requests, their pool, the counter | done |
| 3 | `Categories_proofs` | types, pool, ownership, isolation, what is stored and shown | done |
| 4 | `Transactions` | the transactions requests; the categories they look at are an environment | done |
| 5 | `Places` | the places requests, with partial updates and the parse that skips fields | done |
| 6 | `PocketService` | the three controllers on the same threads in one process | done |
| 7 | `Categories_proofs` | further: `SuccessIsTrue` and the counter | done |
| 8 | `Transactions_proofs`, `Places_proofs` | the argument of `Categories_proofs` with the check of the category and with partial updates | done |
| 9 | `Categories_proofs`, `Transactions_proofs`, `Places_proofs` | further: each controller implements `OwnedStore`; exact counters; what one thread guarantees of updates | done |
| 10 | `Users` | the user of each request: decoded, unpacked (or half unpacked), wiped, pushed to a pool nothing pops from | done |
| 11 | `Roles`, `Roles_proofs` | the array of actions of a role against what it was given: add, remove, check, parse, the bound of the array, the wrap of the counter; the list and its searches | done |
| 12 | `Lifecycle`, `Lifecycle_proofs` | `pocket_init`, `pocket_end` and the signal handlers beside `main`, with the threads and their `Users` | done |
| 13 | `PocketService_proofs` | the service behaves for each controller as that controller is specified alone, and what follows of the whole | done |
| 14 | `OwnedStore_proofs` | what the abstract store guarantees, carried over to the three collections of the service | done |

`Transactions` is written against an environment that inserts and removes
categories, and `PocketService` shows that the category requests are such an
environment, by a run and by a proof: what is proved or checked of `Transactions`
alone is then true in the composition.

The modules are written to be proved about: sizes are CONSTANTS with a named
assumption, there is one action per call of a handler, and no RECURSIVE
operator.

## 3. How the models correspond to the code

### Steps

A step of a worker is the code from one call to something shared up to the next
one; `job[w].pc` is the call that comes next. What a handler computes in between
(parsing a body, filling an object, choosing an error) belongs to the step that
follows the shared call it depends on. The calls of `Categories`:

| `pc` | Shared call | Action |
|---|---|---|
| `idle` | none or `pool_pop` | `pocket_category_create`, `pocket_category_update`, `pocket_category_delete`, the two GET handlers, `BadUser` |
| `find` | `mongo_find_one_with_opts` by id and user | `category_get_by_oid_and_user` |
| `insert`, `update`, `delete` | `mongo_insert_one`, `mongo_update_one`, `mongo_delete_one` | `category_insert_one`, `category_update_one`, `category_delete_one_by_oid_and_user` |
| `get`, `list` | `mongo_find_one_with_opts_as_json`, the find of all | `category_get_by_oid_and_user_to_json`, `categories_get_all_by_user_to_json` |
| `increment` | `HINCRBY` | `pocket_cache_user_increment_categories` |
| `return` | `pool_push` | `pocket_category_return` |
| `respond` | the HTTP answer | `pocket_error_send_response` |

`Transactions` has `check` too (`pocket_category_belongs_to_user`), between the
pop and the insert. `Places` has the steps of `Categories`.

In `Users` cerver's decode of the token is one step
(`pocket_user_parse_from_json`), the delete after the handler another, and a
lookup by email two, around its query. In `Roles` each call on a role is a step.
In `Lifecycle` a step is one `pocket_*_init ()`, `pocket_*_end ()` or cerver call of
the main thread (`pocket_mongo_init ()`, whose two halves fail differently, is two),
the arrival of a signal, or a step of a thread that serves a request;
`FinishRequest` is everything a handler does, up to the delete of its user.
Between the last call of `start ()` or `pocket_init ()` and the `pocket_end ()` of
`main` the main thread is at `returned`, a step of its own: no end has begun there,
and after a failed `cerver_start ()` the service is deleted already. A signal goes
to the main thread (`Signal`), whose handler is a frame on its stack, or to a
thread of the pool (`SignalToThread`), which is `trapped` in the `cerver_teardown ()`
that waits for it. `HandlerBlocks` is the handler on the main thread that waits for
a lock of what it interrupted: it stays at `blocked`. With a thread trapped
`cerver_start ()` may return on the main thread (`cerver_start_stops`), and the
`pocket_end ()` of `main` then meets requests that run (`RequestMeetsEnd`).
`PocketService` takes the steps of the three controllers, with a thread in one of
them at a time, and lets the process die as a whole.

### State

| Variable | In the code |
|---|---|
| `categories`, `transactions`, `places` | the MongoDB collection, a function from id to document |
| `issued` | the ids `bson_oid_init` has generated; it never generates one twice |
| `stats` | the fields of the Redis hash `pocket:user:<id>:stats` |
| `pool`, `allocated`, `mem` | the free objects of the pool, all objects in memory, their contents |
| `job` | per thread: the request being served (`op`, `user`, `id`, `body`), the pooled object it holds, the `PocketError` so far, the documents read for the answer |
| `owner` | no variable of the code: the user for whom an id was inserted, so that properties can speak of deleted documents |
| `catUser`, `catOwner` | in `Transactions`: whose each category is, and whose it was |
| `pool`, `allocated`, `mem`, `serving` | in `Users`: the pool of users and what each thread does with one; a user is whose it is and whose `iat` is in it |
| `docs`, `roles`, `role` | in `Roles`: the collection in the order of its cursor, the list read at start, and the one role of a caller with its array and `n_actions` |
| `given`, `missed`, `broken` | in `Roles`, no variables of the code: how often the role was given each action, whether one was removed that it did not have, and whether something outside of an array was written |
| `stack` | in `Lifecycle`: what the main thread runs, `main` at the bottom and the handler of each signal on top of what it interrupted; empty when the process is over |
| `errors`, `mongo`, `ptr` | in `Lifecycle`: the `errors` of `pocket_init_internal`, what the driver says of its connection, and for each static pointer whether it is NULL, refers to something or to something freed |
| `trapped` | in `Lifecycle`: the threads of the pool that run `end ()` |
| `lost`, `misused`, `overlapped` | in `Lifecycle`, no variables of the code: parts one of which was overwritten, parts used or deleted after they were freed, and whether an end, a signal's or `main`'s, began when another had begun |

### What is outside `src/`

MongoDB, Redis and the pool are used through libraries. The models rely on:

* one operation on a document is atomic, and so is a pop and a push;
* a write ends in one of `DbOutcomes`: done (`ok`), not done and reported
  (`failed`), or done with the reply lost (`lost`, reported as failed);
* a write whose filter matches nothing changes nothing and may be reported
  either way (`Outcomes`); a read may fail and then looks like one without a match;
* a Redis command is carried out or not; the service does not look;
* `pool_pop` on an empty pool creates an object while memory lasts, and then
  returns NULL. An update and a transaction create look at that; a category or
  place create goes on with NULL, which is the end of the process
  (`NullDereferenced`);
* when the process dies (`Crash`, allowed by `MayCrash`) everything but MongoDB
  and Redis is lost, and a new process has run `pocket_init`;
* `cerver_teardown` takes no new request and waits for the threads of the pool,
  also when one of them is the caller; `cerver_start` serves until it fails, and
  the service is deleted then without its pointer being cleared, or until another
  thread tears the service down;
* a signal is handled by the main thread or by a thread of the pool, and masked in
  that thread, and in no other, while its own handler runs;
* printing, freeing and stopping a pool take locks that are not made for handlers:
  a handler may find any of them held by what it interrupted. A part that is NULL
  takes none (the delete functions accept NULL);
* after a failed `mongo_connect` the driver's status may be either.

### Abstractions

Texts are members of a small set (`Empty` is what a wiped buffer holds), a body
is a record of texts in which a field may be `Absent`, or `NoBody`, or
`Malformed`. Dates, the limits on the lengths of texts, and the fields of a
transaction that no request sets from its body are left out. In `Places` link
and logo are one text `site`, there exactly when the type is a site's. A request
that names an id names one that was in use at some time, or none (`NoId`), which
also stands for an id that was never in use.

No route calls `pocket_user_get_by_email` or a function on roles. They are
modelled as callers could use them: a lookup as a handler that takes a user from
the pool (`Lookups`), roles as one caller with any sequence of calls. A write
behind the array of a role (`Break`) is where the process has no defined
behaviour any more: nothing follows it and nothing is claimed after it.

## 4. The abstract store

`OwnedStore` says what a user of any of the three routes may rely on, with no
pools, parsing or order of calls: a request is accepted or refused, takes effect
at one moment or never, then its answer is settled. It writes only a document
of its own user; an id never has a document twice; `ok` is never said of a
create that was not done, nor of a delete whose document is still there; a GET
shows the user's documents of that moment. `ImplementsOwnedStore` is checked of
`Categories`, `Transactions` and `Places` with a refinement mapping that is the
same for all three: the collection, the ids that ever had a document, and per
worker the request with an answer that is `pending` until the write (or read)
that decides it and then `ok` or `error`. The pop, the wipe, the counter and the
answer itself are stutters. It is the strongest property here: a write to
another user's document, a document that comes back, a list with a document of
another user, an error swallowed by create or delete, each break it.

The answer `ok` to an update that wrote nothing is allowed (`NothingToWrite`):
the code gives it for a document that was deleted after the read and for a
malformed body.

## 5. What is checked

| Run | Question | Bounds |
|---|---|---|
| `categories_faults` | Do pool, collection, counter and answers stay consistent, and is `OwnedStore` implemented, under every interleaving and failure? | 2 threads, 2 users, 2 ids, 2 objects (one in the pool at start), 1 field; `ok`, `failed`, `lost`; Redis may fail; crashes |
| `transactions_faults` | The same, while categories come and go | 2 threads, 2 users, 2 ids, 1 category id; `ok`, `failed`, `lost`; crashes |
| `places_faults` | The same, with partial updates | 2 threads, 2 users, 2 ids, 2 objects; `ok`, `failed`, `lost`; crashes |
| `service_threads` | Is what the category requests do an environment `Transactions` allows for? | 2 threads on all routes, 1 category id, 1 transaction id, places without documents; `ok`, `lost`; crashes of the whole process |
| `service_serial` | What holds of one request at a time only? | 1 thread, 2 users, 1 id and object of each kind, 2 fields, every kind of body; `ok`, `failed` |
| `service_memory` | Does a thread become free again after each request? | 2 threads, 1 user, memory for one object of each kind; fairness |
| `roles_calls` | Does a role hold what it was given, and a search say what is stored? | 1 caller, 4 actions, one of which is cut; an array of 3, a counter of 8 values, 3 collections, no action given more than 3 times |
| `lifecycle_signals` | Which parts does a request meet, what does an end misuse or leave, and does it come to its end, whatever it interrupts? | 2 signals, a failure at each call of the start, 2 threads, 2 people, 2 user objects (one in the pool at first); fairness |
| `categories_malformed` | How is a malformed update answered? | 1 thread, nothing fails (violated) |
| `transactions_category` | Whose category can a transaction be under? | 1 thread (violated) |
| `transactions_body` | Which place and which amount does a create store? | 1 thread (violated) |
| `lifecycle_failed_start` | Does an end that is alone use a service that was deleted? | 1 signal, no thread in the pool (violated) |

**Why the bounds are enough.** The hazards are about two requests that meet:
one thread between two of its calls while another runs a whole request. Two
threads, two users and two ids give each such meeting, for the same user and for
different ones, on the same id and on different ones. A second object is needed
for an object to be confused with another and a pool that starts with one or
none makes pop create. Fields are independent of each other: one is enough where
only ownership matters and two where an update must leave the other alone. In
`service_threads` a write is done with its reply lost or a crash comes first,
which is a failed write for whoever looks at the collection; calls that fail on
all routes are in `service_serial`. Places share nothing with the other two but
the threads and the death of the process, so that run needs no documents of theirs.
In `roles_calls` the array overflows at the fourth action and the counter, which
goes down from 0 to 7, has values the array has no cells for; a collection has
two documents of one name, one that fills the array and one that does not fit. In
`lifecycle_signals` each signal can interrupt the handler of the
other, anywhere, and be taken by either thread, idle or in a request. In
`transactions_faults` creates name no place and updates do, so that a place in a
new transaction can only be one that an object kept; what a create does with a
place of its own is `transactions_body`.
`Ids` bounds the number of creates in a behaviour; a create that finds no fresh
id is not taken, while everything else goes on.

**Symmetry** is used for users, threads and ids, and only in runs without
liveness properties.

**Fairness.** `FairSpec` of `PocketService` has weak fairness of each thread's
continuation: a thread that has taken a request goes on to its next call. A
thread of the cerver pool runs the handler it was given to its end, the calls of
a handler wait for nothing but MongoDB, Redis and a mutex of the pool that is held
for a moment, and the drivers return with an error when a server does not answer.
`FairSpec` of `Lifecycle` has weak fairness of the main thread's calls, which the
operating system runs, and of each thread's `FinishRequest`, for the same reason as
above. It has none for `HandlerBlocks`, which may happen at every step of a handler
and from which nothing leads on, nor for `cerver_start_stops`: a process in which a
thread tears down may stay for good. A trapped thread never finishes. So a quit
signal need not end the process, and `EndsUnlessStuck` makes an exception of these
waits. What it says is that nothing else holds an end up: ends on the main thread
come by every step, the requests one waits for do finish and no new ones are taken,
and ends that overlap do not send each other back.
Nothing is assumed of requests and signals: none needs ever to arrive. In the
runs with fairness the process does not die of itself (`MayCrash = FALSE`).

**What holds of one request at a time only.** `service_serial` is about what
the code does not promise of requests that overlap. Two updates of one category
that overlap write back all fields they read, so the later undoes the earlier in
fields its body does not name. A category that is deleted between the check and
the insert leaves a transaction without its category; with two threads
`CategoryStillThere` is violated, `InsertsUnderOwnCategory` (the category was
the user's when it was checked) holds. The code locks nothing, and documents no
promise to do so.

### Findings

* `pocket_category_update` drops the error of a malformed body and answers 200;
  the README promises 400 (`categories_malformed`). So do the updates of
  transactions and places.
* An update of a transaction stores any category id, a create checks it
  (`transactions_category`).
* A transaction create reads the place of its body and forgets it, and stores an
  amount written as a JSON integer as 0 (`transactions_body`, whose trace shows both).
* A signal that comes after `start ()` has deleted a service that failed to start,
  and before `main` comes to its `pocket_end ()`, makes the only end there is use the
  deleted service: `pocket_service` is still set (`lifecycle_failed_start`).

Seen while modelling, with no run of their own: a transaction create under
somebody else's category is answered with 404, which the README does not list
for that route; a place create stores a negative `type`, which is none of those
`place.h` names; an update of a transaction without an amount sets it to 0. The
pool of users grows by one object with each private request, as nothing takes
from it, and a user of which a token named only a part goes back to it with its
`iat`. The second `pocket_mongo_init` overwrites the models and the roles of the
first, which are never freed. Two ends that overlap, of two signals or of a signal
and `main`, free parts twice. When a thread of the pool takes the signal and
`cerver_start` returns for it, `main` ends the parts while other threads serve.
A quit signal need not end the process: its handler prints, frees and stops pools,
and waits for ever for a lock that the code it interrupted holds (`HandlerBlocks`)
or, on a thread of the pool, for that thread (`SignalToThread`).
`pocket_mongo_end` leaves the models when the driver is not connected. Removing an
action that a role does not have drops its last one, and from 0 `n_actions` wraps.

## 6. What is proved

Everything is proved from the named assumption of each module alone, for any
finite or infinite number of users, threads, ids, objects, texts, bodies,
actions and signals and any set of failures. Where a theorem needs more it says
so: the counters need finitely many ids and threads, the exact ones also a
process that lives, and some theorems are about one thread.

| Theorem | `Categories` | `Transactions` | `Places` |
|---|---|---|---|
| `TypeCorrect` | `Spec => []TypeOK` | the same | the same |
| `PoolHolds` | `Spec => []PoolIsSound` | the same | the same |
| `Invariant` | `Spec => []IInv` | the same | the same |
| `StoresWhatWasSentHolds` | `Spec => StoresWhatWasSent` | see below | the same |
| `StatsNeverAheadHolds` | `Spec => []StatsNeverAhead` | the same | the same |
| `Implements` | `Spec => ImplementsOwnedStore` | the same | the same |
| `StatsExactHolds` | `Spec => []StatsExact`, if no reply is lost, Redis works, and the process neither crashes nor lacks objects | the same, whatever the number of objects | the same as `Categories` |
| `KeepsOtherFieldsHolds` | `Spec => KeepsOtherFields`, for one thread | the same | the same |
| further | `Isolation`, `NoResurrection`, `ReadsAreOwn`, `SuccessIsTrue` | `InsertsUnderOwnCategory`, `StoresNothingStale` | `OnlyTextsChange`, `SitesMatchTypes` |

| Theorem of `OwnedStore_proofs` | States |
|---|---|
| `StoreInvHolds` | a document exists only under a spent id, and a create answered with `ok` has made one |
| `StoreStepsHold` | owners stand, a write is the one write of a request of the document's user, answers stand |

| Theorem of `PocketService_proofs` | States |
|---|---|
| `CategoriesAreServed`, `PlacesAreServed` | `Spec => Cat!Spec`, `Spec => Place!Spec` |
| `TransactionsAreServedHolds` | `Spec => TransactionsAreServed` |
| `ServiceImplementsOwnedStores` | the three `ImplementsOwnedStore` |
| `UsersAreApart` | no document of any collection changes hands or comes back; every write is one of an unanswered request of its own user |
| `OneKindInvariant` | no thread is in requests of two kinds |
| `PoolsAreSound` | the three `PoolIsSound` |
| `CountersNeverAhead` | the three `StatsNeverAhead`, for finitely many ids and threads |
| `CountersExactHolds` | `Spec => []CountersExact`, if no reply is lost, Redis works, and the process neither crashes nor lacks objects |
| `CategoryStillThereHolds` | `Spec => CategoryStillThere`, for one thread |
| `CategoryUpdatesKeepTheRestHolds`, `TransactionUpdatesKeepTheRestHolds`, `PlaceUpdatesKeepTheRestHolds` | `Spec => ...UpdatesKeepTheRest`, for one thread |

| Theorem of `Roles_proofs` | States |
|---|---|
| `TypeCorrect` | `Spec => []TypeOK` |
| `HoldsWhatWasGivenHolds` | `Spec => []HoldsWhatWasGiven` |
| `GrantsNothingElseHolds` | `Spec => []GrantsNothingElse` |
| `SearchSaysWhatIsStoredHolds` | `Spec => []SearchSaysWhatIsStored` |

| Theorem of `Lifecycle_proofs` | States |
|---|---|
| `TypeCorrect` | `Spec => []TypeOK` |
| `ServedByLivePartsHolds` | `Spec => []ServedByLiveParts` |
| `OneEndMisusesOnlyTheServiceHolds` | `Spec => []OneEndMisusesOnlyTheService` |
| `NothingElseIsLeftHolds` | `Spec => []NothingElseIsLeft` |
| `UsersPoolIsSoundHolds` | `Spec => []UsersPoolIsSound` |
| `ActsForItsTokenHolds` | `Spec => []ActsForItsToken` |

### The collections

None of the properties is inductive. That no document changes owner, for
instance, depends on what an update will write by id alone: on the object its
thread holds having been read from that very document, and on nobody else
holding that object. The inductive invariant `IInv` has two halves.

* `PoolInv` is about requests and objects: the types, what a request looks like
  at each of its calls (`KnowsItsRequest`: which calls hold an object, which
  have a user and an operation), what is in the object it holds
  (`KnowsItsObject`: at an insert exactly the document of its body, at an update
  the id it asked for), that a free object is wiped and in nobody's hands, that
  no object is in two hands, and that every allocated one is free or held.
  It is inductive by itself and is proved first.
* `Ownership` is about documents: the id of a create under way was issued, has
  no document and is no other create's; the id of an update that is about to
  write is one that was inserted for its user (`KnowsItsDocument`); a document
  that exists is under the user it was inserted for.

Each action is one lemma per half. Most actions change one job only:
`OneRequestMoves`, `OneRequestWaits`, `OwnershipWaits` and `OwnershipLeft` reduce
such a step to what it must show about that job. What the three writes do to the
collection is said once (`InsertEffect`, `UpdateEffect`, `DeleteEffect`) and that
no other step writes is `OnlyWritesWrite`; the action properties follow from these.

Some properties have an invariant of their own on top of `IInv`. The documents a
request read keep the owner they had (`ReadsAreOwn`). An answer is right as soon
as it is decided, and stays so until it is sent (`SuccessIsTrue`). A counter and
the creates that have inserted and not counted yet are together no more than the
ids that were inserted (`StatsNeverAhead`): that is an argument on the
cardinalities of finite sets, one element of which moves. In `Transactions` the
categories come and go under an environment of which `CategoryInv` keeps that an
id has one owner for good; that is what makes the check of a create good for its
insert. A transaction create does not store all that its body says (the findings):
`StoresNothingStale` says that each field is its body's or blank, which needs the
same knowledge of the object as `StoresWhatWasSent` does in the other two. In
`Places` an object carries a site exactly when its type is a site's.

The counters are exact by the same argument with an equality, which every insert
and every count keeps. It is lost when a reply is (the insert is not counted),
when Redis refuses a command, or when the process dies between the two, so these
are the hypotheses. A category or a place create without an object is such a
death: hence as many objects as threads, which `PoppingSucceeds` shows to be enough
(every other thread holds at most one). That an update changes what its body names
only rests on `Merges`: between the read and the write of the one thread the object
is the stored document with the body over it. With a second thread that is false,
and so is the theorem (section 5).

### The refinement

The last section of each of the three modules proves that the mapping of section
4 takes initial states to initial states and every action to one step of
`OwnedStore` or to a stutter. Which one is said once: `Accepts` (a request becomes pending),
`Decides` (the call after which the answer is settled, with its effect on the
store) and `Unnoticed` (the store and all answers stay). The delicate actions
are the update, which must write a document of the user it serves although its
filter says nothing of the user (`Ownership`), and the read, whose answer must be
the collection of that moment. `Implements` therefore rests on `Invariant`.

### The service

`PocketService_proofs` takes the theorems of the controllers as they are, in
instances of the three proof modules over the variables of the service
(`CatP`, `TransP`, `PlaceP`). An instance of a module is a copy of its
definitions, so that `SameCategories`, `SameTransactions` and `SamePlaces` first
show these formulas to be the ones of `Cat`, `Trans` and `Place`, and
`CategoriesServed` and its two companions that `PocketServiceAssumption` implies
what each controller assumes.

Then each step of the service is a step of each controller or leaves it alone
(`CategoriesStep`, `PlacesStep`, `TransactionsStep`). The death of the process is
one for all three, which is why the controllers are instantiated with
`MayCrash <- TRUE`. For the transactions there is more to show: a step of the
categories is one of the environment that `Transactions` describes, where an id
gets an owner once (`CategoriesAreTheEnvironment`). That uses the invariant of
the categories: a create inserts under an id that was never used, and an update
by id alone leaves the owner as it is. All that is proved of the controllers then
holds in the service.

Three arguments are about the service itself.

* `OneKindEach`: of the three jobs of a thread at most one is more than idle.
  A request of one kind is taken by a thread that is free of all three, and only
  what was begun is continued.
* `CountersExactHolds` needs that nobody dies (`NobodyDies`), as every death resets
  all three controllers, also between an insert and its count in another one.
* `CategoryStillThereHolds` rests on `CategoryIsThere`: between the check and the
  insert of the one thread the category is in the collection under the user. It
  is inductive only with `OneKindEach`, which excludes that this thread deletes a
  category meanwhile.

`OwnedStore_proofs` is about the abstract store only, whose invariant is small:
ids with a document are spent, and who is busy is a user. As each controller
implements it, the store's guarantees carry over. `UsersAreApart` states them
for documents of the three collections: the mapping is undone
(`CategoryDocuments` and its companions), for which the types of the collections
are needed, since a document that changed must change the store.

### Roles

`GivenInv` says of the role what `HoldsWhatWasGiven` says, and also, while the
counter has not wrapped, that no action is there more often than it was given.
The lemmas on the operators say how a single add, shift or parse changes how
often an action occurs in the array. `ListInv` says that each role of the list is
what its document parses to.

### Start and end

`OwnInv` says what is there and what is gone at each point of the main thread:
`StartedUpTo` while it starts, `EndedUpTo` in an end that nothing overlapped, and
`KnownAt` the one or the other where a start that failed is at `returned` and its
service may be gone already. `Shape` is about the stack (what lies above `main` is
ending or blocked), and `OneMisuse` about the only thing a single end can misuse:
the service, while `main` is at `returned`. `Served` is about the threads: as long
as none of them takes a signal, a request is served only with `main` in
`cerver_start` and every handler on top of it waiting, in `cerver_teardown` or for a
lock. That is why such a request meets live parts even when ends overlap, and no
part is ended under a thread. `Threads` keeps that only the pool of a service that
runs has threads to trap. `UsersInv` is the argument of the pools again, with the
user at each step of a request.

### Only model-checked

Liveness (`ThreadsComeBack`, `EndsUnlessStuck`), which the prover has no rules for.
Every invariant and every action property that a passing run checks is proved.

## 7. What is not modelled

The configuration is read once before there is a thread: that it can fail is the
first step of `Lifecycle`, the values are constants. The handlers of the service
routes answer with responses that `Lifecycle` sets up and deletes, and change no
state. The searches of roles by object id compare ids as the ones by name compare
names. `pocket_cache_init` writes two values that nothing reads. Nothing in `src/`
creates, reads or saves an action (`models/action.c`), the version prints
constants, and the tests are clients that send one request after the other. The
libraries are modelled as far as `src/` relies on them (section 3).
