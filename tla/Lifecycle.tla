------------------------------ MODULE Lifecycle ------------------------------
(***************************************************************************)
(* The life of the process: src/main.c and src/pocket.c set the parts of   *)
(* the service up, serve, and tear it down.  The main thread runs main (); *)
(* the threads of the pool serve requests, with a user each (module Users).*)
(* A signal is handled by the thread that takes it: on the main thread its *)
(* handler end () runs on top of whatever it interrupted, on a thread of   *)
(* the pool end () waits for that thread itself.                           *)
(*                                                                         *)
(* A part is what a static pointer refers to.  pocket_mongo_init () runs   *)
(* twice, and what main () tears down after a start that failed a signal   *)
(* handler may be tearing down already.                                    *)
(***************************************************************************)
EXTENDS Naturals, Sequences, FiniteSets

CONSTANTS
    Workers, Signals,
    CONNECT_TO_REDIS,
    People, UserObjects, UserPoolInit, Lookups, NoUser, NoObject

ASSUME LifecycleAssumption ==
    /\ CONNECT_TO_REDIS \in BOOLEAN
    /\ "main" \notin Signals
    /\ NoUser \notin People
    /\ NoObject \notin UserObjects
    /\ UserPoolInit \subseteq UserObjects
    /\ Lookups \in BOOLEAN

\* "models" are the six CMongoModels and "service" the three prepared responses.
\* Each pool but "users" stands for the responses and the options of their controller
\* too, which pocket_*_end () deletes and, other than the pool, does not set to NULL.
Pools == {"users", "categories", "places", "trans"}
Parts == Pools \cup {"models", "roles", "redis", "service", "cerver"}

VARIABLES
    stack,          \* the frames of the main thread, main () first
    errors,         \* the errors of pocket_init_internal ()
    mongo,          \* mongo_get_status () == MONGO_STATUS_CONNECTED
    ptr,            \* what each pointer refers to
    trapped,        \* the threads of the pool that run end ()
    lost,           \* history: parts of which one was overwritten
    misused,        \* history: parts used or deleted after they were freed
    overlapped,     \* history: an end began when one had begun
    usersPool, usersAllocated, usersMem, usersServing

ownVars == <<stack, errors, mongo, ptr, trapped, lost, misused, overlapped>>
usersVars == <<usersPool, usersAllocated, usersMem, usersServing>>
vars == <<stack, errors, mongo, ptr, trapped, lost, misused, overlapped,
          usersPool, usersAllocated, usersMem, usersServing>>

U == INSTANCE Users WITH
    pool <- usersPool, allocated <- usersAllocated, mem <- usersMem,
    serving <- usersServing

Init ==
    /\ stack = <<[by |-> "main", pc |-> "init_env"]>>
    /\ errors = FALSE
    /\ mongo = FALSE
    /\ ptr = [p \in Parts |-> "null"]
    /\ trapped = {}
    /\ lost = {}
    /\ misused = {}
    /\ overlapped = FALSE
    /\ U!UsersInit

-----------------------------------------------------------------------------
(***************************************************************************)
(* The main thread runs the frame on top of its stack.                     *)
(***************************************************************************)

Running(pc) == stack # << >> /\ stack[Len(stack)].pc = pc

Goto(pc) == stack' = [stack EXCEPT ![Len(stack)].pc = pc]

EndSteps == {"mongo_end", "mongo_disconnect", "credis_end", "roles_end", "users_end",
             "categories_end", "places_end", "trans_end", "service_end", "cerver_end"}

\* a teardown has been called, or main () has come to pocket_end ()
Stopping == trapped # {} \/ \E k \in DOMAIN stack : stack[k].pc \in EndSteps \cup {"teardown"}

\* a handler waits for what it interrupted, or for its own thread
Stuck == trapped # {} \/ \E k \in DOMAIN stack : stack[k].pc = "blocked"

Ending == Stopping \/ Stuck

\* mutant: the old list is deleted, and kept when the new one cannot be read
DeletedFirst(p, ok) ==
    /\ ptr' = [ptr EXCEPT ![p] = IF ok THEN "live" ELSE IF @ = "live" THEN "freed" ELSE @]
    /\ UNCHANGED lost

\* a pointer is assigned; what it referred to is lost
Assigned(p, ok) ==
    /\ ptr' = [ptr EXCEPT ![p] = IF ok THEN "live" ELSE "null"]
    /\ lost' = IF ptr[p] = "live" THEN lost \cup {p} ELSE lost

\* Deleting something twice, after which the process may be gone.
Deleted(p, after, pc) ==
    /\ ptr' = [ptr EXCEPT ![p] = IF @ = "live" THEN after ELSE @]
    /\ IF ptr[p] = "freed"
       THEN /\ misused' = misused \cup {p}
            /\ Goto(pc) \/ stack' = << >>
       ELSE Goto(pc) /\ UNCHANGED misused
    /\ UNCHANGED <<errors, mongo, trapped, lost, overlapped>>

-----------------------------------------------------------------------------
(***************************************************************************)
(* pocket_init (): each call may fail.  Up to redis the first failure is   *)
(* the end, then the errors are collected.                                 *)
(***************************************************************************)

pocket_init_env ==
    /\ Running("init_env")
    /\ Goto("mongo_connect") \/ Goto("returned")
    /\ UNCHANGED <<errors, mongo, ptr, trapped, lost, misused, overlapped, usersVars>>

\* When it fails before the models the driver may say connected or not.
pocket_mongo_connect(pc, next, failed) ==
    /\ Running(pc)
    /\ \/ /\ mongo' \in BOOLEAN
          /\ Goto(failed)
          /\ errors' = TRUE
          /\ UNCHANGED <<ptr, lost>>
       \/ /\ mongo' = TRUE
          /\ Assigned("models", TRUE)
          /\ \/ Goto(next) /\ UNCHANGED errors
             \/ Goto(failed) /\ errors' = TRUE      \* one of the six is NULL
    /\ UNCHANGED <<trapped, misused, overlapped, usersVars>>

pocket_roles_init(pc, next, failed) ==
    /\ Running(pc)
    /\ \E ok \in BOOLEAN :
        /\ Assigned("roles", ok)
        /\ Goto(IF ok THEN next ELSE failed)
        /\ errors' = (errors \/ ~ok)
    /\ UNCHANGED <<mongo, trapped, misused, overlapped, usersVars>>

\* the first and the second pocket_mongo_init ()
pocket_mongo_init ==
    \/ pocket_mongo_connect("mongo_connect", "roles_init", "returned")
    \/ pocket_roles_init("roles_init", "redis_init", "returned")

pocket_mongo_init_again ==
    \/ pocket_mongo_connect("mongo_connect_again", "roles_init_again", "service_init")
    \/ pocket_roles_init("roles_init_again", "service_init", "service_init")

pocket_redis_init ==
    /\ Running("redis_init")
    /\ IF CONNECT_TO_REDIS
       THEN \E live, ok \in BOOLEAN :      \* a pool of connections without answers
            /\ ok => live
            /\ Assigned("redis", live)
            /\ Goto(IF ok THEN "mongo_connect_again" ELSE "returned")
       ELSE Goto("mongo_connect_again") /\ UNCHANGED <<ptr, lost>>
    /\ UNCHANGED <<errors, mongo, trapped, misused, overlapped, usersVars>>

\* a pool can be created and not be filled
InitPart(p, pc, next) ==
    /\ Running(pc)
    /\ \E created \in BOOLEAN :
        /\ Assigned(p, created)
        /\ \/ created /\ UNCHANGED errors
           \/ errors' = TRUE
        /\ IF created /\ p = "users" THEN U!pocket_users_init ELSE UNCHANGED usersVars
    /\ Goto(IF next = "start" /\ errors' THEN "returned" ELSE next)
    /\ UNCHANGED <<mongo, trapped, misused, overlapped>>

pocket_service_init == InitPart("service", "service_init", "users_init")
pocket_users_init == InitPart("users", "users_init", "categories_init")
pocket_categories_init == InitPart("categories", "categories_init", "places_init")
pocket_places_init == InitPart("places", "places_init", "trans_init")
pocket_trans_init == InitPart("trans", "trans_init", "start")

-----------------------------------------------------------------------------
(***************************************************************************)
(* start ().  cerver_start () serves until it is stopped, or fails, and    *)
(* then the service is deleted and pocket_service keeps its address.       *)
(***************************************************************************)

cerver_create ==
    /\ Running("start")
    /\ \E ok \in BOOLEAN :
        /\ Assigned("cerver", ok)
        /\ Goto(IF ok THEN "cerver_start" ELSE "returned")
    /\ UNCHANGED <<errors, mongo, trapped, misused, overlapped, usersVars>>

cerver_start ==
    /\ Running("cerver_start")
    /\ \/ /\ Goto("serve")
          /\ UNCHANGED ptr
       \/ /\ Goto("returned")
          /\ ptr' = [ptr EXCEPT !["cerver"] = "freed"]
    /\ UNCHANGED <<errors, mongo, trapped, lost, misused, overlapped, usersVars>>

\* The teardown that a thread of the pool has begun may be seen by the main
\* thread, for which cerver_start () has not failed then.
cerver_start_stops ==
    /\ Running("serve")
    /\ trapped # {}
    /\ Goto("returned")
    /\ UNCHANGED <<errors, mongo, ptr, trapped, lost, misused, overlapped, usersVars>>

\* the threads of the pool run
Serving == stack # << >> /\ stack[1].pc # "cerver_start" /\ ptr["cerver"] = "live"

\* one of them takes a request, unless a teardown has begun
TakeRequest(w) ==
    /\ Serving /\ ~Stopping
    /\ U!pocket_user_parse_from_json(w) \/ U!pocket_user_get_by_email(w)
    /\ UNCHANGED ownVars

\* the rest of the request, with all that the handlers do
FinishRequest(w) ==
    /\ Serving /\ w \notin trapped /\ ptr["users"] = "live"
    /\ U!user_get_by_email(w) \/ U!pocket_user_delete(w)
    /\ UNCHANGED ownVars

\* A request that is still served when main () has ended a part: the process
\* may go on or not.
RequestMeetsEnd(w) ==
    /\ Serving /\ w \notin trapped /\ ~U!At(w, "idle")
    /\ \E p \in Parts : ptr[p] = "freed"
    /\ misused' = misused \cup {p \in Parts : ptr[p] = "freed"}
    /\ stack' \in {stack, << >>}
    /\ UNCHANGED <<errors, mongo, ptr, trapped, lost, overlapped, usersVars>>

-----------------------------------------------------------------------------
(***************************************************************************)
(* The end: of main () after start () has returned, and of each signal.    *)
(***************************************************************************)

\* main () calls pocket_end () itself
main_ends ==
    /\ Running("returned")
    /\ Goto("mongo_end")
    /\ overlapped' = (overlapped \/ Ending)
    /\ UNCHANGED <<errors, mongo, ptr, trapped, lost, misused, usersVars>>

\* mutant: the parts are ended under the threads
EntryWithoutTeardown == "mongo_end"

Entry == "teardown"

\* The main thread takes a signal.  It is masked in this thread, and in no
\* other, while its own handler runs.
Signal(s) ==
    /\ stack # << >>
    /\ \A k \in DOMAIN stack : stack[k].by # s
    /\ stack' = Append(stack, [by |-> s, pc |-> Entry])
    /\ overlapped' = (overlapped \/ Ending)
    /\ UNCHANGED <<errors, mongo, ptr, trapped, lost, misused, usersVars>>

\* A thread of the pool takes one, idle or in the middle of a request.  Its
\* cerver_teardown () waits for the threads of the pool, itself among them.
SignalToThread(w) ==
    /\ Signals # {}
    /\ Serving
    /\ w \notin trapped
    /\ trapped' = trapped \cup {w}
    /\ overlapped' = (overlapped \/ Ending)
    /\ UNCHANGED <<stack, errors, mongo, ptr, lost, misused, usersVars>>

\* what a step of an end deletes, if it is there
Target == [teardown |-> "cerver", mongo_end |-> "models", credis_end |-> "redis",
           roles_end |-> "roles", users_end |-> "users", categories_end |-> "categories",
           places_end |-> "places", trans_end |-> "trans", service_end |-> "service"]

\* end () prints, frees and stops pools.  What it interrupted may hold the lock
\* it needs for that (of the heap, of a stream, of a pool), and goes on only
\* after the handler.
HandlerBlocks ==
    /\ Len(stack) > 1
    /\ \E pc \in EndSteps \cup {"teardown"} :
        /\ Running(pc)
        /\ pc \in DOMAIN Target => ptr[Target[pc]] # "null"
        /\ pc = "mongo_end" => mongo
    /\ Goto("blocked")
    /\ UNCHANGED <<errors, mongo, ptr, trapped, lost, misused, overlapped, usersVars>>

\* It waits for the threads of the pool; nothing sets pocket_service to NULL.
cerver_teardown ==
    /\ Running("teardown")
    /\ trapped = {} /\ \A w \in Workers : U!At(w, "idle")
    /\ Deleted("cerver", "freed", "mongo_end")
    /\ UNCHANGED usersVars

pocket_mongo_end ==
    /\ Running("mongo_end")
    /\ IF mongo THEN Deleted("models", "freed", "mongo_disconnect")
       ELSE Goto("credis_end") /\ UNCHANGED <<errors, mongo, ptr, trapped, lost, misused, overlapped>>
    /\ UNCHANGED usersVars

mongo_disconnect ==
    /\ Running("mongo_disconnect")
    /\ mongo' = FALSE
    /\ Goto("credis_end")
    /\ UNCHANGED <<errors, ptr, trapped, lost, misused, overlapped, usersVars>>

credis_end ==
    /\ Running("credis_end")
    /\ IF CONNECT_TO_REDIS THEN Deleted("redis", "null", "roles_end")
       ELSE Goto("roles_end") /\ UNCHANGED <<errors, mongo, ptr, trapped, lost, misused, overlapped>>
    /\ UNCHANGED usersVars

pocket_roles_end ==
    Running("roles_end") /\ Deleted("roles", "freed", "users_end") /\ UNCHANGED usersVars

pocket_users_end ==
    /\ Running("users_end")
    /\ Deleted("users", "null", "categories_end")
    /\ U!pocket_users_end

\* mutant: the places are forgotten
AfterCategoriesShort == "trans_end"

AfterCategories == "places_end"

pocket_categories_end ==
    /\ Running("categories_end")
    /\ Deleted("categories", "freed", AfterCategories)
    /\ UNCHANGED usersVars

pocket_places_end ==
    Running("places_end") /\ Deleted("places", "freed", "trans_end") /\ UNCHANGED usersVars

pocket_trans_end ==
    Running("trans_end") /\ Deleted("trans", "freed", "service_end") /\ UNCHANGED usersVars

pocket_service_end ==
    /\ Running("service_end")
    /\ Deleted("service", "freed", "cerver_end")
    /\ UNCHANGED usersVars

pocket_end ==
    \/ pocket_mongo_end \/ mongo_disconnect \/ credis_end
    \/ pocket_roles_end \/ pocket_users_end
    \/ pocket_categories_end \/ pocket_places_end \/ pocket_trans_end
    \/ pocket_service_end

\* mutant: the handler returns to what it interrupted
Returned == SubSeq(stack, 1, Len(stack) - 1)

\* main () returns, a handler calls exit (): the process is over
Gone == << >>

cerver_end ==
    /\ Running("cerver_end")
    /\ stack' = Gone
    /\ UNCHANGED <<errors, mongo, ptr, trapped, lost, misused, overlapped, usersVars>>

-----------------------------------------------------------------------------

Start ==
    \/ pocket_init_env
    \/ pocket_mongo_init \/ pocket_redis_init \/ pocket_mongo_init_again
    \/ pocket_service_init \/ pocket_users_init \/ pocket_categories_init
    \/ pocket_places_init \/ pocket_trans_init
    \/ cerver_create \/ cerver_start

End == main_ends \/ cerver_teardown \/ pocket_end \/ cerver_end

\* the process is over, or waits for itself
Over == (stack = << >> \/ Stuck) /\ UNCHANGED vars

Next ==
    \/ Start
    \/ End
    \/ cerver_start_stops
    \/ \E s \in Signals : Signal(s)
    \/ HandlerBlocks
    \/ \E w \in Workers : SignalToThread(w)
    \/ \E w \in Workers : TakeRequest(w) \/ FinishRequest(w) \/ RequestMeetsEnd(w)
    \/ Over

Spec == Init /\ [][Next]_vars

\* The main thread runs, and a thread that has taken a request finishes it; but
\* a handler may block, and cerver_start () need not see another's teardown.
FairSpec ==
    /\ Spec
    /\ WF_vars(Start \/ End)
    /\ \A w \in Workers : WF_vars(FinishRequest(w))

-----------------------------------------------------------------------------
(***************************************************************************)
(* Properties.                                                             *)
(***************************************************************************)

PCs == EndSteps \cup
    {"init_env", "mongo_connect", "roles_init", "redis_init", "mongo_connect_again",
     "roles_init_again", "service_init", "users_init", "categories_init",
     "places_init", "trans_init", "start", "cerver_start", "serve", "returned", "teardown",
     "blocked"}

\* The type invariant.
TypeOK ==
    /\ stack \in Seq([by : Signals \cup {"main"}, pc : PCs])
    /\ errors \in BOOLEAN
    /\ mongo \in BOOLEAN
    /\ ptr \in [Parts -> {"null", "live", "freed"}]
    /\ trapped \subseteq Workers
    /\ lost \subseteq Parts
    /\ misused \subseteq Parts
    /\ overlapped \in BOOLEAN
    /\ U!UsersTypeOK

\* A request never meets a part that is not there yet or not there any more:
\* while a thread has one, all that the handlers use is live, through a start
\* that fails anywhere and through signals that the main thread takes at any
\* moment, nested ones too.  One that a thread of the pool takes can make
\* cerver_start () return, and main () end the parts under the others.
ServedByLiveParts ==
    trapped = {} /\ (\E w \in Workers : ~U!At(w, "idle")) =>
        /\ mongo
        /\ \A p \in Parts \ {"redis"} : ptr[p] = "live"
        /\ CONNECT_TO_REDIS => ptr["redis"] = "live"

\* roles, the responses and the models keep the pointers to what was deleted,
\* and all the same one end uses or deletes nothing of them after it was freed,
\* however far the start came.  Only pocket_service, which start () deletes and
\* does not set to NULL, can be met by the end of a signal that comes before
\* main () has come to its pocket_end ().  (stack is empty when the process
\* dies of it.)
OneEndMisusesOnlyTheService ==
    ~overlapped /\ misused # {} =>
        /\ misused = {"cerver"}
        /\ stack = << >> \/ stack[1].pc = "returned"

\* "if (pocket_service)" (src/main.c:31): end () looks whether there is a service
\* before it uses it, and an end that no other end meets uses none that was
\* deleted.  Does not hold.
OneEndFindsTheService == ~overlapped => "cerver" \notin misused

\* However far the start came and whichever way the process ends, one end
\* that misuses nothing releases all that is still referred to, but the models
\* when there was an error (pocket_mongo_end () asks the driver first); lost are
\* only the models and the list of roles of the first pocket_mongo_init ().
NothingElseIsLeft ==
    /\ lost \subseteq {"models", "roles"}
    /\ stack = << >> /\ ~overlapped /\ misused = {} =>
        \A p \in Parts : ptr[p] = "live" => p = "models" /\ errors

\* users_pool in the life of the process: free users are nobody's and none is
\* lost, from pocket_users_init () to pocket_users_end ().
UsersPoolIsSound == U!FreeUsersAreNobody

\* A request acts for the person of its own token.
ActsForItsToken == U!ActsForItsToken

\* An end that has begun comes to its end unless it waits for itself: the
\* handler of a signal waits for the threads, each of which finishes its request
\* and takes no new one.  (Where it does wait for itself, at HandlerBlocks and
\* SignalToThread, the quit signal does not end the process.)
EndsUnlessStuck == Ending ~> (stack = << >> \/ Stuck)

=============================================================================
