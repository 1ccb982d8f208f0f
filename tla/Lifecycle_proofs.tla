--------------------------- MODULE Lifecycle_proofs ---------------------------
(***************************************************************************)
(* The start and the end of the process for any number of threads, signals *)
(* and users, whatever call of the start fails and whenever signals come.  *)
(***************************************************************************)
EXTENDS Lifecycle, TLAPS

Frames == [by : Signals \cup {"main"}, pc : PCs]

Ends == EndSteps \cup {"teardown"}

\* where main () is before it calls pocket_end (), and as long as it starts
MainPCs == PCs \ (Ends \cup {"blocked"})

StartPCs == MainPCs \ {"serve", "returned"}

Internal == {"service_init", "users_init", "categories_init", "places_init", "trans_init"}

-----------------------------------------------------------------------------
(***************************************************************************)
(* The inductive invariant.                                                *)
(***************************************************************************)

\* the parts that main () has come by on its way to pc
Done(pc) ==
    CASE pc \in {"init_env", "mongo_connect"} -> {}
      [] pc = "roles_init" -> {"models"}
      [] pc = "redis_init" -> {"models", "roles"}
      [] pc \in {"mongo_connect_again", "roles_init_again", "service_init"} ->
            {"models", "roles", "redis"}
      [] pc = "users_init" -> {"models", "roles", "redis", "service"}
      [] pc = "categories_init" -> {"models", "roles", "redis", "service", "users"}
      [] pc = "places_init" -> {"models", "roles", "redis", "service", "users", "categories"}
      [] pc = "trans_init" -> Parts \ {"trans", "cerver"}
      [] pc = "start" -> Parts \ {"cerver"}
      [] OTHER -> Parts

\* the parts that an end has come by on its way to pc
Ended(pc) ==
    CASE pc = "teardown" -> {}
      [] pc = "mongo_end" -> {"cerver"}
      [] pc \in {"mongo_disconnect", "credis_end"} -> {"cerver", "models"}
      [] pc = "roles_end" -> {"cerver", "models", "redis"}
      [] pc = "users_end" -> {"cerver", "models", "redis", "roles"}
      [] pc = "categories_end" -> {"cerver", "models", "redis", "roles", "users"}
      [] pc = "places_end" -> Parts \ {"places", "trans", "service"}
      [] pc = "trans_end" -> Parts \ {"trans", "service"}
      [] pc = "service_end" -> Parts \ {"service"}
      [] OTHER -> Parts

There(p) == ptr[p] = "live" \/ (p = "redis" /\ ~CONNECT_TO_REDIS)

\* what is there when main () has come to pc
StartedUpTo(pc) ==
    /\ \A p \in Parts \ Done(pc) : ptr[p] = "null"
    /\ \A p \in Done(pc) : ptr[p] # "freed"
    /\ ~errors => \A p \in Done(pc) : There(p)
    /\ ~errors /\ Done(pc) # {} => mongo
    /\ pc \notin Internal => ~errors

Left(p) == ptr[p] = "live" => p = "models" /\ errors

\* what is gone when an end has come to pc
EndedUpTo(pc) ==
    /\ \A p \in Parts \ (Ended(pc) \cup {"cerver"}) : ptr[p] # "freed"
    /\ \A p \in Ended(pc) : Left(p)
    /\ pc \in {"teardown", "mongo_end"} => (ptr["models"] = "live" => mongo \/ errors)

\* what is there when main () is at pc; a failed start left nothing to serve,
\* and cerver_start () that did not fail left everything
KnownAt(pc) ==
    IF pc # "returned" THEN StartedUpTo(pc)
    ELSE IF trapped = {} THEN EndedUpTo("mongo_end")
    ELSE \A p \in Parts : ptr[p] # "freed"

\* handlers are always ending, and one end at a time unless ends overlap
Shape ==
    /\ \A k \in 2 .. Len(stack) : stack[k].pc \in Ends \cup {"blocked"}
    /\ stack # << >> => stack[1].pc # "blocked"
    /\ ~overlapped =>
          \A k \in 1 .. Len(stack) - 1 : stack[k].pc \notin Ends \cup {"blocked"}
    /\ ~overlapped /\ trapped # {} =>
          \A k \in 1 .. Len(stack) : stack[k].pc \notin Ends \cup {"blocked"}

Starting ==
    Len(stack) = 1 /\ stack[1].pc \notin Ends => KnownAt(stack[1].pc)

\* what a single end has misused, and when
OneMisuse ==
    misused # {} =>
        /\ misused = {"cerver"}
        /\ stack = << >> \/ (Len(stack) > 1 /\ stack[1].pc = "returned")

OneEnd ==
    /\ stack # << >> /\ stack[Len(stack)].pc \in Ends /\ ~overlapped =>
          EndedUpTo(stack[Len(stack)].pc)
    /\ stack # << >> /\ stack[Len(stack)].pc = "teardown" /\ ~overlapped
          /\ ptr["cerver"] = "freed" =>
              Len(stack) > 1 /\ stack[1].pc = "returned"
    /\ stack = << >> /\ ~overlapped /\ misused = {} => \A p \in Parts : Left(p)
    /\ ~overlapped => OneMisuse

Pointers ==
    /\ lost \subseteq {"models", "roles"}
    /\ ~CONNECT_TO_REDIS => ptr["redis"] = "null"

\* A thread is only trapped when cerver_start () has started the pool.
Threads ==
    stack # << >> =>
        /\ ptr["cerver"] = "live" => stack[1].pc \in {"cerver_start", "serve"} \/ trapped # {}
        /\ trapped # {} => stack[1].pc \in {"serve", "returned"} \cup EndSteps

Busy == \E w \in Workers : ~U!At(w, "idle")

AllIdle == \A w \in Workers : U!At(w, "idle")

\* the main thread is in cerver_start (), and nothing was torn down
InService == stack # << >> /\ stack[1].pc = "serve" /\ ptr["cerver"] = "live"

AllThere == mongo /\ \A p \in Parts : There(p)

HandlersWait == \A k \in 2 .. Len(stack) : stack[k].pc \in {"teardown", "blocked"}

\* As long as no thread of the pool takes a signal, requests are served in
\* cerver_start () only, where handlers on top of it wait, for the threads or
\* for good.
Served ==
    trapped = {} =>
        /\ Busy => InService
        /\ InService => AllThere /\ HandlersWait

DataTypeOK ==
    /\ errors \in BOOLEAN
    /\ mongo \in BOOLEAN
    /\ ptr \in [Parts -> {"null", "live", "freed"}]
    /\ trapped \subseteq Workers
    /\ lost \subseteq Parts
    /\ misused \subseteq Parts
    /\ overlapped \in BOOLEAN

OwnTypeOK == stack \in Seq(Frames) /\ DataTypeOK

OwnInv == OwnTypeOK /\ Shape /\ Starting /\ OneEnd /\ Pointers /\ Threads /\ Served

\* what a thread knows of its user
KnowsItsUser(w) ==
    /\ U!At(w, "idle") => usersServing[w].object = NoObject
    /\ U!At(w, "lookup") =>
          /\ usersServing[w].object \in UserObjects
          /\ usersMem[usersServing[w].object].id = NoUser
          /\ usersServing[w].whole
          /\ usersServing[w].token \in People

UsersInv ==
    /\ U!UsersTypeOK
    /\ U!FreeUsersAreNobody
    /\ U!ActsForItsToken
    /\ \A w \in Workers : KnowsItsUser(w)
    /\ \A o \in UserObjects \ usersAllocated : usersMem[o].id = NoUser

IInv == OwnInv /\ UsersInv

-----------------------------------------------------------------------------
(***************************************************************************)
(* The stack.                                                              *)
(***************************************************************************)

LEMMA TopMoves ==
    ASSUME stack \in Seq(Frames), stack # << >>, NEW pc \in PCs, Goto(pc)
    PROVE  /\ stack' \in Seq(Frames) /\ stack' # << >>
           /\ Len(stack') = Len(stack) /\ Len(stack) \in Nat /\ Len(stack) > 0
           /\ \A k \in 1 .. Len(stack) - 1 : stack'[k] = stack[k]
           /\ stack'[Len(stack)].pc = pc
<1> DEFINE n == Len(stack)
           f == [stack[n] EXCEPT !.pc = pc]
<1>1. n \in Nat /\ n > 0 /\ n \in DOMAIN stack /\ stack[n] \in Frames
  OBVIOUS
<1>2. f \in Frames /\ f.pc = pc
  BY <1>1 DEF Frames
<1>3. stack' = [stack EXCEPT ![n] = f]
  BY DEF Goto
<1>4. stack' \in Seq(Frames) /\ Len(stack') = n
  BY <1>1, <1>2, <1>3
<1>5. stack'[n] = f /\ \A k \in 1 .. n - 1 : stack'[k] = stack[k]
  BY <1>1, <1>3
<1> QED BY <1>1, <1>2, <1>4, <1>5

\* The main thread is starting or serving only as long as no signal came.
LEMMA StartsAlone ==
    ASSUME OwnTypeOK, Shape, NEW pc \in MainPCs, Running(pc)
    PROVE  /\ Len(stack) = 1 /\ stack # << >> /\ stack[1].pc = pc
           /\ stack \in Seq(Frames)
<1>1. stack \in Seq(Frames) /\ stack # << >> /\ stack[Len(stack)].pc = pc
  BY DEF OwnTypeOK, Running
<1>2. Len(stack) \in Nat /\ Len(stack) > 0
  BY <1>1
<1>3. ~(Len(stack) >= 2)
  BY <1>1, <1>2 DEF Shape, MainPCs
<1>4. \A n \in Nat : n > 0 /\ ~(n >= 2) => n = 1
  OBVIOUS
<1>5. Len(stack) = 1
  BY <1>2, <1>3, <1>4
<1> QED BY <1>1, <1>5

LEMMA StartKnows ==
    ASSUME OwnInv, NEW pc \in MainPCs, Running(pc)
    PROVE  /\ KnownAt(pc) /\ DataTypeOK /\ Pointers
           /\ ~overlapped => misused = {}
           /\ pc \in StartPCs => trapped = {}
<1>1. Len(stack) = 1 /\ stack # << >> /\ stack[1].pc = pc
  BY StartsAlone DEF OwnInv
<1>2. pc \notin Ends
  BY DEF MainPCs
<1>3. pc \in StartPCs => pc \notin {"serve", "returned"} \cup EndSteps
  BY <1>2 DEF StartPCs, Ends
<1> QED BY <1>1, <1>2, <1>3 DEF OwnInv, OwnTypeOK, Starting, OneEnd, OneMisuse, Threads

\* What a step of the start or of an end has to show.
LEMMA StartMoves ==
    ASSUME OwnInv, NEW pc \in StartPCs, Running(pc),
           NEW next \in MainPCs, Goto(next),
           DataTypeOK', Pointers',
           UNCHANGED <<trapped, misused, overlapped>>, usersServing' = usersServing,
           IF next = "returned" THEN EndedUpTo("mongo_end")' ELSE StartedUpTo(next)'
    PROVE  OwnInv'
<1>0. /\ pc \in MainPCs /\ pc \notin Ends /\ pc # "serve"
      /\ next \in PCs /\ next \notin Ends /\ next # "blocked" /\ next # "teardown"
  BY DEF StartPCs, MainPCs, Ends
<1>1. Len(stack) = 1 /\ stack # << >> /\ stack[1].pc = pc /\ stack \in Seq(Frames)
  BY <1>0, StartsAlone DEF OwnInv
<1>2. /\ Len(stack') = 1 /\ stack' # << >> /\ stack'[1].pc = next
      /\ stack' \in Seq(Frames)
  BY <1>0, <1>1, TopMoves
<1>3. trapped = {} /\ trapped' = {} /\ (~overlapped => misused = {})
  BY <1>0, StartKnows
<1>4. Shape' /\ Starting'
  BY <1>0, <1>2, <1>3 DEF Shape, Starting, KnownAt
<1>5. OneEnd'
  BY <1>0, <1>2, <1>3 DEF OneEnd, OneMisuse
<1>6. Served'
  <2>1. ~Busy /\ ~Busy'
    BY <1>0, <1>1, <1>3 DEF OwnInv, Served, InService, Busy, U!At
  <2>2. InService' => AllThere'
    <3> SUFFICES ASSUME next = "serve" PROVE AllThere'
      BY <1>2 DEF InService
    <3>1. StartedUpTo("serve")'
      OBVIOUS
    <3>2. Done("serve") = Parts /\ Parts # {} /\ "serve" \notin Internal
      BY DEF Done, Internal, Parts
    <3> QED BY <3>1, <3>2 DEF StartedUpTo, AllThere
  <2>3. HandlersWait'
    BY <1>2 DEF HandlersWait
  <2> QED BY <2>1, <2>2, <2>3 DEF Served
<1>7. Threads'
  <2>1. CASE next = "returned"
    BY <1>2, <1>3, <2>1 DEF Threads, EndedUpTo, Ended, Left
  <2>2. CASE next # "returned"
    <3>1. "cerver" \in Done(next) => next \in {"cerver_start", "serve"}
      BY <1>0, <2>2 DEF PCs, Done, Ends, Parts, Pools
    <3>2. ptr'["cerver"] = "live" => "cerver" \in Done(next)
      BY <2>2 DEF StartedUpTo, Parts
    <3> QED BY <1>2, <1>3, <3>1, <3>2 DEF Threads
  <2> QED BY <2>1, <2>2
<1> QED BY <1>2, <1>4, <1>5, <1>6, <1>7 DEF OwnInv, OwnTypeOK

LEMMA EndMoves ==
    ASSUME OwnInv, NEW pc \in Ends, Running(pc),
           NEW next \in EndSteps, Goto(next),
           DataTypeOK', Pointers', UNCHANGED <<trapped, overlapped>>,
           ptr'["cerver"] = "live" => ptr["cerver"] = "live" /\ pc # "teardown",
           trapped = {} => AllIdle /\ AllIdle',
           ~overlapped => /\ EndedUpTo(next)'
                          /\ \/ misused' = misused
                             \/ /\ misused' = {"cerver"}
                                /\ Len(stack) > 1 /\ stack[1].pc = "returned"
    PROVE  OwnInv'
<1>1. stack # << >> /\ stack \in Seq(Frames) /\ stack[Len(stack)].pc = pc
  BY DEF OwnInv, OwnTypeOK, Running
<1>2. next \in PCs
  BY DEF PCs
<1>3. /\ stack' \in Seq(Frames) /\ stack' # << >>
      /\ Len(stack') = Len(stack) /\ Len(stack) \in Nat /\ Len(stack) > 0
      /\ \A k \in 1 .. Len(stack) - 1 : stack'[k] = stack[k]
      /\ stack'[Len(stack)].pc = next
  BY <1>1, <1>2, TopMoves
<1>4. next \in Ends /\ next # "blocked" /\ next # "teardown"
  BY DEF Ends, EndSteps
<1>5. Len(stack) = 1 \/ (Len(stack) > 1 /\ stack'[1] = stack[1])
  BY <1>3
<1>6. Shape'
  BY <1>1, <1>3, <1>4, <1>5 DEF OwnInv, Shape
<1>7. Starting'
  BY <1>3, <1>4 DEF Starting
<1>8. OneEnd'
  <2>1. ~overlapped => OneMisuse'
    <3> SUFFICES ASSUME ~overlapped, misused' # {}
                 PROVE  /\ misused' = {"cerver"}
                        /\ Len(stack') > 1 /\ stack'[1].pc = "returned"
      BY DEF OneMisuse
    <3>1. misused' = {"cerver"} /\ Len(stack) > 1 /\ stack[1].pc = "returned"
      BY <1>1 DEF OwnInv, OneEnd, OneMisuse
    <3> QED BY <1>3, <1>5, <3>1
  <2> QED BY <1>3, <1>4, <2>1 DEF OneEnd
<1>9. Served'
  <2> SUFFICES ASSUME trapped' = {} PROVE ~Busy' /\ ~InService'
    BY DEF Served
  <2>1. ~Busy'
    BY DEF Busy, AllIdle
  <2>2. ASSUME InService' PROVE FALSE
    <3>1. ptr["cerver"] = "live" /\ pc # "teardown"
      BY <2>2 DEF InService
    <3>2. Len(stack) > 1 /\ stack[1].pc = "serve"
      BY <1>3, <1>5, <2>2 DEF InService, EndSteps
    <3>3. HandlersWait
      BY <1>1, <3>1, <3>2 DEF OwnInv, Served, InService
    <3>4. pc = "blocked"
      BY <1>1, <1>3, <3>1, <3>2, <3>3 DEF HandlersWait
    <3> QED BY <3>4 DEF Ends, EndSteps
  <2> QED BY <2>1, <2>2
<1>10. Threads'
  <2>1. CASE Len(stack) = 1
    <3>1. stack[1].pc = pc /\ pc \notin {"cerver_start", "serve"}
      BY <1>1, <2>1 DEF Ends, EndSteps
    <3> QED BY <1>1, <1>3, <2>1, <3>1 DEF OwnInv, Threads
  <2>2. CASE Len(stack) > 1
    BY <1>1, <1>3, <1>5, <2>2 DEF OwnInv, Threads
  <2> QED BY <1>5, <2>1, <2>2
<1> QED BY <1>3, <1>6, <1>7, <1>8, <1>9, <1>10 DEF OwnInv, OwnTypeOK

\* Only a thread that waits, or one that is idle, lets an end go on.
LEMMA EndsIdle ==
    ASSUME OwnInv, NEW pc \in EndSteps, Running(pc)
    PROVE  trapped = {} => AllIdle
<1>1. stack # << >> /\ stack \in Seq(Frames) /\ stack[Len(stack)].pc = pc
  BY DEF OwnInv, OwnTypeOK, Running
<1>2. Len(stack) \in Nat /\ Len(stack) > 0
  BY <1>1
<1>3. pc # "teardown" /\ pc # "serve" /\ pc # "blocked"
  BY DEF EndSteps
<1> QED BY <1>1, <1>2, <1>3 DEF OwnInv, Served, InService, HandlersWait, Busy, AllIdle

LEMMA EndKnows ==
    ASSUME OwnInv, NEW pc \in Ends, Running(pc)
    PROVE  /\ ~overlapped =>
              /\ EndedUpTo(pc) /\ trapped = {}
              /\ pc = "teardown" /\ ptr["cerver"] = "freed" =>
                    Len(stack) > 1 /\ stack[1].pc = "returned"
           /\ DataTypeOK /\ Pointers
<1>1. stack # << >> /\ stack \in Seq(Frames) /\ stack[Len(stack)].pc = pc
      /\ Len(stack) \in Nat /\ Len(stack) > 0
  BY DEF OwnInv, OwnTypeOK, Running
<1>2. ~overlapped => trapped = {}
  BY <1>1 DEF OwnInv, Shape
<1> QED BY <1>1, <1>2 DEF OwnInv, OwnTypeOK, OneEnd

-----------------------------------------------------------------------------
(***************************************************************************)
(* The steps of the start.                                                 *)
(***************************************************************************)

LEMMA EnvRead ==
    ASSUME OwnInv, pocket_init_env
    PROVE  OwnInv'
<1>1. "init_env" \in StartPCs /\ "mongo_connect" \in MainPCs /\ "returned" \in MainPCs
  BY DEF PCs, Ends, EndSteps, MainPCs, StartPCs
<1>2. /\ Running("init_env")
      /\ UNCHANGED <<errors, mongo, ptr, trapped, lost, misused, overlapped, usersServing>>
  BY DEF pocket_init_env, usersVars
<1>3. StartedUpTo("init_env") /\ DataTypeOK /\ Pointers
  BY <1>1, <1>2, StartKnows DEF StartPCs, KnownAt
<1>4. DataTypeOK' /\ Pointers'
  BY <1>2, <1>3 DEF DataTypeOK, Pointers
<1>5. \A p \in Parts : ptr[p] = "null"
  BY <1>3 DEF StartedUpTo, Done
<1>6. StartedUpTo("mongo_connect")'
  BY <1>2, <1>3, <1>5 DEF StartedUpTo, Done, There, Internal
<1>7. EndedUpTo("mongo_end")'
  BY <1>2, <1>5 DEF EndedUpTo, Ended, Left, Parts, Pools
<1>8. CASE Goto("mongo_connect")
  BY <1>1, <1>2, <1>4, <1>6, <1>8, StartMoves
<1>9. CASE Goto("returned")
  BY <1>1, <1>2, <1>4, <1>7, <1>9, StartMoves
<1> QED BY <1>8, <1>9 DEF pocket_init_env

LEMMA MongoConnects ==
    ASSUME OwnInv, NEW pc, NEW next, NEW failed, pocket_mongo_connect(pc, next, failed),
           \/ pc = "mongo_connect" /\ next = "roles_init" /\ failed = "returned"
           \/ /\ pc = "mongo_connect_again" /\ next = "roles_init_again"
              /\ failed = "service_init"
    PROVE  OwnInv'
<1>1. pc \in StartPCs /\ next \in MainPCs /\ failed \in MainPCs /\ next # "returned"
  BY DEF PCs, Ends, EndSteps, MainPCs, StartPCs
<1>6. failed = "returned" \/ failed = "service_init"
  OBVIOUS
<1>2. /\ Running(pc)
      /\ UNCHANGED <<trapped, misused, overlapped, usersServing>>
  BY DEF pocket_mongo_connect, usersVars
<1>3. StartedUpTo(pc) /\ DataTypeOK /\ Pointers
  BY <1>1, <1>2, StartKnows DEF StartPCs, KnownAt
<1>4. CASE /\ mongo' \in BOOLEAN
           /\ Goto(failed)
           /\ errors' = TRUE
           /\ UNCHANGED <<ptr, lost>>
  <2>1. DataTypeOK' /\ Pointers'
    BY <1>2, <1>3, <1>4 DEF DataTypeOK, Pointers
  <2>2. IF failed = "returned" THEN EndedUpTo("mongo_end")' ELSE StartedUpTo(failed)'
    <3>1. CASE failed = "returned"
      BY <1>1, <1>3, <1>4, <3>1 DEF EndedUpTo, Ended, Left, Parts, Pools, StartedUpTo, Done
    <3>2. CASE failed = "service_init"
      BY <1>1, <1>3, <1>4, <3>2 DEF StartedUpTo, Done, There, Internal
    <3> QED BY <3>1, <3>2
  <2> QED BY <1>1, <1>2, <1>4, <2>1, <2>2, StartMoves
<1>5. CASE /\ mongo' = TRUE
           /\ Assigned("models", TRUE)
           /\ \/ Goto(next) /\ UNCHANGED errors
              \/ Goto(failed) /\ errors' = TRUE
  <2>1. DataTypeOK' /\ Pointers'
    BY <1>2, <1>3, <1>5 DEF DataTypeOK, Pointers, Assigned, Parts
  <2>2. /\ ptr' = [ptr EXCEPT !["models"] = "live"]
        /\ "models" \in Parts
    BY <1>5 DEF Assigned, Parts
  <2>3. CASE Goto(next) /\ UNCHANGED errors
    <3>1. StartedUpTo(next)'
      BY <1>3, <1>5, <2>2, <2>3 DEF StartedUpTo, Done, There, Internal, DataTypeOK
    <3> QED BY <1>1, <1>2, <2>1, <2>3, <3>1, StartMoves
  <2>4. CASE Goto(failed) /\ errors' = TRUE
    <3>1. IF failed = "returned" THEN EndedUpTo("mongo_end")' ELSE StartedUpTo(failed)'
      <4>1. CASE failed = "returned"
        BY <1>1, <1>3, <1>5, <2>2, <2>4, <4>1
           DEF EndedUpTo, Ended, Left, Parts, Pools, StartedUpTo, Done, DataTypeOK
      <4>2. CASE failed = "service_init"
        BY <1>1, <1>3, <1>5, <2>2, <2>4, <4>2
           DEF StartedUpTo, Done, There, Internal, DataTypeOK
      <4> QED BY <1>6, <4>1, <4>2
    <3> QED BY <1>1, <1>2, <2>1, <2>4, <3>1, StartMoves
  <2> QED BY <1>5, <2>3, <2>4
<1> QED BY <1>4, <1>5 DEF pocket_mongo_connect

LEMMA RolesRead ==
    ASSUME OwnInv, NEW pc, NEW next, NEW failed, pocket_roles_init(pc, next, failed),
           \/ pc = "roles_init" /\ next = "redis_init" /\ failed = "returned"
           \/ pc = "roles_init_again" /\ next = "service_init" /\ failed = "service_init"
    PROVE  OwnInv'
<1>1. pc \in StartPCs /\ next \in MainPCs /\ failed \in MainPCs /\ next # "returned"
  BY DEF PCs, Ends, EndSteps, MainPCs, StartPCs
<1>2. PICK ok \in BOOLEAN :
        /\ Running(pc)
        /\ UNCHANGED <<mongo, trapped, misused, overlapped, usersServing>>
        /\ Assigned("roles", ok)
        /\ Goto(IF ok THEN next ELSE failed)
        /\ errors' = (errors \/ ~ok)
  BY DEF pocket_roles_init, usersVars
<1>3. StartedUpTo(pc) /\ DataTypeOK /\ Pointers
  BY <1>1, <1>2, StartKnows DEF StartPCs, KnownAt
<1>4. /\ ptr' = [ptr EXCEPT !["roles"] = IF ok THEN "live" ELSE "null"]
      /\ "roles" \in Parts /\ "redis" \in Parts
      /\ ptr \in [Parts -> {"null", "live", "freed"}] /\ errors \in BOOLEAN
  BY <1>2, <1>3 DEF Assigned, Parts, DataTypeOK
<1>5. lost' \subseteq {"models", "roles"}
  BY <1>2, <1>3 DEF Assigned, Pointers
<1>6. ptr' \in [Parts -> {"null", "live", "freed"}] /\ errors' \in BOOLEAN
  BY <1>2, <1>4
<1>7. DataTypeOK' /\ Pointers'
  BY <1>2, <1>3, <1>4, <1>5, <1>6 DEF DataTypeOK, Pointers, Parts
<1>8. CASE ok
  <2>1. StartedUpTo(next)'
    BY <1>1, <1>2, <1>3, <1>4, <1>8 DEF StartedUpTo, Done, There, Internal
  <2> QED BY <1>1, <1>2, <1>7, <1>8, <2>1, StartMoves
<1>9. CASE ~ok
  <2>1. IF failed = "returned" THEN EndedUpTo("mongo_end")' ELSE StartedUpTo(failed)'
    <3>1. CASE failed = "returned"
      BY <1>1, <1>2, <1>3, <1>4, <1>9, <3>1
         DEF EndedUpTo, Ended, Left, Parts, Pools, StartedUpTo, Done
    <3>2. CASE failed = "service_init"
      <4>1. pc = "roles_init_again"
        BY <3>2
      <4>2. Done(pc) = {"models", "roles", "redis"} /\ Done(failed) = Done(pc)
        BY <3>2, <4>1 DEF Done
      <4>3. errors'
        BY <1>2, <1>4, <1>9
      <4> QED BY <1>1, <1>2, <1>3, <1>4, <3>2, <4>2, <4>3 DEF StartedUpTo, Internal
    <3> QED BY <3>1, <3>2
  <2> QED BY <1>1, <1>2, <1>7, <1>9, <2>1, StartMoves
<1> QED BY <1>8, <1>9

LEMMA RedisConnects ==
    ASSUME OwnInv, pocket_redis_init
    PROVE  OwnInv'
<1>1. "redis_init" \in StartPCs /\ "returned" \in MainPCs /\ "mongo_connect_again" \in MainPCs
  BY DEF PCs, Ends, EndSteps, MainPCs, StartPCs
<1>2. /\ Running("redis_init")
      /\ UNCHANGED <<errors, mongo, trapped, misused, overlapped, usersServing>>
  BY DEF pocket_redis_init, usersVars
<1>3. StartedUpTo("redis_init") /\ DataTypeOK /\ Pointers
  BY <1>1, <1>2, StartKnows DEF StartPCs, KnownAt
<1>4. /\ \A p \in Parts \ {"models", "roles"} : ptr[p] = "null"
      /\ ptr["models"] = "live" /\ ptr["roles"] = "live" /\ mongo /\ ~errors
      /\ ptr \in [Parts -> {"null", "live", "freed"}]
      /\ "redis" \in Parts /\ "models" \in Parts /\ "roles" \in Parts
  BY <1>3 DEF StartedUpTo, Done, There, Internal, DataTypeOK, Parts
<1>5. CASE CONNECT_TO_REDIS
  <2>1. PICK live \in BOOLEAN, ok \in BOOLEAN :
          /\ ok => live
          /\ Assigned("redis", live)
          /\ Goto(IF ok THEN "mongo_connect_again" ELSE "returned")
    BY <1>5 DEF pocket_redis_init
  <2>2. /\ ptr' = [ptr EXCEPT !["redis"] = IF live THEN "live" ELSE "null"]
        /\ lost' = lost
    BY <1>4, <2>1 DEF Assigned
  <2>3. ptr' \in [Parts -> {"null", "live", "freed"}]
    BY <1>4, <2>2
  <2>4. DataTypeOK' /\ Pointers'
    BY <1>2, <1>3, <1>5, <2>2, <2>3 DEF DataTypeOK, Pointers
  <2>5. ok => StartedUpTo("mongo_connect_again")'
    BY <1>2, <1>4, <2>1, <2>2 DEF StartedUpTo, Done, There, Internal
  <2>6. EndedUpTo("mongo_end")'
    BY <1>2, <1>4, <2>2 DEF EndedUpTo, Ended, Left, Parts, Pools
  <2> QED BY <1>1, <1>2, <2>1, <2>4, <2>5, <2>6, StartMoves
<1>6. CASE ~CONNECT_TO_REDIS
  <2>1. Goto("mongo_connect_again") /\ UNCHANGED <<ptr, lost>>
    BY <1>6 DEF pocket_redis_init
  <2>2. DataTypeOK' /\ Pointers'
    BY <1>2, <1>3, <2>1 DEF DataTypeOK, Pointers
  <2>3. StartedUpTo("mongo_connect_again")'
    BY <1>2, <1>4, <1>6, <2>1 DEF StartedUpTo, Done, There, Internal
  <2> QED BY <1>1, <1>2, <2>1, <2>2, <2>3, StartMoves
<1> QED BY <1>5, <1>6

LEMMA PartsStart ==
    ASSUME OwnInv, NEW p, NEW pc, NEW next, InitPart(p, pc, next),
           usersServing' = usersServing,
           \/ p = "service" /\ pc = "service_init" /\ next = "users_init"
           \/ p = "users" /\ pc = "users_init" /\ next = "categories_init"
           \/ p = "categories" /\ pc = "categories_init" /\ next = "places_init"
           \/ p = "places" /\ pc = "places_init" /\ next = "trans_init"
           \/ p = "trans" /\ pc = "trans_init" /\ next = "start"
    PROVE  OwnInv'
<1>1. /\ pc \in StartPCs /\ next \in MainPCs
      /\ next # "returned" /\ "returned" \in MainPCs
      /\ p \in Parts /\ "models" \in Parts /\ "redis" \in Parts /\ "cerver" \in Parts
  BY DEF PCs, Ends, EndSteps, MainPCs, StartPCs, Parts, Pools
<1>2. PICK created \in BOOLEAN :
        /\ Running(pc)
        /\ UNCHANGED <<mongo, trapped, misused, overlapped, usersServing>>
        /\ Assigned(p, created)
        /\ (created /\ errors' = errors) \/ errors' = TRUE
        /\ Goto(IF next = "start" /\ errors' THEN "returned" ELSE next)
  BY DEF InitPart
<1>3. StartedUpTo(pc) /\ DataTypeOK /\ Pointers
  BY <1>1, <1>2, StartKnows DEF StartPCs, KnownAt
<1>4. ptr[p] = "null" /\ Done(next) = Done(pc) \cup {p} /\ p # "redis"
      /\ "models" \in Done(pc) /\ "cerver" \notin Done(next) /\ p \notin Done(pc)
  BY <1>1, <1>3 DEF StartedUpTo, Done, Parts, Pools
<1>5. /\ ptr' = [ptr EXCEPT ![p] = IF created THEN "live" ELSE "null"]
      /\ lost' = lost
      /\ ptr \in [Parts -> {"null", "live", "freed"}] /\ errors \in BOOLEAN
  BY <1>2, <1>3, <1>4 DEF Assigned, DataTypeOK
<1>6. ptr' \in [Parts -> {"null", "live", "freed"}] /\ errors' \in BOOLEAN
  BY <1>2, <1>5
<1>7. DataTypeOK' /\ Pointers'
  BY <1>1, <1>2, <1>3, <1>4, <1>5, <1>6 DEF DataTypeOK, Pointers
<1>8. /\ \A q \in Parts \ Done(next) : ptr'[q] = "null"
      /\ \A q \in Done(next) : ptr'[q] # "freed"
      /\ ~errors' => \A q \in Done(next) : There(q)'
      /\ ~errors' => mongo'
  <2>1. Done(next) \subseteq Parts
    BY <1>1 DEF Done, Parts, Pools
  <2> HIDE DEF Parts
  <2> QED BY <1>1, <1>2, <1>3, <1>4, <1>5, <2>1 DEF StartedUpTo, There
<1>9. CASE next = "start" /\ errors'
  <2>1. EndedUpTo("mongo_end")'
    <3>1. \A q \in Parts : ptr'[q] # "freed"
      BY <1>8
    <3>2. ptr'["cerver"] = "null"
      BY <1>1, <1>4, <1>8
    <3> QED BY <1>1, <1>9, <3>1, <3>2 DEF EndedUpTo, Ended, Left
  <2> QED BY <1>1, <1>2, <1>7, <1>9, <2>1, StartMoves
<1>10. CASE ~(next = "start" /\ errors')
  <2>1. next \notin Internal => ~errors'
    BY <1>1, <1>10 DEF Internal
  <2>2. StartedUpTo(next)'
    BY <1>8, <2>1 DEF StartedUpTo
  <2> QED BY <1>1, <1>2, <1>7, <1>10, <2>2, StartMoves
<1> QED BY <1>9, <1>10

LEMMA CerverCreated ==
    ASSUME OwnInv, cerver_create
    PROVE  OwnInv'
<1>1. "start" \in StartPCs /\ "returned" \in MainPCs
      /\ "cerver_start" \in MainPCs /\ "cerver" \in Parts
      /\ "models" \in Parts /\ "redis" \in Parts
  BY DEF PCs, Ends, EndSteps, MainPCs, StartPCs, Parts
<1>2. PICK ok \in BOOLEAN :
        /\ Running("start")
        /\ UNCHANGED <<errors, mongo, trapped, misused, overlapped, usersServing>>
        /\ Assigned("cerver", ok)
        /\ Goto(IF ok THEN "cerver_start" ELSE "returned")
  BY DEF cerver_create, usersVars
<1>3. StartedUpTo("start") /\ DataTypeOK /\ Pointers
  BY <1>1, <1>2, StartKnows DEF StartPCs, KnownAt
<1>4. /\ \A p \in Parts \ {"cerver"} : There(p) /\ ptr[p] # "freed"
      /\ ptr["cerver"] = "null" /\ mongo /\ ~errors
      /\ ptr \in [Parts -> {"null", "live", "freed"}]
  BY <1>1, <1>3 DEF StartedUpTo, Done, Internal, DataTypeOK, Parts
<1>5. /\ ptr' = [ptr EXCEPT !["cerver"] = IF ok THEN "live" ELSE "null"]
      /\ lost' = lost
  BY <1>2, <1>4 DEF Assigned
<1>6. ptr' \in [Parts -> {"null", "live", "freed"}]
  BY <1>4, <1>5
<1>7. DataTypeOK' /\ Pointers'
  BY <1>1, <1>2, <1>3, <1>4, <1>5, <1>6 DEF DataTypeOK, Pointers
<1>8. ok => StartedUpTo("cerver_start")'
  BY <1>1, <1>2, <1>4, <1>5 DEF StartedUpTo, Done, There, Internal
<1>9. ~ok => EndedUpTo("mongo_end")'
  BY <1>1, <1>2, <1>4, <1>5 DEF EndedUpTo, Ended, Left
<1> QED BY <1>1, <1>2, <1>7, <1>8, <1>9, StartMoves

LEMMA CerverStarted ==
    ASSUME OwnInv, cerver_start
    PROVE  OwnInv'
<1>1. "cerver_start" \in StartPCs /\ "returned" \in MainPCs
      /\ "serve" \in MainPCs /\ "cerver" \in Parts
      /\ "models" \in Parts /\ "redis" \in Parts
  BY DEF PCs, Ends, EndSteps, MainPCs, StartPCs, Parts
<1>2. /\ Running("cerver_start")
      /\ UNCHANGED <<errors, mongo, trapped, lost, misused, overlapped, usersServing>>
  BY DEF cerver_start, usersVars
<1>3. StartedUpTo("cerver_start") /\ DataTypeOK /\ Pointers
  BY <1>1, <1>2, StartKnows DEF StartPCs, KnownAt
<1>4. /\ \A p \in Parts : There(p) /\ ptr[p] # "freed"
      /\ mongo /\ ~errors
      /\ ptr \in [Parts -> {"null", "live", "freed"}]
  BY <1>1, <1>3 DEF StartedUpTo, Done, Internal, DataTypeOK
<1>5. CASE Goto("serve") /\ UNCHANGED ptr
  <2>1. DataTypeOK' /\ Pointers'
    BY <1>2, <1>3, <1>5 DEF DataTypeOK, Pointers
  <2>2. StartedUpTo("serve")'
    BY <1>2, <1>4, <1>5 DEF StartedUpTo, Done, There, Internal
  <2> QED BY <1>1, <1>2, <1>5, <2>1, <2>2, StartMoves
<1>6. CASE Goto("returned") /\ ptr' = [ptr EXCEPT !["cerver"] = "freed"]
  <2>1. ptr' \in [Parts -> {"null", "live", "freed"}]
    BY <1>4, <1>6
  <2>2. DataTypeOK' /\ Pointers'
    BY <1>1, <1>2, <1>3, <1>4, <1>6, <2>1 DEF DataTypeOK, Pointers
  <2>3. EndedUpTo("mongo_end")'
    BY <1>1, <1>2, <1>4, <1>6 DEF EndedUpTo, Ended, Left
  <2> QED BY <1>1, <1>2, <1>6, <2>2, <2>3, StartMoves
<1> QED BY <1>5, <1>6 DEF cerver_start

-----------------------------------------------------------------------------
(***************************************************************************)
(* Signals, and the steps of an end.                                       *)
(***************************************************************************)

LEMMA Signalled ==
    ASSUME OwnInv, NEW s \in Signals, Signal(s)
    PROVE  OwnInv'
<1> DEFINE n == Len(stack)
           f == [by |-> s, pc |-> "teardown"]
<1>1. /\ stack # << >> /\ stack \in Seq(Frames) /\ n \in Nat /\ n > 0 /\ DOMAIN stack = 1 .. n
      /\ f \in Frames /\ f.pc = "teardown" /\ "teardown" \in Ends
  BY DEF Signal, OwnInv, OwnTypeOK, Frames, PCs, Ends
<1>2. /\ stack' = Append(stack, f)
      /\ overlapped' = (overlapped \/ Ending)
      /\ UNCHANGED <<errors, mongo, ptr, trapped, lost, misused, usersServing>>
  BY DEF Signal, Entry, usersVars
<1>3. /\ stack' \in Seq(Frames) /\ stack' # << >> /\ Len(stack') = n + 1
      /\ stack'[n + 1].pc = "teardown"
      /\ \A k \in 1 .. n : stack'[k] = stack[k]
  BY <1>1, <1>2
<1>4. /\ Ending \in BOOLEAN
      /\ ~Ending => /\ trapped = {}
                    /\ \A k \in 1 .. n : stack[k].pc \notin Ends \cup {"blocked"}
  BY <1>1 DEF Ending, Stopping, Stuck, Ends
<1>5. DataTypeOK' /\ Pointers'
  BY <1>2, <1>4 DEF OwnInv, OwnTypeOK, DataTypeOK, Pointers
<1>6. Shape'
  <2>1. \A k \in 2 .. n + 1 : stack'[k].pc \in Ends \cup {"blocked"}
    BY <1>1, <1>3 DEF OwnInv, Shape
  <2>2. ~overlapped' => /\ \A k \in 1 .. n : stack'[k].pc \notin Ends \cup {"blocked"}
                        /\ trapped' = {}
    BY <1>2, <1>3, <1>4
  <2>3. stack'[1].pc # "blocked"
    BY <1>1, <1>3 DEF OwnInv, Shape
  <2> QED BY <1>1, <1>3, <2>1, <2>2, <2>3 DEF Shape
<1>7. Starting' /\ Threads'
  BY <1>1, <1>2, <1>3 DEF Starting, Threads, OwnInv
<1>8. OneEnd'
  <2>1. ASSUME ~overlapped'
        PROVE  /\ EndedUpTo("teardown")' /\ misused' = {}
               /\ ptr'["cerver"] = "freed" => stack[1].pc = "returned"
    <3>1. ~overlapped /\ trapped = {} /\ \A k \in 1 .. n : stack[k].pc \notin Ends \cup {"blocked"}
      BY <1>2, <1>4, <2>1
    <3>2. n = 1
      <4>1. ~(n >= 2)
        BY <1>1, <3>1 DEF OwnInv, Shape
      <4>2. \A m \in Nat : m > 0 /\ ~(m >= 2) => m = 1
        OBVIOUS
      <4> QED BY <1>1, <4>1, <4>2
    <3>3. KnownAt(stack[1].pc) /\ misused = {}
      BY <1>1, <3>1, <3>2 DEF OwnInv, Starting, OneEnd, OneMisuse
    <3>4. CASE stack[1].pc = "returned"
      <4>1. EndedUpTo("mongo_end")
        BY <3>1, <3>3, <3>4 DEF KnownAt
      <4>2. EndedUpTo("teardown")
        BY <4>1 DEF EndedUpTo, Ended
      <4> QED BY <1>2, <3>3, <3>4, <4>2 DEF EndedUpTo, Ended, Left
    <3>5. CASE stack[1].pc # "returned"
      <4>1. StartedUpTo(stack[1].pc) /\ "cerver" \in Parts /\ "models" \in Parts
        BY <3>3, <3>5 DEF KnownAt, Parts
      <4>2. \A p \in Parts : ptr[p] # "freed"
        BY <4>1 DEF StartedUpTo
      <4>3. ptr["models"] = "live" => mongo \/ errors
        BY <4>1 DEF StartedUpTo
      <4>4. EndedUpTo("teardown")
        BY <4>2, <4>3 DEF EndedUpTo, Ended
      <4> QED BY <1>2, <3>3, <4>1, <4>2, <4>4 DEF EndedUpTo, Ended, Left
    <3> QED BY <3>4, <3>5
  <2>2. Len(stack') > 1 /\ stack'[1] = stack[1]
    BY <1>1, <1>3
  <2> QED BY <1>3, <2>1, <2>2 DEF OneEnd, OneMisuse
<1>9. Served'
  <2> SUFFICES ASSUME trapped' = {}
               PROVE  /\ Busy' => InService'
                      /\ InService' => AllThere' /\ HandlersWait'
    BY DEF Served
  <2>1. stack'[1] = stack[1]
    BY <1>1, <1>3
  <2>2. (Busy' <=> Busy) /\ (InService' <=> InService) /\ (AllThere' <=> AllThere)
    BY <1>1, <1>2, <1>3, <2>1 DEF Busy, U!At, InService, AllThere, There
  <2>3. HandlersWait => HandlersWait'
    BY <1>1, <1>3 DEF HandlersWait
  <2> QED BY <1>2, <2>2, <2>3 DEF OwnInv, Served
<1> QED BY <1>3, <1>5, <1>6, <1>7, <1>8, <1>9 DEF OwnInv, OwnTypeOK

\* A thread of the pool takes a signal, while main () serves or after another
\* thread has taken one.
LEMMA Trapped ==
    ASSUME OwnInv, NEW w \in Workers, SignalToThread(w)
    PROVE  OwnInv'
<1>1. /\ Serving /\ trapped' = trapped \cup {w} /\ trapped' # {}
      /\ overlapped' = (overlapped \/ Ending)
      /\ UNCHANGED <<stack, errors, mongo, ptr, lost, misused>>
  BY DEF SignalToThread
<1>2. stack # << >> /\ stack \in Seq(Frames) /\ DOMAIN stack = 1 .. Len(stack)
  BY <1>1 DEF Serving, OwnInv, OwnTypeOK
<1>3. Ending \in BOOLEAN /\
      (~Ending => /\ trapped = {}
                  /\ \A k \in 1 .. Len(stack) : stack[k].pc \notin Ends \cup {"blocked"})
  BY <1>2 DEF Ending, Stopping, Stuck, Ends
<1>4. OwnTypeOK' /\ Pointers'
  BY <1>1, <1>3 DEF OwnInv, OwnTypeOK, DataTypeOK, Pointers
<1>5. Shape'
  BY <1>1, <1>3 DEF OwnInv, Shape
<1>6. Threads'
  BY <1>1 DEF OwnInv, Threads, Serving
<1>7. Starting'
  <2> SUFFICES ASSUME Len(stack) = 1, stack[1].pc \notin Ends PROVE KnownAt(stack[1].pc)'
    BY <1>1 DEF Starting
  <2>1. KnownAt(stack[1].pc)
    BY DEF OwnInv, Starting
  <2>2. CASE stack[1].pc = "returned"
    <3>1. trapped # {}
      BY <1>1, <1>2, <2>2 DEF OwnInv, Threads, Serving
    <3> QED BY <1>1, <2>1, <2>2, <3>1 DEF KnownAt
  <2>3. CASE stack[1].pc # "returned"
    BY <1>1, <2>1, <2>3 DEF KnownAt, StartedUpTo, There
  <2> QED BY <2>2, <2>3
<1>8. OneEnd'
  BY <1>1 DEF OwnInv, OneEnd, OneMisuse, EndedUpTo, Left
<1>9. Served'
  BY <1>1 DEF Served
<1> QED BY <1>4, <1>5, <1>6, <1>7, <1>8, <1>9 DEF OwnInv

\* A handler waits for good.
LEMMA Blocked ==
    ASSUME OwnInv, HandlerBlocks
    PROVE  OwnInv'
<1>1. PICK pc \in Ends : Running(pc)
  BY DEF HandlerBlocks, Ends
<1>2. /\ Len(stack) > 1 /\ Goto("blocked") /\ stack # << >> /\ stack \in Seq(Frames)
      /\ stack[Len(stack)].pc = pc
      /\ UNCHANGED <<errors, mongo, ptr, trapped, lost, misused, overlapped, usersServing>>
  BY <1>1 DEF HandlerBlocks, usersVars, OwnInv, OwnTypeOK, Running
<1>3. "blocked" \in PCs /\ "blocked" \notin Ends
  BY DEF PCs, Ends, EndSteps
<1>4. /\ stack' \in Seq(Frames) /\ stack' # << >>
      /\ Len(stack') = Len(stack) /\ Len(stack) \in Nat /\ Len(stack) > 0
      /\ \A k \in 1 .. Len(stack) - 1 : stack'[k] = stack[k]
      /\ stack'[Len(stack)].pc = "blocked"
  BY <1>2, <1>3, TopMoves
<1>5. stack'[1] = stack[1]
  BY <1>2, <1>4
<1>6. DataTypeOK' /\ Pointers'
  BY <1>2 DEF OwnInv, OwnTypeOK, DataTypeOK, Pointers
<1>7. Shape'
  <2>1. ~overlapped => trapped = {}
    BY <1>2, <1>4 DEF OwnInv, Shape
  <2> QED BY <1>2, <1>4, <1>5, <2>1 DEF OwnInv, Shape
<1>8. Starting'
  BY <1>2, <1>4 DEF Starting
<1>9. OneEnd'
  BY <1>2, <1>3, <1>4, <1>5 DEF OwnInv, OneEnd, OneMisuse, Ends
<1>10. Threads'
  BY <1>2, <1>4, <1>5 DEF OwnInv, Threads
<1>11. Served'
  <2>1. (Busy' <=> Busy) /\ (InService' <=> InService) /\ (AllThere' <=> AllThere)
    BY <1>2, <1>4, <1>5 DEF Busy, U!At, InService, AllThere, There
  <2>2. HandlersWait => HandlersWait'
    BY <1>2, <1>4 DEF HandlersWait
  <2> QED BY <1>2, <2>1, <2>2 DEF OwnInv, Served
<1> QED BY <1>4, <1>6, <1>7, <1>8, <1>9, <1>10, <1>11 DEF OwnInv, OwnTypeOK

\* cerver_start () returns to main () although nothing failed.
LEMMA CerverStops ==
    ASSUME OwnInv, cerver_start_stops
    PROVE  OwnInv'
<1>1. "serve" \in MainPCs /\ "returned" \in PCs /\ "returned" \notin Ends \cup {"blocked"}
  BY DEF MainPCs, PCs, Ends, EndSteps
<1>2. /\ Running("serve") /\ trapped # {} /\ Goto("returned")
      /\ UNCHANGED <<errors, mongo, ptr, trapped, lost, misused, overlapped, usersServing>>
  BY DEF cerver_start_stops, usersVars
<1>3. Len(stack) = 1 /\ stack # << >> /\ stack[1].pc = "serve" /\ stack \in Seq(Frames)
  BY <1>1, <1>2, StartsAlone DEF OwnInv
<1>4. /\ Len(stack') = 1 /\ stack' # << >> /\ stack'[1].pc = "returned"
      /\ stack' \in Seq(Frames)
  BY <1>1, <1>2, <1>3, TopMoves
<1>5. /\ \A p \in Parts : ptr[p] # "freed"
      /\ DataTypeOK /\ Pointers
      /\ ~overlapped => misused = {}
  <2>1. KnownAt("serve") /\ DataTypeOK /\ Pointers /\ (~overlapped => misused = {})
    BY <1>1, <1>2, StartKnows
  <2> QED BY <2>1 DEF KnownAt, StartedUpTo
<1>6. DataTypeOK' /\ Pointers'
  BY <1>2, <1>5 DEF DataTypeOK, Pointers
<1>7. Shape' /\ Threads' /\ Served'
  BY <1>1, <1>2, <1>4 DEF Shape, Threads, Served
<1>8. Starting'
  BY <1>2, <1>4, <1>5 DEF Starting, KnownAt
<1>9. OneEnd'
  BY <1>1, <1>2, <1>4, <1>5 DEF OneEnd, OneMisuse, Ends
<1> QED BY <1>4, <1>6, <1>7, <1>8, <1>9 DEF OwnInv, OwnTypeOK

\* main () begins its own end: the only one, unless a thread is in one.
LEMMA MainEnds ==
    ASSUME OwnInv, main_ends
    PROVE  OwnInv'
<1>1. /\ "returned" \in MainPCs /\ "mongo_end" \in PCs /\ "mongo_end" \in EndSteps
      /\ "mongo_end" \in Ends /\ "mongo_end" \notin {"teardown", "blocked", "returned"}
  BY DEF MainPCs, PCs, Ends, EndSteps
<1>2. /\ Running("returned") /\ Goto("mongo_end") /\ overlapped' = (overlapped \/ Ending)
      /\ UNCHANGED <<errors, mongo, ptr, trapped, lost, misused, usersServing>>
  BY DEF main_ends, usersVars
<1>3. Len(stack) = 1 /\ stack # << >> /\ stack[1].pc = "returned" /\ stack \in Seq(Frames)
  BY <1>1, <1>2, StartsAlone DEF OwnInv
<1>4. /\ Len(stack') = 1 /\ stack' # << >> /\ stack'[1].pc = "mongo_end"
      /\ stack' \in Seq(Frames)
  BY <1>1, <1>2, <1>3, TopMoves
<1>5. /\ KnownAt("returned") /\ DataTypeOK /\ Pointers
      /\ ~overlapped => misused = {}
  BY <1>1, <1>2, StartKnows
<1>6. Ending \in BOOLEAN /\ (~Ending => trapped = {})
  BY DEF Ending, Stopping
<1>7. DataTypeOK' /\ Pointers'
  BY <1>2, <1>5, <1>6 DEF DataTypeOK, Pointers
<1>8. Shape'
  BY <1>1, <1>2, <1>4, <1>6 DEF Shape
<1>9. Starting'
  BY <1>1, <1>4 DEF Starting
<1>10. OneEnd'
  <2>1. ~overlapped' => ~overlapped /\ trapped = {}
    BY <1>2, <1>6
  <2>2. ~overlapped' => EndedUpTo("mongo_end")'
    BY <1>2, <1>5, <2>1 DEF KnownAt, EndedUpTo, Left
  <2> QED BY <1>1, <1>2, <1>4, <1>5, <2>1, <2>2 DEF OneEnd, OneMisuse
<1>11. Threads'
  <2>1. ptr["cerver"] = "live" => trapped # {}
    BY <1>3 DEF OwnInv, Threads
  <2> QED BY <1>1, <1>2, <1>4, <2>1 DEF Threads
<1>12. Served'
  <2>1. trapped = {} => ~Busy
    BY <1>3 DEF OwnInv, Served, InService
  <2> QED BY <1>1, <1>2, <1>4, <2>1 DEF Served, InService, Busy, U!At
<1> QED BY <1>4, <1>7, <1>8, <1>9, <1>10, <1>11, <1>12 DEF OwnInv, OwnTypeOK

\* the process is over
LEMMA Stops ==
    ASSUME OwnInv, stack' = << >>, DataTypeOK', Pointers',
           trapped' = {} => AllIdle',
           ~overlapped' => \/ misused' = {} /\ \A p \in Parts : Left(p)'
                           \/ misused' = {"cerver"}
    PROVE  OwnInv'
<1>1. stack' \in Seq(Frames) /\ Len(stack') = 0
  OBVIOUS
<1>2. Shape' /\ Starting' /\ Threads'
  BY <1>1 DEF Shape, Starting, Threads
<1>3. OneEnd'
  BY DEF OneEnd, OneMisuse
<1>4. Served'
  BY DEF Served, InService, Busy, AllIdle
<1> QED BY <1>1, <1>2, <1>3, <1>4 DEF OwnInv, OwnTypeOK

LEMMA PartsEnd ==
    ASSUME OwnInv, NEW p, NEW pc, NEW next, NEW after \in {"null", "freed"},
           Running(pc), Deleted(p, after, next), usersServing' = usersServing,
           trapped = {} => AllIdle,
           \/ pc = "teardown" /\ p = "cerver" /\ next = "mongo_end"
           \/ pc = "mongo_end" /\ p = "models" /\ next = "mongo_disconnect"
           \/ CONNECT_TO_REDIS /\ pc = "credis_end" /\ p = "redis" /\ next = "roles_end"
           \/ pc = "roles_end" /\ p = "roles" /\ next = "users_end"
           \/ pc = "users_end" /\ p = "users" /\ next = "categories_end"
           \/ pc = "categories_end" /\ p = "categories" /\ next = "places_end"
           \/ pc = "places_end" /\ p = "places" /\ next = "trans_end"
           \/ pc = "trans_end" /\ p = "trans" /\ next = "service_end"
           \/ pc = "service_end" /\ p = "service" /\ next = "cerver_end"
    PROVE  OwnInv'
<1>1. /\ pc \in Ends /\ next \in EndSteps /\ p \in Parts
      /\ p \notin Ended(pc) /\ Ended(next) = Ended(pc) \cup {p}
      /\ Ended(next) \subseteq Parts /\ next # "teardown"
      /\ next = "mongo_end" => pc = "teardown" /\ p # "models"
  BY DEF Ends, EndSteps, Parts, Pools, Ended
<1>2. /\ ~overlapped =>
            /\ EndedUpTo(pc)
            /\ pc = "teardown" /\ ptr["cerver"] = "freed" =>
                  Len(stack) > 1 /\ stack[1].pc = "returned"
      /\ DataTypeOK /\ Pointers
  BY <1>1, EndKnows
<1>3. /\ ptr' = [ptr EXCEPT ![p] = IF @ = "live" THEN after ELSE @]
      /\ UNCHANGED <<errors, mongo, trapped, lost, overlapped, usersServing>>
      /\ misused' \in {misused, misused \cup {p}}
      /\ ptr \in [Parts -> {"null", "live", "freed"}] /\ "cerver" \in Parts
  BY <1>2 DEF Deleted, DataTypeOK, Parts
<1>4. DataTypeOK' /\ Pointers'
  <2>1. ptr' \in [Parts -> {"null", "live", "freed"}]
    BY <1>1, <1>3
  <2>2. ~CONNECT_TO_REDIS => ptr'["redis"] = "null"
    BY <1>1, <1>2, <1>3 DEF Pointers, Parts
  <2>3. misused' \subseteq Parts
    BY <1>1, <1>2, <1>3 DEF DataTypeOK
  <2> QED BY <1>2, <1>3, <2>1, <2>2, <2>3 DEF DataTypeOK, Pointers
<1>5. /\ trapped = {} => AllIdle /\ AllIdle'
      /\ ptr'["cerver"] = "live" => ptr["cerver"] = "live" /\ pc # "teardown"
  BY <1>1, <1>3 DEF AllIdle, U!At
<1>6. ASSUME ~overlapped
      PROVE  /\ EndedUpTo(next)'
             /\ ptr[p] = "freed" => /\ p = "cerver"
                                    /\ Len(stack) > 1 /\ stack[1].pc = "returned"
  <2>1. EndedUpTo(pc)
    BY <1>2, <1>6
  <2>2. ptr[p] = "freed" => p = "cerver"
    BY <1>1, <2>1 DEF EndedUpTo
  <2>3. ptr'[p] # "live" /\ \A q \in Parts \ {p} : ptr'[q] = ptr[q]
    BY <1>1, <1>3
  <2>4. \A q \in Parts \ (Ended(next) \cup {"cerver"}) : ptr'[q] # "freed"
    BY <1>1, <2>1, <2>3 DEF EndedUpTo
  <2>5. \A q \in Ended(next) : Left(q)'
    BY <1>1, <1>3, <2>1, <2>3 DEF EndedUpTo, Left
  <2>6. next = "mongo_end" => (ptr'["models"] = "live" => mongo' \/ errors')
    BY <1>1, <1>3, <2>1, <2>3 DEF EndedUpTo, Parts
  <2>7. p = "cerver" => pc = "teardown"
    OBVIOUS
  <2> QED BY <1>1, <1>2, <1>6, <2>2, <2>4, <2>5, <2>6, <2>7 DEF EndedUpTo
<1>7. CASE ptr[p] # "freed"
  <2>1. Goto(next) /\ misused' = misused
    BY <1>7 DEF Deleted
  <2> QED BY <1>1, <1>3, <1>4, <1>5, <1>6, <2>1, EndMoves
<1>8. CASE ptr[p] = "freed"
  <2>1. misused' = misused \cup {p}
    BY <1>8 DEF Deleted
  <2>2. ~overlapped => misused' = {"cerver"}
    <3> SUFFICES ASSUME ~overlapped PROVE misused' = {"cerver"}
      OBVIOUS
    <3>1. p = "cerver" /\ OneMisuse
      BY <1>6, <1>8 DEF OwnInv, OneEnd
    <3> QED BY <2>1, <3>1 DEF OneMisuse
  <2>3. Goto(next) \/ stack' = << >>
    BY <1>8 DEF Deleted
  <2>4. CASE Goto(next)
    BY <1>1, <1>3, <1>4, <1>5, <1>6, <1>8, <2>2, <2>4, EndMoves
  <2>5. CASE stack' = << >>
    BY <1>3, <1>4, <1>5, <2>2, <2>5, Stops
  <2> QED BY <2>3, <2>4, <2>5
<1> QED BY <1>7, <1>8

\* the steps of pocket_end () that delete nothing
LEMMA NothingEnds ==
    ASSUME OwnInv, NEW pc, NEW next, Running(pc), Goto(next),
           UNCHANGED <<errors, ptr, trapped, lost, misused, overlapped, usersServing>>,
           mongo' \in BOOLEAN,
           \/ pc = "mongo_end" /\ next = "credis_end" /\ ~mongo
           \/ pc = "mongo_disconnect" /\ next = "credis_end"
           \/ pc = "credis_end" /\ next = "roles_end" /\ ~CONNECT_TO_REDIS
    PROVE  OwnInv'
<1>1. pc \in Ends /\ pc \in EndSteps /\ next \in EndSteps /\ "models" \in Parts
      /\ "redis" \in Parts /\ next # "mongo_end" /\ next # "teardown"
  BY DEF Ends, EndSteps, Parts
<1>2. (~overlapped => EndedUpTo(pc)) /\ DataTypeOK /\ Pointers
  BY <1>1, EndKnows
<1>3. DataTypeOK' /\ Pointers'
  BY <1>2 DEF DataTypeOK, Pointers
<1>4. trapped = {} => AllIdle /\ AllIdle'
  BY <1>1, EndsIdle DEF AllIdle, U!At
<1>5. ASSUME ~overlapped PROVE EndedUpTo(next)'
  <2>1. EndedUpTo(pc)
    BY <1>2, <1>5
  <2>2. \A q \in Ended(next) : q \in Ended(pc) \/ (q = "models" /\ Left(q)) \/ ptr[q] = "null"
    BY <1>2, <2>1 DEF EndedUpTo, Ended, Left, Pointers
  <2>3. Ended(pc) \subseteq Ended(next)
    BY DEF Ended
  <2> QED BY <1>1, <2>1, <2>2, <2>3 DEF EndedUpTo, Left
<1> QED BY <1>1, <1>2, <1>3, <1>4, <1>5, EndMoves

LEMMA EndKeeps ==
    ASSUME OwnInv, End
    PROVE  OwnInv'
<1>1. CASE cerver_teardown
  BY <1>1, PartsEnd DEF cerver_teardown, usersVars, AllIdle
<1>2. CASE pocket_mongo_end
  <2>1. trapped = {} => AllIdle
    BY <1>2, EndsIdle DEF pocket_mongo_end, EndSteps
  <2>2. mongo \in BOOLEAN
    BY DEF OwnInv, OwnTypeOK, DataTypeOK
  <2>3. CASE mongo
    BY <1>2, <2>1, <2>3, PartsEnd DEF pocket_mongo_end, usersVars
  <2>4. CASE ~mongo
    BY <1>2, <2>2, <2>4, NothingEnds DEF pocket_mongo_end, usersVars
  <2> QED BY <2>3, <2>4
<1>3. CASE mongo_disconnect
  BY <1>3, NothingEnds DEF mongo_disconnect, usersVars
<1>4. CASE credis_end
  <2>1. trapped = {} => AllIdle
    BY <1>4, EndsIdle DEF credis_end, EndSteps
  <2>2. mongo \in BOOLEAN
    BY DEF OwnInv, OwnTypeOK, DataTypeOK
  <2>3. CASE CONNECT_TO_REDIS
    BY <1>4, <2>1, <2>3, PartsEnd DEF credis_end, usersVars
  <2>4. CASE ~CONNECT_TO_REDIS
    BY <1>4, <2>2, <2>4, NothingEnds DEF credis_end, usersVars
  <2> QED BY <2>3, <2>4
<1>5. CASE pocket_roles_end
  <2>1. Running("roles_end") /\ Deleted("roles", "freed", "users_end") /\ UNCHANGED usersVars
    BY <1>5 DEF pocket_roles_end
  <2>2. trapped = {} => AllIdle
    BY <2>1, EndsIdle DEF EndSteps
  <2> QED BY <2>1, <2>2, PartsEnd DEF usersVars
<1>6. CASE pocket_users_end
  <2>1. Running("users_end") /\ Deleted("users", "null", "categories_end")
        /\ usersServing' = usersServing
    BY <1>6 DEF pocket_users_end, U!pocket_users_end
  <2>2. trapped = {} => AllIdle
    BY <2>1, EndsIdle DEF EndSteps
  <2> QED BY <2>1, <2>2, PartsEnd
<1>7. CASE pocket_categories_end
  <2>1. /\ Running("categories_end") /\ Deleted("categories", "freed", "places_end")
        /\ UNCHANGED usersVars
    BY <1>7 DEF pocket_categories_end, AfterCategories
  <2>2. trapped = {} => AllIdle
    BY <2>1, EndsIdle DEF EndSteps
  <2> QED BY <2>1, <2>2, PartsEnd DEF usersVars
<1>8. CASE pocket_places_end
  <2>1. /\ Running("places_end") /\ Deleted("places", "freed", "trans_end")
        /\ UNCHANGED usersVars
    BY <1>8 DEF pocket_places_end
  <2>2. trapped = {} => AllIdle
    BY <2>1, EndsIdle DEF EndSteps
  <2> QED BY <2>1, <2>2, PartsEnd DEF usersVars
<1>9. CASE pocket_trans_end
  <2>1. /\ Running("trans_end") /\ Deleted("trans", "freed", "service_end")
        /\ UNCHANGED usersVars
    BY <1>9 DEF pocket_trans_end
  <2>2. trapped = {} => AllIdle
    BY <2>1, EndsIdle DEF EndSteps
  <2> QED BY <2>1, <2>2, PartsEnd DEF usersVars
<1>10. CASE pocket_service_end
  <2>1. /\ Running("service_end") /\ Deleted("service", "freed", "cerver_end")
        /\ UNCHANGED usersVars
    BY <1>10 DEF pocket_service_end
  <2>2. trapped = {} => AllIdle
    BY <2>1, EndsIdle DEF EndSteps
  <2> QED BY <2>1, <2>2, PartsEnd DEF usersVars
<1>11. CASE cerver_end
  <2>1. /\ Running("cerver_end") /\ stack' = << >>
        /\ UNCHANGED <<errors, mongo, ptr, trapped, lost, misused, overlapped, usersServing>>
    BY <1>11 DEF cerver_end, Gone, usersVars
  <2>2. "cerver_end" \in EndSteps /\ "cerver_end" \in Ends
    BY DEF EndSteps, Ends
  <2>3. trapped = {} => AllIdle
    BY <2>1, <2>2, EndsIdle
  <2>4. (~overlapped => EndedUpTo("cerver_end")) /\ DataTypeOK /\ Pointers
    BY <2>1, <2>2, EndKnows
  <2>5. DataTypeOK' /\ Pointers' /\ (trapped' = {} => AllIdle')
    BY <2>1, <2>3, <2>4 DEF DataTypeOK, Pointers, U!At, AllIdle
  <2>6. ~overlapped' => \/ misused' = {} /\ \A p \in Parts : Left(p)'
                        \/ misused' = {"cerver"}
    BY <2>1, <2>4 DEF OwnInv, OneEnd, OneMisuse, EndedUpTo, Ended, Left
  <2> QED BY <2>1, <2>5, <2>6, Stops
<1> QED BY <1>1, <1>2, <1>3, <1>4, <1>5, <1>6, <1>7, <1>8, <1>9, <1>10, <1>11, MainEnds
        DEF End, pocket_end

LEMMA StartKeeps ==
    ASSUME OwnInv, Start
    PROVE  OwnInv'
<1>1. CASE pocket_mongo_init
  BY <1>1, MongoConnects, RolesRead DEF pocket_mongo_init
<1>2. CASE pocket_mongo_init_again
  BY <1>2, MongoConnects, RolesRead DEF pocket_mongo_init_again
<1>3. CASE pocket_service_init
  <2>1. InitPart("service", "service_init", "users_init")
    BY <1>3 DEF pocket_service_init
  <2>2. usersServing' = usersServing
    BY <2>1 DEF InitPart, usersVars, U!pocket_users_init
  <2> QED BY <2>1, <2>2, PartsStart
<1>4. CASE pocket_users_init
  <2>1. InitPart("users", "users_init", "categories_init")
    BY <1>4 DEF pocket_users_init
  <2>2. usersServing' = usersServing
    BY <2>1 DEF InitPart, usersVars, U!pocket_users_init
  <2> QED BY <2>1, <2>2, PartsStart
<1>5. CASE pocket_categories_init
  <2>1. InitPart("categories", "categories_init", "places_init")
    BY <1>5 DEF pocket_categories_init
  <2>2. usersServing' = usersServing
    BY <2>1 DEF InitPart, usersVars, U!pocket_users_init
  <2> QED BY <2>1, <2>2, PartsStart
<1>6. CASE pocket_places_init
  <2>1. InitPart("places", "places_init", "trans_init")
    BY <1>6 DEF pocket_places_init
  <2>2. usersServing' = usersServing
    BY <2>1 DEF InitPart, usersVars, U!pocket_users_init
  <2> QED BY <2>1, <2>2, PartsStart
<1>7. CASE pocket_trans_init
  <2>1. InitPart("trans", "trans_init", "start")
    BY <1>7 DEF pocket_trans_init
  <2>2. usersServing' = usersServing
    BY <2>1 DEF InitPart, usersVars, U!pocket_users_init
  <2> QED BY <2>1, <2>2, PartsStart
<1> QED BY <1>1, <1>2, <1>3, <1>4, <1>5, <1>6, <1>7, EnvRead, RedisConnects, CerverCreated,
           CerverStarted DEF Start

\* A thread begins a request only when all is there, and while it has one
\* nothing is taken away, as long as no thread of the pool takes a signal.
LEMMA RequestsServed ==
    ASSUME OwnInv, NEW w \in Workers, TakeRequest(w) \/ FinishRequest(w)
    PROVE  OwnInv'
<1>1. /\ Serving
      /\ UNCHANGED <<stack, errors, mongo, ptr, trapped, lost, misused, overlapped>>
  BY DEF TakeRequest, FinishRequest, ownVars
<1>2. OwnTypeOK' /\ Shape' /\ Pointers' /\ Threads'
  BY <1>1 DEF OwnInv, OwnTypeOK, DataTypeOK, Shape, Pointers, Threads
<1>3. Starting' /\ OneEnd'
  BY <1>1 DEF OwnInv, Starting, KnownAt, StartedUpTo, There, OneEnd, OneMisuse, EndedUpTo, Left
<1>4. trapped = {} => InService
  <2>1. CASE Busy
    BY <2>1 DEF OwnInv, Served
  <2>2. CASE ~Busy
    <3>1. TakeRequest(w)
      BY <2>2 DEF FinishRequest, Busy, U!user_get_by_email, U!pocket_user_delete, U!At
    <3> QED BY <1>1, <3>1 DEF TakeRequest, Serving, InService, OwnInv, Threads
  <2> QED BY <2>1, <2>2
<1>5. Served'
  BY <1>1, <1>4 DEF OwnInv, Served, InService, AllThere, HandlersWait, There
<1> QED BY <1>2, <1>3, <1>5 DEF OwnInv

\* A request that is served when a part is gone: another end has begun then.
LEMMA RequestLate ==
    ASSUME OwnInv, NEW w \in Workers, RequestMeetsEnd(w)
    PROVE  OwnInv'
<1>1. /\ Serving /\ (\E p \in Parts : ptr[p] = "freed")
      /\ misused' = misused \cup {p \in Parts : ptr[p] = "freed"}
      /\ stack' \in {stack, << >>} /\ ~U!At(w, "idle")
      /\ UNCHANGED <<errors, mongo, ptr, trapped, lost, overlapped, usersServing>>
  BY DEF RequestMeetsEnd, usersVars
<1>2. /\ stack # << >> /\ stack \in Seq(Frames) /\ stack[1].pc # "cerver_start"
      /\ Len(stack) \in Nat /\ Len(stack) > 0
  BY <1>1 DEF Serving, OwnInv, OwnTypeOK
<1>3. trapped # {}
  <2> SUFFICES ASSUME trapped = {} PROVE FALSE
    OBVIOUS
  <2>1. \A p \in Parts : There(p)
    BY <1>1 DEF OwnInv, Served, Busy, AllThere
  <2> QED BY <1>1, <2>1 DEF There, OwnInv, Pointers
<1>4. overlapped
  <2> SUFFICES ASSUME ~overlapped PROVE FALSE
    OBVIOUS
  <2>1. \A k \in 1 .. Len(stack) : stack[k].pc \notin Ends \cup {"blocked"}
    BY <1>3 DEF OwnInv, Shape
  <2>2. Len(stack) = 1
    <3>1. ~(Len(stack) >= 2)
      BY <1>2, <2>1 DEF OwnInv, Shape
    <3>2. \A m \in Nat : m > 0 /\ ~(m >= 2) => m = 1
      OBVIOUS
    <3> QED BY <1>2, <3>1, <3>2
  <2>3. KnownAt(stack[1].pc)
    BY <2>1, <2>2 DEF OwnInv, Starting
  <2> QED BY <1>1, <1>3, <2>3 DEF KnownAt, StartedUpTo
<1>5. DataTypeOK' /\ Pointers' /\ overlapped'
  BY <1>1, <1>4 DEF OwnInv, OwnTypeOK, DataTypeOK, Pointers
<1>6. CASE stack' = << >>
  BY <1>1, <1>3, <1>5, <1>6, Stops
<1>7. CASE stack' = stack
  <2>1. stack' \in Seq(Frames) /\ Shape' /\ Threads'
    BY <1>1, <1>2, <1>7 DEF OwnInv, Shape, Threads
  <2>2. Starting'
    BY <1>1, <1>7 DEF OwnInv, Starting, KnownAt, StartedUpTo, There, EndedUpTo, Left
  <2>3. OneEnd' /\ Served'
    BY <1>1, <1>3, <1>5, <1>7 DEF OneEnd, Served
  <2> QED BY <1>5, <2>1, <2>2, <2>3 DEF OwnInv, OwnTypeOK
<1> QED BY <1>1, <1>6, <1>7

\* At the start nothing was created and main () is about to begin.
THEOREM InitOwnInv == Init => OwnInv
<1> SUFFICES ASSUME Init PROVE OwnInv
  OBVIOUS
<1> DEFINE f == [by |-> "main", pc |-> "init_env"]
<1>1. stack = <<f>> /\ f \in Frames /\ f.pc = "init_env" /\ "init_env" \notin Ends
  BY DEF Init, Frames, PCs, Ends, EndSteps
<1>2. /\ stack \in Seq(Frames) /\ Len(stack) = 1 /\ stack # << >>
      /\ stack[1].pc = "init_env" /\ stack[Len(stack)].pc = "init_env"
  BY <1>1
<1>3. OwnTypeOK /\ Pointers
  BY <1>2 DEF Init, OwnTypeOK, DataTypeOK, Pointers, Parts
<1>4. StartedUpTo("init_env")
  BY DEF Init, StartedUpTo, Done, Internal
<1>5. Shape /\ Starting /\ Threads
  BY <1>1, <1>2, <1>4 DEF Shape, Starting, KnownAt, Threads, Init, Parts
<1>6. OneEnd
  BY <1>1, <1>2 DEF OneEnd, OneMisuse, Init, Ends
<1>7. Served
  <2>1. ~Busy /\ ~InService
    BY <1>2 DEF Busy, InService, Init, U!UsersInit, U!At, U!Idle
  <2> QED BY <2>1 DEF Served
<1> QED BY <1>3, <1>5, <1>6, <1>7 DEF OwnInv

-----------------------------------------------------------------------------
(***************************************************************************)
(* The users of the requests.                                              *)
(***************************************************************************)

UserJobs == [pc : {"idle", "lookup", "handle"}, token : People \cup {NoUser},
             whole : BOOLEAN, object : UserObjects \cup {NoObject}]

Claims == [id : People \cup {NoUser}, iat : People \cup {NoUser}]

\* what the whole invariant says of one thread
ActsForItself(w) ==
    U!At(w, "handle") /\ usersServing[w].object # NoObject =>
        /\ usersServing[w].whole
        /\ usersMem[usersServing[w].object].id = usersServing[w].token

\* One thread at a time takes, fills or gives back a user, perhaps a new one
\* (in made), and the others see nothing of it.
LEMMA OneThreadMoves ==
    ASSUME UsersInv, NEW w \in Workers, NEW j \in UserJobs,
           NEW made \in SUBSET (UserObjects \ usersAllocated),
           usersServing' = [usersServing EXCEPT ![w] = j],
           usersMem' \in [UserObjects -> Claims],
           U!UserHeld(w)' \subseteq U!UserHeld(w) \cup usersPool \cup made,
           usersPool' = (usersPool \cup U!UserHeld(w) \cup made) \ U!UserHeld(w)',
           usersAllocated' = usersAllocated \cup made,
           \A o \in UserObjects \ (U!UserHeld(w) \cup U!UserHeld(w)' \cup made) :
              usersMem'[o] = usersMem[o],
           \A o \in (U!UserHeld(w) \cup made) \ U!UserHeld(w)' : usersMem'[o].id = NoUser,
           KnowsItsUser(w)', ActsForItself(w)'
    PROVE  UsersInv'
<1>1. /\ usersPool \subseteq UserObjects /\ usersAllocated \subseteq UserObjects
      /\ usersMem \in [UserObjects -> Claims]
      /\ usersServing \in [Workers -> UserJobs]
  BY DEF UsersInv, U!UsersTypeOK, UserJobs, Claims
<1>2. /\ usersServing' \in [Workers -> UserJobs]
      /\ \A x \in Workers \ {w} : usersServing'[x] = usersServing[x]
  BY <1>1
<1>3. \A x \in Workers \ {w} : U!UserHeld(x)' = U!UserHeld(x)
  BY <1>2 DEF U!UserHeld
<1>4. \A x \in Workers : U!UserHeld(x) \subseteq UserObjects /\ U!UserHeld(x)' \subseteq UserObjects
  BY DEF U!UserHeld
<1>5. /\ usersAllocated = usersPool \cup UNION {U!UserHeld(x) : x \in Workers}
      /\ \A x \in Workers : U!UserHeld(x) \cap usersPool = {}
      /\ \A x \in Workers, y \in Workers : x # y => U!UserHeld(x) \cap U!UserHeld(y) = {}
      /\ \A o \in usersPool : usersMem[o].id = NoUser
  BY DEF UsersInv, U!FreeUsersAreNobody
<1>6. \A x \in Workers \ {w} : /\ U!UserHeld(x) \cap U!UserHeld(w)' = {}
                               /\ U!UserHeld(x) \cap U!UserHeld(w) = {}
                               /\ U!UserHeld(x) \cap made = {}
  BY <1>5
<1>7. U!UsersTypeOK'
  BY <1>1, <1>2, <1>4 DEF U!UsersTypeOK, UserJobs, Claims
<1>8. U!FreeUsersAreNobody'
  <2>1. usersAllocated' = usersPool' \cup UNION {U!UserHeld(x)' : x \in Workers}
    <3>1. usersAllocated' \subseteq usersPool' \cup UNION {U!UserHeld(x)' : x \in Workers}
      BY <1>3, <1>5
    <3>2. usersPool' \subseteq usersAllocated'
      BY <1>5
    <3>3. \A x \in Workers : U!UserHeld(x)' \subseteq usersAllocated'
      BY <1>3, <1>5
    <3> QED BY <3>1, <3>2, <3>3
  <2>2. ASSUME NEW x \in Workers
        PROVE  /\ U!UserHeld(x)' \cap usersPool' = {}
               /\ \A y \in Workers \ {x} : U!UserHeld(x)' \cap U!UserHeld(y)' = {}
    BY <1>3, <1>5, <1>6
  <2>3. \A o \in usersPool' : usersMem'[o].id = NoUser
    BY <1>1, <1>4, <1>5
  <2> QED BY <2>1, <2>2, <2>3 DEF U!FreeUsersAreNobody
<1>9. ASSUME NEW x \in Workers PROVE KnowsItsUser(x)' /\ ActsForItself(x)'
  <2>1. CASE x = w
    BY <2>1
  <2>2. CASE x # w
    <3>1. KnowsItsUser(x) /\ ActsForItself(x)
      BY DEF UsersInv, U!ActsForItsToken, ActsForItself
    <3>2. usersServing'[x] = usersServing[x]
      BY <1>2, <2>2
    <3>3. \A o \in U!UserHeld(x) : usersMem'[o] = usersMem[o]
      BY <1>4, <1>6, <2>2
    <3>4. usersServing[x].object \in UserObjects => usersServing[x].object \in U!UserHeld(x)
      BY DEF U!UserHeld
    <3>5. usersServing[x].object \in UserObjects \cup {NoObject}
      BY <1>1 DEF UserJobs
    <3> QED BY <3>1, <3>2, <3>3, <3>4, <3>5 DEF KnowsItsUser, ActsForItself, U!At
  <2> QED BY <2>1, <2>2
<1>10. \A o \in UserObjects \ usersAllocated' : usersMem'[o].id = NoUser
  BY <1>5 DEF UsersInv
<1> QED BY <1>7, <1>8, <1>9, <1>10 DEF UsersInv, U!ActsForItsToken, ActsForItself

LEMMA UsersTypes ==
    ASSUME UsersInv
    PROVE  /\ usersPool \subseteq usersAllocated /\ usersAllocated \subseteq UserObjects
           /\ usersMem \in [UserObjects -> Claims]
           /\ usersServing \in [Workers -> UserJobs]
           /\ U!Idle \in UserJobs /\ U!Idle.object = NoObject /\ U!Idle.pc = "idle"
           /\ NoObject \notin UserObjects
BY LifecycleAssumption DEF UsersInv, U!UsersTypeOK, U!FreeUsersAreNobody, UserJobs, Claims, U!Idle

LEMMA TokenDecoded ==
    ASSUME UsersInv, NEW w \in Workers, U!pocket_user_parse_from_json(w)
    PROVE  UsersInv'
<1>1. /\ U!At(w, "idle") /\ usersServing[w].object = NoObject /\ U!UserHeld(w) = {}
      /\ usersMem \in [UserObjects -> Claims] /\ usersServing \in [Workers -> UserJobs]
      /\ NoObject \notin UserObjects /\ usersPool \subseteq usersAllocated
  BY UsersTypes DEF U!pocket_user_parse_from_json, UsersInv, KnowsItsUser, U!UserHeld
<1>2. PICK p \in People :
        \/ \E o \in U!Fresh :
            /\ usersAllocated' = usersAllocated \cup {o}
            /\ \/ /\ usersMem' = [usersMem EXCEPT ![o] = [id |-> p, iat |-> p]]
                  /\ usersServing' = [usersServing EXCEPT ![w] =
                        [pc |-> "handle", token |-> p, whole |-> TRUE, object |-> o]]
                  /\ UNCHANGED usersPool
               \/ U!Unpacked(w, p, o)
        \/ /\ usersServing' = [usersServing EXCEPT ![w] =
                 [pc |-> "handle", token |-> p, whole |-> TRUE, object |-> NoObject]]
           /\ UNCHANGED <<usersPool, usersAllocated, usersMem>>
  BY DEF U!pocket_user_parse_from_json
<1>3. ASSUME NEW o \in U!Fresh, usersAllocated' = usersAllocated \cup {o}
      PROVE  /\ {o} \in SUBSET (UserObjects \ usersAllocated) /\ o # NoObject
             /\ o \in UserObjects
  BY <1>1 DEF U!Fresh
<1>4. ASSUME NEW o \in U!Fresh, usersAllocated' = usersAllocated \cup {o},
             usersMem' = [usersMem EXCEPT ![o] = [id |-> p, iat |-> p]],
             usersServing' = [usersServing EXCEPT ![w] =
                        [pc |-> "handle", token |-> p, whole |-> TRUE, object |-> o]],
             usersPool' = usersPool
      PROVE  UsersInv'
  <2> DEFINE j == [pc |-> "handle", token |-> p, whole |-> TRUE, object |-> o]
  <2>1. j \in UserJobs /\ o \in UserObjects /\ o # NoObject /\ o \notin usersAllocated
    BY <1>3, <1>4 DEF UserJobs
  <2>0. usersServing' = [usersServing EXCEPT ![w] = j] /\ j.object = o
    BY <1>4
  <2>2. usersServing'[w] = j /\ U!UserHeld(w)' = {o}
    <3> HIDE DEF j
    <3> QED BY <1>1, <2>0, <2>1 DEF U!UserHeld
  <2>3. /\ usersMem' \in [UserObjects -> Claims] /\ usersMem'[o].id = p
        /\ \A q \in UserObjects \ {o} : usersMem'[q] = usersMem[q]
    BY <1>1, <1>4, <2>1 DEF Claims
  <2>4. KnowsItsUser(w)' /\ ActsForItself(w)'
    BY <2>2, <2>3 DEF KnowsItsUser, ActsForItself, U!At
  <2>5. usersPool' = (usersPool \cup U!UserHeld(w) \cup {o}) \ U!UserHeld(w)'
    BY <1>1, <1>4, <2>1, <2>2
  <2> HIDE DEF j
  <2> QED BY <1>1, <1>3, <1>4, <2>0, <2>1, <2>2, <2>3, <2>4, <2>5, OneThreadMoves
<1>5. ASSUME NEW o \in U!Fresh, usersAllocated' = usersAllocated \cup {o}, U!Unpacked(w, p, o)
      PROVE  UsersInv'
  <2> DEFINE j == [pc |-> "handle", token |-> p, whole |-> FALSE, object |-> NoObject]
  <2>1. j \in UserJobs /\ o \in UserObjects /\ o \notin usersAllocated
    BY <1>3, <1>5 DEF UserJobs
  <2>2. PICK iat \in {p, NoUser} : usersMem' = [usersMem EXCEPT ![o] = [id |-> NoUser, iat |-> iat]]
    BY <1>5 DEF U!Unpacked
  <2>3. /\ usersServing' = [usersServing EXCEPT ![w] = j] /\ usersPool' = usersPool \cup {o}
        /\ j.object = NoObject
    BY <1>5 DEF U!Unpacked
  <2>4. usersServing'[w] = j /\ U!UserHeld(w)' = {}
    <3> HIDE DEF j
    <3> QED BY <1>1, <2>1, <2>3 DEF U!UserHeld
  <2>5. /\ usersMem' \in [UserObjects -> Claims] /\ usersMem'[o].id = NoUser
        /\ \A q \in UserObjects \ {o} : usersMem'[q] = usersMem[q]
    BY <1>1, <2>1, <2>2 DEF Claims
  <2>6. KnowsItsUser(w)' /\ ActsForItself(w)'
    BY <2>4 DEF KnowsItsUser, ActsForItself, U!At
  <2> HIDE DEF j
  <2> QED BY <1>1, <1>3, <1>5, <2>1, <2>3, <2>4, <2>5, <2>6, OneThreadMoves
<1>6. ASSUME usersServing' = [usersServing EXCEPT ![w] =
                 [pc |-> "handle", token |-> p, whole |-> TRUE, object |-> NoObject]],
             UNCHANGED <<usersPool, usersAllocated, usersMem>>
      PROVE  UsersInv'
  <2> DEFINE j == [pc |-> "handle", token |-> p, whole |-> TRUE, object |-> NoObject]
  <2>1. j \in UserJobs
    BY DEF UserJobs
  <2>0. usersServing' = [usersServing EXCEPT ![w] = j] /\ j.object = NoObject
    BY <1>6
  <2>2. usersServing'[w] = j /\ U!UserHeld(w)' = {}
    <3> HIDE DEF j
    <3> QED BY <1>1, <2>0, <2>1 DEF U!UserHeld
  <2>3. KnowsItsUser(w)' /\ ActsForItself(w)'
    BY <2>2 DEF KnowsItsUser, ActsForItself, U!At
  <2>4. {} \in SUBSET (UserObjects \ usersAllocated)
    OBVIOUS
  <2> HIDE DEF j
  <2>5. /\ usersPool' = (usersPool \cup U!UserHeld(w) \cup {}) \ U!UserHeld(w)'
        /\ usersAllocated' = usersAllocated \cup {}
        /\ usersMem' \in [UserObjects -> Claims]
        /\ U!UserHeld(w)' \subseteq U!UserHeld(w) \cup usersPool \cup {}
        /\ \A o \in UserObjects : usersMem'[o] = usersMem[o]
    BY <1>1, <1>6, <2>2
  <2> QED BY <1>1, <2>0, <2>1, <2>2, <2>3, <2>4, <2>5, OneThreadMoves
<1> QED BY <1>2, <1>4, <1>5, <1>6

LEMMA UserDeleted ==
    ASSUME UsersInv, NEW w \in Workers, U!pocket_user_delete(w)
    PROVE  UsersInv'
<1> DEFINE o == usersServing[w].object
           j == U!Idle
<1>1. /\ usersMem \in [UserObjects -> Claims] /\ usersServing \in [Workers -> UserJobs]
      /\ NoObject \notin UserObjects /\ usersPool \subseteq usersAllocated
      /\ usersAllocated \subseteq UserObjects
      /\ j \in UserJobs /\ j.object = NoObject /\ j.pc = "idle"
      /\ o \in UserObjects \cup {NoObject}
  BY UsersTypes DEF UserJobs
<1>2. usersServing' = [usersServing EXCEPT ![w] = j] /\ usersAllocated' = usersAllocated
  BY DEF U!pocket_user_delete
<1>3. {} \in SUBSET (UserObjects \ usersAllocated)
  OBVIOUS
<1> HIDE DEF j
<1>4. usersServing'[w] = j /\ U!UserHeld(w)' = {} /\ U!UserHeld(w) = {o} \cap UserObjects
  BY <1>1, <1>2 DEF U!UserHeld
<1>5. KnowsItsUser(w)' /\ ActsForItself(w)'
  BY <1>1, <1>4 DEF KnowsItsUser, ActsForItself, U!At
<1>6. U!UserHeld(w) \cap usersPool = {} /\ U!UserHeld(w) \subseteq usersAllocated
  BY DEF UsersInv, U!FreeUsersAreNobody
<1>7. /\ usersMem' \in [UserObjects -> Claims]
      /\ usersPool' = usersPool \cup U!UserHeld(w)
      /\ \A q \in UserObjects \ U!UserHeld(w) : usersMem'[q] = usersMem[q]
      /\ \A q \in U!UserHeld(w) : usersMem'[q].id = NoUser
  <2>1. CASE o = NoObject
    BY <1>1, <1>4, <2>1 DEF U!pocket_user_delete
  <2>2. CASE o # NoObject
    <3>1. usersMem' = [usersMem EXCEPT ![o] = [id |-> NoUser, iat |-> NoUser]]
      BY <2>2 DEF U!pocket_user_delete, U!Wiped, U!Zeroed
    <3>2. usersPool' = usersPool \cup {o}
      BY <2>2 DEF U!pocket_user_delete
    <3> QED BY <1>1, <1>4, <2>2, <3>1, <3>2 DEF Claims
  <2> QED BY <2>1, <2>2
<1>8. /\ usersPool' = (usersPool \cup U!UserHeld(w) \cup {}) \ U!UserHeld(w)'
      /\ usersAllocated' = usersAllocated \cup {}
      /\ U!UserHeld(w)' \subseteq U!UserHeld(w) \cup usersPool \cup {}
      /\ \A q \in UserObjects \ (U!UserHeld(w) \cup U!UserHeld(w)' \cup {}) :
            usersMem'[q] = usersMem[q]
      /\ \A q \in (U!UserHeld(w) \cup {}) \ U!UserHeld(w)' : usersMem'[q].id = NoUser
  BY <1>2, <1>4, <1>7
<1> HIDE DEF o
<1> QED BY <1>1, <1>2, <1>3, <1>4, <1>5, <1>7, <1>8, OneThreadMoves

LEMMA UserTaken ==
    ASSUME UsersInv, NEW w \in Workers, U!pocket_user_get_by_email(w)
    PROVE  UsersInv'
<1>1. /\ U!At(w, "idle") /\ U!UserHeld(w) = {}
      /\ usersMem \in [UserObjects -> Claims] /\ usersServing \in [Workers -> UserJobs]
      /\ NoObject \notin UserObjects /\ usersPool \subseteq usersAllocated
      /\ usersAllocated \subseteq UserObjects
  BY UsersTypes DEF U!pocket_user_get_by_email, UsersInv, KnowsItsUser, U!UserHeld
<1>2. PICK p \in People : \E o \in U!user_pool_pop :
        /\ usersPool' = usersPool \ {o}
        /\ usersAllocated' = usersAllocated \cup {o}
        /\ usersMem' = [usersMem EXCEPT ![o] = IF usersPool # {} THEN @ ELSE U!Zeroed]
        /\ usersServing' = [usersServing EXCEPT ![w] =
              [pc |-> "lookup", token |-> p, whole |-> TRUE, object |-> o]]
  BY DEF U!pocket_user_get_by_email
<1>3. PICK o \in U!user_pool_pop :
        /\ usersPool' = usersPool \ {o}
        /\ usersAllocated' = usersAllocated \cup {o}
        /\ usersMem' = [usersMem EXCEPT ![o] = IF usersPool # {} THEN @ ELSE U!Zeroed]
        /\ usersServing' = [usersServing EXCEPT ![w] =
              [pc |-> "lookup", token |-> p, whole |-> TRUE, object |-> o]]
  BY <1>2
<1> DEFINE j == [pc |-> "lookup", token |-> p, whole |-> TRUE, object |-> o]
           made == {o} \ usersAllocated
<1>4. o \in UserObjects /\ o # NoObject /\ (o \in usersPool \/ o \notin usersAllocated)
  BY <1>1 DEF U!user_pool_pop, U!Fresh
<1>5. usersPool # {} => o \in usersPool
  BY DEF U!user_pool_pop
<1>6. /\ j \in UserJobs /\ j.object = o /\ j.pc = "lookup" /\ j.whole /\ j.token \in People
      /\ made \in SUBSET (UserObjects \ usersAllocated)
      /\ usersServing' = [usersServing EXCEPT ![w] = j]
  BY <1>3, <1>4 DEF UserJobs
<1> HIDE DEF j
<1>7. usersServing'[w] = j /\ U!UserHeld(w)' = {o}
  BY <1>1, <1>4, <1>6 DEF U!UserHeld
<1>8. /\ usersMem' \in [UserObjects -> Claims] /\ usersMem'[o].id = NoUser
      /\ \A q \in UserObjects \ {o} : usersMem'[q] = usersMem[q]
  <2>1. CASE usersPool # {}
    <3>1. usersMem' = [usersMem EXCEPT ![o] = @]
      BY <1>3, <2>1
    <3>2. usersMem' = usersMem
      BY <1>1, <3>1
    <3>3. usersMem[o].id = NoUser
      BY <1>5, <2>1 DEF UsersInv, U!FreeUsersAreNobody
    <3> QED BY <1>1, <3>2, <3>3
  <2>2. CASE usersPool = {}
    <3>1. usersMem' = [usersMem EXCEPT ![o] = [id |-> NoUser, iat |-> NoUser]]
      BY <1>3, <2>2 DEF U!Zeroed
    <3> QED BY <1>1, <1>4, <3>1 DEF Claims
  <2> QED BY <2>1, <2>2
<1>9. KnowsItsUser(w)' /\ ActsForItself(w)'
  BY <1>4, <1>6, <1>7, <1>8 DEF KnowsItsUser, ActsForItself, U!At
<1>10. /\ usersPool' = (usersPool \cup U!UserHeld(w) \cup made) \ U!UserHeld(w)'
      /\ usersAllocated' = usersAllocated \cup made
      /\ U!UserHeld(w)' \subseteq U!UserHeld(w) \cup usersPool \cup made
      /\ (U!UserHeld(w) \cup made) \ U!UserHeld(w)' = {}
  BY <1>1, <1>3, <1>4, <1>7
<1> QED BY <1>1, <1>6, <1>7, <1>8, <1>9, <1>10, OneThreadMoves

LEMMA UserLookedUp ==
    ASSUME UsersInv, NEW w \in Workers, U!user_get_by_email(w)
    PROVE  UsersInv'
<1> DEFINE o == usersServing[w].object
           found == [pc |-> "handle", token |-> usersServing[w].token,
                     whole |-> usersServing[w].whole, object |-> o]
           j == IF usersServing'[w].pc = "handle" THEN found ELSE U!Idle
<1>1. /\ usersMem \in [UserObjects -> Claims] /\ usersServing \in [Workers -> UserJobs]
      /\ NoObject \notin UserObjects /\ usersPool \subseteq usersAllocated
      /\ usersAllocated \subseteq UserObjects
      /\ U!Idle \in UserJobs /\ U!Idle.object = NoObject /\ U!Idle.pc = "idle"
  BY UsersTypes
<1>2. /\ o \in UserObjects /\ usersMem[o].id = NoUser
      /\ usersServing[w].whole /\ usersServing[w].token \in People
      /\ U!UserHeld(w) = {o} /\ o \notin usersPool
  BY DEF UsersInv, KnowsItsUser, U!user_get_by_email, U!UserHeld, U!FreeUsersAreNobody
<1>3. {} \in SUBSET (UserObjects \ usersAllocated) /\ usersAllocated' = usersAllocated \cup {}
  BY DEF U!user_get_by_email
<1>4. found \in UserJobs
  BY <1>1, <1>2 DEF UserJobs
<1>5. CASE /\ usersMem' = [usersMem EXCEPT ![o].id = usersServing[w].token]
           /\ usersServing' = [usersServing EXCEPT ![w].pc = "handle"]
           /\ UNCHANGED usersPool
  <2>1. usersServing' = [usersServing EXCEPT ![w] = found]
    <3>1. usersServing[w] \in UserJobs
      BY <1>1
    <3>2. [usersServing[w] EXCEPT !.pc = "handle"] = found
      BY <3>1 DEF UserJobs
    <3>3. usersServing' = [usersServing EXCEPT ![w] = [usersServing[w] EXCEPT !.pc = "handle"]]
      BY <1>5
    <3> QED BY <3>2, <3>3
  <2>2. found.pc = "handle" /\ found.object = o /\ found.whole /\ found.token = usersServing[w].token
    BY <1>2
  <2> HIDE DEF found
  <2>3. usersServing'[w] = found /\ U!UserHeld(w)' = {o}
    BY <1>1, <1>2, <2>1, <2>2 DEF U!UserHeld
  <2>4. /\ usersMem' \in [UserObjects -> Claims] /\ usersMem'[o].id = usersServing[w].token
        /\ \A q \in UserObjects \ {o} : usersMem'[q] = usersMem[q]
    BY <1>1, <1>2, <1>5 DEF Claims
  <2>5. KnowsItsUser(w)' /\ ActsForItself(w)'
    BY <2>2, <2>3, <2>4 DEF KnowsItsUser, ActsForItself, U!At
  <2>6. /\ usersPool' = (usersPool \cup U!UserHeld(w) \cup {}) \ U!UserHeld(w)'
        /\ U!UserHeld(w)' \subseteq U!UserHeld(w) \cup usersPool \cup {}
        /\ (U!UserHeld(w) \cup {}) \ U!UserHeld(w)' = {}
    BY <1>2, <1>5, <2>3
  <2> QED BY <1>2, <1>3, <1>4, <2>1, <2>3, <2>4, <2>5, <2>6, OneThreadMoves
<1>6. CASE /\ usersPool' = usersPool \cup {o}
           /\ usersServing' = [usersServing EXCEPT ![w] = U!Idle]
           /\ UNCHANGED usersMem
  <2>1. usersServing'[w] = U!Idle /\ U!UserHeld(w)' = {}
    BY <1>1, <1>6 DEF U!UserHeld
  <2>2. KnowsItsUser(w)' /\ ActsForItself(w)'
    BY <1>1, <2>1 DEF KnowsItsUser, ActsForItself, U!At
  <2>3. /\ usersPool' = (usersPool \cup U!UserHeld(w) \cup {}) \ U!UserHeld(w)'
        /\ U!UserHeld(w)' \subseteq U!UserHeld(w) \cup usersPool \cup {}
        /\ usersMem' \in [UserObjects -> Claims]
        /\ \A q \in UserObjects : usersMem'[q] = usersMem[q]
    BY <1>1, <1>2, <1>6, <2>1
  <2> QED BY <1>1, <1>2, <1>3, <1>6, <2>1, <2>2, <2>3, OneThreadMoves
<1> QED BY <1>5, <1>6 DEF U!user_get_by_email

\* The pool is created when no thread has a user, and deleted at any time: the
\* users that threads have are not in it.
LEMMA UsersPoolMade ==
    ASSUME UsersInv, ~Busy, U!pocket_users_init
    PROVE  UsersInv'
<1>1. /\ usersMem' = [o \in UserObjects |-> U!Zeroed]
      /\ usersServing \in [Workers -> UserJobs] /\ usersServing' = usersServing
      /\ usersPool' = UserPoolInit /\ usersAllocated' = UserPoolInit
      /\ UserPoolInit \subseteq UserObjects
  BY UsersTypes, LifecycleAssumption DEF U!pocket_users_init
<1>2. \A w \in Workers : U!At(w, "idle") /\ usersServing[w].object = NoObject
  BY DEF Busy, UsersInv, KnowsItsUser
<1>3. \A w \in Workers : U!UserHeld(w)' = {}
  BY <1>1, <1>2, LifecycleAssumption DEF U!UserHeld
<1>4. UNION {U!UserHeld(w)' : w \in Workers} = {}
  BY <1>3
<1>5. usersMem' \in [UserObjects -> Claims] /\ \A o \in UserObjects : usersMem'[o].id = NoUser
  BY <1>1 DEF U!Zeroed, Claims
<1>6. U!UsersTypeOK'
  BY <1>1, <1>5 DEF U!UsersTypeOK, UserJobs, Claims
<1>7. U!FreeUsersAreNobody'
  BY <1>1, <1>3, <1>4, <1>5 DEF U!FreeUsersAreNobody
<1>8. U!ActsForItsToken' /\ \A w \in Workers : KnowsItsUser(w)'
  BY <1>1, <1>2 DEF U!ActsForItsToken, KnowsItsUser, U!At
<1> QED BY <1>5, <1>6, <1>7, <1>8 DEF UsersInv

LEMMA UsersPoolDeleted ==
    ASSUME UsersInv, U!pocket_users_end
    PROVE  UsersInv'
<1>1. /\ usersPool \subseteq UserObjects /\ usersAllocated \subseteq UserObjects
      /\ usersPool' = {} /\ usersAllocated' = usersAllocated \ usersPool
      /\ usersMem' = usersMem /\ usersServing' = usersServing
  BY UsersTypes DEF U!pocket_users_end
<1>2. \A w \in Workers : U!UserHeld(w)' = U!UserHeld(w) /\ U!UserHeld(w) \cap usersPool = {}
  BY <1>1 DEF U!UserHeld, UsersInv, U!FreeUsersAreNobody
<1>3. usersAllocated = usersPool \cup UNION {U!UserHeld(w) : w \in Workers}
  BY DEF UsersInv, U!FreeUsersAreNobody
<1>4. usersAllocated' = UNION {U!UserHeld(w)' : w \in Workers}
  BY <1>1, <1>2, <1>3
<1>5. U!FreeUsersAreNobody'
  BY <1>1, <1>2, <1>4 DEF UsersInv, U!FreeUsersAreNobody
<1>6. \A o \in UserObjects \ usersAllocated' : usersMem'[o].id = NoUser
  BY <1>1 DEF UsersInv, U!FreeUsersAreNobody
<1>7. U!UsersTypeOK'
  BY <1>1 DEF UsersInv, U!UsersTypeOK
<1>8. U!ActsForItsToken' /\ \A w \in Workers : KnowsItsUser(w)'
  BY <1>1 DEF UsersInv, U!ActsForItsToken, KnowsItsUser, U!At
<1> QED BY <1>5, <1>6, <1>7, <1>8 DEF UsersInv

LEMMA UsersSame ==
    ASSUME UsersInv, UNCHANGED usersVars
    PROVE  UsersInv'
BY DEF usersVars, UsersInv, U!UsersTypeOK, U!FreeUsersAreNobody, U!ActsForItsToken,
       KnowsItsUser, U!At, U!UserHeld

\* At the start there is no user and nobody decodes one.
THEOREM InitUsersInv == Init => UsersInv
<1> SUFFICES ASSUME Init PROVE UsersInv
  OBVIOUS
<1>1. /\ usersPool = {} /\ usersAllocated = {}
      /\ usersMem = [o \in UserObjects |-> U!Zeroed]
      /\ usersServing = [w \in Workers |-> U!Idle]
  BY DEF Init, U!UsersInit
<1>2. \A w \in Workers : usersServing[w].pc = "idle" /\ usersServing[w].object = NoObject
  BY <1>1 DEF U!Idle
<1>3. \A w \in Workers : U!UserHeld(w) = {}
  BY <1>2, LifecycleAssumption DEF U!UserHeld
<1>4. U!UsersTypeOK
  BY <1>1 DEF U!UsersTypeOK, U!Zeroed, U!Idle
<1>5. U!FreeUsersAreNobody
  BY <1>1, <1>3 DEF U!FreeUsersAreNobody
<1>6. U!ActsForItsToken /\ \A w \in Workers : KnowsItsUser(w)
  BY <1>2 DEF U!ActsForItsToken, KnowsItsUser, U!At
<1>7. \A o \in UserObjects : usersMem[o].id = NoUser
  BY <1>1 DEF U!Zeroed
<1> QED BY <1>4, <1>5, <1>6, <1>7 DEF UsersInv

\* The parts and the users together: the pool of users is made and deleted by
\* the main thread when no thread has a request.
LEMMA UsersStep ==
    ASSUME OwnInv, UsersInv, Next
    PROVE  UsersInv'
<1>1. CASE Start
  <2>1. CASE pocket_users_init
    <3>1. Running("users_init") /\ "users_init" \in StartPCs /\ "users_init" \in MainPCs
      BY <2>1 DEF pocket_users_init, InitPart, PCs, Ends, EndSteps, StartPCs, MainPCs
    <3>2. stack[1].pc # "serve" /\ trapped = {}
      BY <3>1, StartsAlone, StartKnows DEF OwnInv
    <3>3. ~Busy
      BY <3>2 DEF OwnInv, Served, InService
    <3>4. U!pocket_users_init \/ UNCHANGED usersVars
      BY <2>1 DEF pocket_users_init, InitPart
    <3> QED BY <3>3, <3>4, UsersPoolMade, UsersSame
  <2>2. CASE ~pocket_users_init
    <3>1. UNCHANGED usersVars
      BY <1>1, <2>2
         DEF Start, pocket_init_env, pocket_mongo_init, pocket_mongo_init_again,
             pocket_mongo_connect, pocket_roles_init, pocket_redis_init,
             pocket_service_init, pocket_categories_init, pocket_places_init,
             pocket_trans_init, InitPart, cerver_create, cerver_start
    <3> QED BY <3>1, UsersSame
  <2> QED BY <2>1, <2>2
<1>2. CASE End
  <2>1. CASE pocket_users_end
    BY <2>1, UsersPoolDeleted DEF pocket_users_end
  <2>2. CASE ~pocket_users_end
    <3>1. UNCHANGED usersVars
      BY <1>2, <2>2
         DEF End, main_ends, cerver_teardown, pocket_end, pocket_mongo_end, mongo_disconnect,
             credis_end, pocket_roles_end, pocket_categories_end, pocket_places_end,
             pocket_trans_end, pocket_service_end, cerver_end
    <3> QED BY <3>1, UsersSame
  <2> QED BY <2>1, <2>2
<1>3. ASSUME \/ cerver_start_stops \/ HandlerBlocks
             \/ \E s \in Signals : Signal(s)
             \/ \E w \in Workers : SignalToThread(w) \/ RequestMeetsEnd(w)
      PROVE  UsersInv'
  BY <1>3, UsersSame
     DEF cerver_start_stops, HandlerBlocks, Signal, SignalToThread, RequestMeetsEnd
<1>4. ASSUME NEW w \in Workers, TakeRequest(w) \/ FinishRequest(w) PROVE UsersInv'
  <2>1. CASE U!pocket_user_parse_from_json(w)
    BY <2>1, TokenDecoded
  <2>2. CASE U!pocket_user_get_by_email(w)
    BY <2>2, UserTaken
  <2>3. CASE U!user_get_by_email(w)
    BY <2>3, UserLookedUp
  <2>4. CASE U!pocket_user_delete(w)
    BY <2>4, UserDeleted
  <2> QED BY <1>4, <2>1, <2>2, <2>3, <2>4 DEF TakeRequest, FinishRequest
<1>5. CASE Over
  BY <1>5, UsersSame DEF Over, vars, usersVars
<1> QED BY <1>1, <1>2, <1>3, <1>4, <1>5 DEF Next

LEMMA OwnSame ==
    ASSUME OwnInv, UNCHANGED vars
    PROVE  OwnInv'
BY DEF vars, OwnInv, OwnTypeOK, DataTypeOK, Shape, Starting, KnownAt, StartedUpTo, OneEnd,
       OneMisuse, EndedUpTo, Left, Pointers, Threads, Served, InService, AllThere,
       HandlersWait, Busy, There, U!At

\* The inductive invariant holds in every state of every behaviour.
THEOREM Invariant == Spec => []IInv
<1>1. Init => IInv
  BY InitOwnInv, InitUsersInv DEF IInv
<1>2. IInv /\ [Next]_vars => IInv'
  <2> SUFFICES ASSUME IInv, [Next]_vars PROVE IInv'
    OBVIOUS
  <2>1. OwnInv /\ UsersInv
    BY DEF IInv
  <2>2. CASE Next
    <3>1. OwnInv'
      BY <2>1, <2>2, StartKeeps, EndKeeps, CerverStops, Signalled, Blocked, Trapped,
         RequestsServed, RequestLate, OwnSame DEF Next, Over
    <3>2. UsersInv'
      BY <2>1, <2>2, UsersStep
    <3> QED BY <3>1, <3>2 DEF IInv
  <2>3. CASE UNCHANGED vars
    BY <2>1, <2>3, OwnSame, UsersSame DEF IInv, vars, usersVars
  <2> QED BY <2>2, <2>3
<1> QED BY <1>1, <1>2, PTL DEF Spec

-----------------------------------------------------------------------------
(***************************************************************************)
(* What follows for the properties.                                        *)
(***************************************************************************)

\* Every variable keeps its type, in the composition with the users.
THEOREM TypeCorrect == Spec => []TypeOK
<1>1. IInv => TypeOK
  BY DEF IInv, OwnInv, OwnTypeOK, DataTypeOK, UsersInv, TypeOK, Frames
<1> QED BY <1>1, Invariant, PTL

\* However many threads serve and however many handlers are on the stack of
\* the main thread, while a request is being served all that its handler uses is
\* live, unless a thread of the pool runs a handler.
THEOREM ServedByLivePartsHolds == Spec => []ServedByLiveParts
<1>1. IInv => ServedByLiveParts
  BY DEF IInv, OwnInv, Served, Busy, AllThere, There, ServedByLiveParts, Parts, Pools
<1> QED BY <1>1, Invariant, PTL

\* One end, begun at any point of the start, uses nothing that was freed but
\* the service of a start that failed, before main () comes to its own end.
THEOREM OneEndMisusesOnlyTheServiceHolds == Spec => []OneEndMisusesOnlyTheService
<1>1. IInv => OneEndMisusesOnlyTheService
  BY DEF IInv, OwnInv, OneEnd, OneMisuse, OneEndMisusesOnlyTheService
<1> QED BY <1>1, Invariant, PTL

\* One end that misuses nothing releases what the start has made, as far as that
\* came, but for the models when there was an error.
THEOREM NothingElseIsLeftHolds == Spec => []NothingElseIsLeft
<1>1. IInv => NothingElseIsLeft
  BY DEF IInv, OwnInv, OneEnd, Left, Pointers, NothingElseIsLeft
<1> QED BY <1>1, Invariant, PTL

\* The pool of users loses none and keeps nobody's identity, for any number of
\* threads, users and requests, until pocket_users_end () deletes it.
THEOREM UsersPoolIsSoundHolds == Spec => []UsersPoolIsSound
<1>1. IInv => UsersPoolIsSound
  BY DEF IInv, UsersInv, UsersPoolIsSound
<1> QED BY <1>1, Invariant, PTL

\* A request acts for the person of its own token, or for nobody.
THEOREM ActsForItsTokenHolds == Spec => []ActsForItsToken
<1>1. IInv => ActsForItsToken
  BY DEF IInv, UsersInv, ActsForItsToken
<1> QED BY <1>1, Invariant, PTL

=============================================================================
