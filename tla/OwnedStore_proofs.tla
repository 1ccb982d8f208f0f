-------------------------- MODULE OwnedStore_proofs --------------------------
(***************************************************************************)
(* What an owned store gives its users.  Whatever implements OwnedStore has *)
(* these properties too: they are read off PocketService at the end of     *)
(* PocketService_proofs, for the three collections at once.                *)
(***************************************************************************)
EXTENDS OwnedStore, TLAPS

\* a document has an id that is spent, and a create that was a success has
\* made one
StoreInv ==
    /\ StoreTypeOK
    /\ \A i \in Ids : store[i].user # NoUser => i \in spent
    /\ \A w \in Workers :
          serving[w].op = "create" /\ serving[w].answer = "ok" => serving[w].id \in spent

\* the owner of a spent id is for ever, or gone for ever
OwnersStandStep ==
    \A i \in Ids \cap spent :
        /\ i \in spent'
        /\ store'[i].user \in {store[i].user, NoUser}

\* whose document a write makes, changes or removes
WriterOf(i) == IF i \in spent THEN store[i].user ELSE store'[i].user

\* the one write of a request is the moment its answer is settled
WritesAreOwnStep ==
    \A i \in Ids : store'[i] # store[i] =>
        \E w \in Workers : /\ serving[w].id = i
                           /\ serving[w].user = WriterOf(i)
                           /\ serving[w].user \in Users
                           /\ serving[w].answer = "pending"
                           /\ serving'[w].answer # "pending"

\* what was answered, and what was read, is not taken back
AnswersStandStep ==
    \A w \in Workers : serving[w].answer # "pending" =>
        serving'[w] \in {serving[w], Resting}

-----------------------------------------------------------------------------

Servings == [user : Users \cup {NoUser}, op : Ops \cup {"none"},
             id : Ids \cup {NoId}, answer : Answers, seen : SUBSET Ids]

\* a request that is under way is some user's
BusyUsers == \A w \in Workers : serving[w].op \in Ops /\ serving[w].answer = "pending"
                                   => serving[w].user \in Users

\* A request is one of the values a worker can be at.
LEMMA RequestType ==
    ASSUME NEW u \in Users \cup {NoUser}, NEW op \in Ops, NEW i \in Ids \cup {NoId},
           NEW answer \in Answers
    PROVE  Request(u, op, i, answer) \in Servings
BY DEF Request, Servings

\* A worker at rest has no operation.
LEMMA RestingType ==
    Resting \in Servings /\ Resting.op = "none" /\ Resting.answer = "pending"
BY DEF Resting, Request, Servings, Answers

\* What a decision does to the requests.
LEMMA DecidedEffect ==
    ASSUME StoreTypeOK, NEW w \in Workers, NEW answer \in Answers,
           NEW seen \in SUBSET Ids, Decided(w, answer, seen)
    PROVE  /\ serving' \in [Workers -> Servings]
           /\ \A x \in Workers \ {w} : serving'[x] = serving[x]
           /\ serving'[w] = [serving[w] EXCEPT !.answer = answer, !.seen = seen]
           /\ serving'[w].answer = answer /\ serving'[w].id = serving[w].id
           /\ serving'[w].op = serving[w].op /\ serving'[w].user = serving[w].user
<1> DEFINE s == [serving[w] EXCEPT !.answer = answer, !.seen = seen]
<1>1. serving \in [Workers -> Servings]
  BY DEF StoreTypeOK, Servings
<1>2. serving' = [serving EXCEPT ![w] = s]
  BY DEF Decided
<1>3. /\ s \in Servings /\ s.answer = answer /\ s.id = serving[w].id
      /\ s.op = serving[w].op /\ s.user = serving[w].user
  BY <1>1 DEF Servings
<1> HIDE DEF s
<1>4. serving'[w] = s /\ serving' \in [Workers -> Servings]
  BY <1>1, <1>2, <1>3
<1>5. \A x \in Workers \ {w} : serving'[x] = serving[x]
  BY <1>1, <1>2
<1> QED BY <1>3, <1>4, <1>5 DEF s


\* At the start there are no documents and all workers rest.
LEMMA InitInv ==
    ASSUME Nothing \in Values, StoreInit
    PROVE  StoreInv /\ BusyUsers
<1> USE DEF StoreInit
<1>1. StoreTypeOK
  BY RestingType DEF StoreTypeOK, Servings
<1>2. \A w \in Workers : serving[w].op = "none"
  BY RestingType
<1>3. BusyUsers
  BY <1>2 DEF BusyUsers, Ops
<1> QED BY <1>1, <1>2, <1>3 DEF StoreInv

\* the requests after a step of w that decides, and the store as it was
LEMMA NothingWritten ==
    ASSUME StoreInv, BusyUsers, NEW w \in Workers,
           Failure(w) \/ NothingToWrite(w) \/ Look(w)
    PROVE  /\ StoreInv' /\ BusyUsers'
           /\ OwnersStandStep /\ WritesAreOwnStep /\ AnswersStandStep
<1> USE DEF StoreInv
<1>1. /\ store' = store /\ spent' = spent
      /\ serving[w].answer = "pending"
      /\ \E answer \in Answers, seen \in SUBSET Ids :
            /\ Decided(w, answer, seen)
            /\ answer = "error" \/ (answer = "ok" /\ serving[w].op # "create")
  BY DEF Failure, NothingToWrite, Look, Busy, Answers, OwnedBy
<1>2. PICK answer \in Answers, seen \in SUBSET Ids :
            /\ Decided(w, answer, seen)
            /\ answer = "error" \/ (answer = "ok" /\ serving[w].op # "create")
  BY <1>1
<1>3. /\ serving' \in [Workers -> Servings]
      /\ \A x \in Workers \ {w} : serving'[x] = serving[x]
      /\ serving'[w].answer = answer /\ serving'[w].op = serving[w].op
  BY <1>2, DecidedEffect
<1>4. StoreInv'
  BY <1>1, <1>2, <1>3 DEF StoreTypeOK, Servings
<1>5. BusyUsers'
  BY <1>2, <1>3 DEF BusyUsers
<1>6. AnswersStandStep
  BY <1>1, <1>3 DEF AnswersStandStep
<1> QED BY <1>1, <1>4, <1>5, <1>6 DEF OwnersStandStep, WritesAreOwnStep

\* the same after a step that writes
LEMMA Written ==
    ASSUME Nothing \in Values, NoUser \notin Users,
           StoreInv, BusyUsers, NEW w \in Workers,
           Insert(w) \/ Modify(w) \/ Remove(w)
    PROVE  /\ StoreInv' /\ BusyUsers'
           /\ OwnersStandStep /\ WritesAreOwnStep /\ AnswersStandStep
<1> DEFINE i == serving[w].id
           u == serving[w].user
<1> USE DEF StoreInv
<1>1. /\ serving[w].answer = "pending" /\ serving[w].op \in Ops /\ u \in Users
      /\ \E answer \in {"ok", "error"} : Decided(w, answer, {})
  BY DEF Insert, Modify, Remove, Busy, BusyUsers, Ops
<1>2. PICK answer \in {"ok", "error"} : Decided(w, answer, {})
  BY <1>1
<1>3. /\ serving' \in [Workers -> Servings]
      /\ \A x \in Workers \ {w} : serving'[x] = serving[x]
      /\ serving'[w].answer = answer /\ serving'[w].op = serving[w].op
      /\ serving'[w].id = i
  <2>1. answer \in Answers /\ {} \in SUBSET Ids
    BY DEF Answers
  <2> QED BY <1>2, <2>1, DecidedEffect
<1>4. /\ i \in Ids
      /\ \E d \in [user : Users \cup {NoUser}, value : Values] :
            /\ store' = [store EXCEPT ![i] = d]
            /\ \/ i \notin spent /\ d.user = u /\ spent' = spent \cup {i}
               \/ /\ store[i].user = u /\ d.user \in {u, NoUser} /\ spent' = spent
                  /\ serving[w].op # "create"
  <2>1. store \in [Ids -> [user : Users \cup {NoUser}, value : Values]]
    BY DEF StoreTypeOK
  <2>2. CASE Insert(w)
    <3>1. PICK v \in Values : store' = [store EXCEPT ![i] = [user |-> u, value |-> v]]
      BY <2>2 DEF Insert
    <3> QED BY <1>1, <2>2, <3>1 DEF Insert
  <2>3. CASE Modify(w)
    <3>1. PICK v \in Values : store' = [store EXCEPT ![i].value = v]
      BY <2>3 DEF Modify
    <3>2. i \in Ids /\ store[i].user = u /\ spent' = spent /\ serving[w].op # "create"
      BY <2>3 DEF Modify, OwnedBy, Busy
    <3>3. /\ [store[i] EXCEPT !.value = v] \in [user : Users \cup {NoUser}, value : Values]
          /\ [store[i] EXCEPT !.value = v].user = u
      BY <2>1, <3>2
    <3> QED BY <3>1, <3>2, <3>3
  <2>4. CASE Remove(w)
    <3>1. /\ store' = [store EXCEPT ![i] = [user |-> NoUser, value |-> Nothing]]
          /\ i \in Ids /\ store[i].user = u /\ spent' = spent
          /\ serving[w].op # "create"
      BY <2>4 DEF Remove, OwnedBy, Busy
    <3>2. /\ [user |-> NoUser, value |-> Nothing] \in
                 [user : Users \cup {NoUser}, value : Values]
          /\ [user |-> NoUser, value |-> Nothing].user = NoUser
      OBVIOUS
    <3> QED BY <3>1, <3>2
  <2> QED BY <2>2, <2>3, <2>4
<1>5. PICK d \in [user : Users \cup {NoUser}, value : Values] :
            /\ store' = [store EXCEPT ![i] = d]
            /\ \/ i \notin spent /\ d.user = u /\ spent' = spent \cup {i}
               \/ /\ store[i].user = u /\ d.user \in {u, NoUser} /\ spent' = spent
                  /\ serving[w].op # "create"
  BY <1>4
<1>6. /\ store' \in [Ids -> [user : Users \cup {NoUser}, value : Values]]
      /\ store'[i] = d
      /\ \A j \in Ids : j # i => store'[j] = store[j]
      /\ spent' \subseteq spent \cup {i} /\ spent \subseteq spent'
  BY <1>4, <1>5 DEF StoreTypeOK
<1>7. store[i].user = u => i \in spent
  BY <1>1, <1>4
<1>8. StoreTypeOK'
  BY <1>3, <1>4, <1>6 DEF StoreTypeOK, Servings
<1>9. \A j \in Ids : store'[j].user # NoUser => j \in spent'
  BY <1>5, <1>6, <1>7
<1>10. ASSUME NEW x \in Workers, serving'[x].op = "create", serving'[x].answer = "ok"
       PROVE  serving'[x].id \in spent'
  BY <1>3, <1>5, <1>6, <1>10
<1>11. BusyUsers'
  BY <1>3 DEF BusyUsers
<1>12. OwnersStandStep
  BY <1>5, <1>6, <1>7 DEF OwnersStandStep
<1>13. WritesAreOwnStep
  <2>1. u = WriterOf(i)
    BY <1>5, <1>6, <1>7 DEF WriterOf
  <2> QED BY <1>1, <1>3, <1>6, <2>1 DEF WritesAreOwnStep
<1>14. AnswersStandStep
  BY <1>1, <1>3 DEF AnswersStandStep
<1> QED BY <1>8, <1>9, <1>10, <1>11, <1>12, <1>13, <1>14

\* the same after a step that only begins, ends or loses requests
LEMMA OnlyServing ==
    ASSUME StoreInv, BusyUsers,
           \/ \E w \in Workers : Accept(w) \/ Finish(w)
           \/ Crash
           \/ UNCHANGED storeVars
    PROVE  /\ StoreInv' /\ BusyUsers'
           /\ OwnersStandStep /\ WritesAreOwnStep /\ AnswersStandStep
<1> USE DEF StoreInv
<1>1. store' = store /\ spent' = spent
  BY DEF Accept, Finish, Crash, storeVars
<1>2. ASSUME NEW w \in Workers, Accept(w)
      PROVE  \E s \in Servings : /\ serving' = [serving EXCEPT ![w] = s]
                                 /\ serving[w].answer = "pending"
                                 /\ s.answer # "ok"
                                 /\ s.answer = "pending" => s.user \in Users
  <2>1. serving[w].answer = "pending"
    BY <1>2, RestingType DEF Accept
  <2>2. PICK op \in Ops, i \in Ids \cup {NoId} :
            \/ \E u \in Users :
                  serving' = [serving EXCEPT ![w] = Request(u, op, i, "pending")]
            \/ \E u \in Users \cup {NoUser} :
                  serving' = [serving EXCEPT ![w] = Request(u, op, i, "error")]
    BY <1>2 DEF Accept
  <2>3. ASSUME NEW u \in Users \cup {NoUser}, NEW answer \in Answers
        PROVE  /\ Request(u, op, i, answer) \in Servings
               /\ Request(u, op, i, answer).answer = answer
               /\ Request(u, op, i, answer).user = u
    BY RequestType DEF Request
  <2> QED BY <2>1, <2>2, <2>3 DEF Answers
<1>3. ASSUME NEW w \in Workers, Finish(w)
      PROVE  serving' = [serving EXCEPT ![w] = Resting]
  BY <1>3 DEF Finish
<1>4. \/ \A x \in Workers : serving'[x] = Resting
      \/ \A x \in Workers : serving'[x] = serving[x]
      \/ \E w \in Workers : /\ \A x \in Workers \ {w} : serving'[x] = serving[x]
                            /\ \/ serving'[w] = Resting
                               \/ /\ serving[w].answer = "pending"
                                  /\ serving'[w].answer # "ok"
                                  /\ serving'[w].answer = "pending" =>
                                        serving'[w].user \in Users
  BY <1>2, <1>3 DEF StoreTypeOK, Crash, storeVars
<1>5. serving' \in [Workers -> Servings]
  BY <1>2, <1>3, RestingType DEF StoreTypeOK, Servings, Crash, storeVars
<1>6. StoreInv'
  BY <1>1, <1>4, <1>5, RestingType DEF StoreTypeOK, Servings
<1>7. BusyUsers'
  BY <1>4, RestingType DEF BusyUsers, Ops
<1>8. AnswersStandStep
  BY <1>4 DEF AnswersStandStep
<1> QED BY <1>1, <1>6, <1>7, <1>8 DEF OwnersStandStep, WritesAreOwnStep

\* Each step of the store, whatever it is, keeps what is promised.
LEMMA StoreStepHolds ==
    ASSUME Nothing \in Values, NoUser \notin Users,
           StoreInv, BusyUsers, [StoreNext]_storeVars
    PROVE  /\ StoreInv' /\ BusyUsers'
           /\ OwnersStandStep /\ WritesAreOwnStep /\ AnswersStandStep
<1>1. \/ \E w \in Workers : Accept(w) \/ Finish(w)
      \/ Crash \/ UNCHANGED storeVars
      \/ \E w \in Workers : Insert(w) \/ Modify(w) \/ Remove(w)
      \/ \E w \in Workers : Failure(w) \/ NothingToWrite(w) \/ Look(w)
  BY DEF StoreNext, StoreStep
<1> QED BY <1>1, OnlyServing, Written, NothingWritten

\* A store has its types, a document only under a spent id, and a create that
\* is answered with success has made one.
THEOREM StoreInvHolds ==
    ASSUME Nothing \in Values, NoUser \notin Users
    PROVE  StoreSpec => [](StoreInv /\ BusyUsers)
<1>1. StoreInit => StoreInv /\ BusyUsers
  BY InitInv
<1>2. StoreInv /\ BusyUsers /\ [StoreNext]_storeVars => (StoreInv /\ BusyUsers)'
  BY StoreStepHolds
<1> QED BY <1>1, <1>2, PTL DEF StoreSpec

\* In a store a document never changes hands and never comes back, every write
\* is the one write of a request of the document's user, at the moment the
\* request is decided, and no answer or result that was given changes.
THEOREM StoreStepsHold ==
    ASSUME Nothing \in Values, NoUser \notin Users
    PROVE  StoreSpec => /\ [][OwnersStandStep]_storeVars
                        /\ [][WritesAreOwnStep]_storeVars
                        /\ [][AnswersStandStep]_storeVars
<1>1. StoreInv /\ BusyUsers /\ [StoreNext]_storeVars =>
          /\ [OwnersStandStep]_storeVars
          /\ [WritesAreOwnStep]_storeVars
          /\ [AnswersStandStep]_storeVars
  BY StoreStepHolds
<1> QED BY <1>1, StoreInvHolds, PTL DEF StoreSpec

=============================================================================
