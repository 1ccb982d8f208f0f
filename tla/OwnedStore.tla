----------------------------- MODULE OwnedStore -----------------------------
(***************************************************************************)
(* What a controller of the pocket service promises about its collection:  *)
(* a store of documents, each owned for ever by the user that created it,  *)
(* served by workers that handle one request at a time.  A request takes   *)
(* effect at one moment: it writes then or never, only a document of its   *)
(* own user, what it reads is what its user owns at that moment, and its   *)
(* answer is settled.  An id never comes back once its document is gone.   *)
(*                                                                         *)
(* It says nothing of pools, parsing, caches or the order of calls inside  *)
(* a handler: Categories, Transactions and Places are shown to implement   *)
(* it.                                                                     *)
(***************************************************************************)

CONSTANTS
    Users,      \* the authenticated users
    Workers,    \* the threads that serve requests
    Ids,        \* document ids
    Values,     \* what a document holds besides its owner
    Nothing,    \* the value of an id without a document
    NoUser,
    NoId

VARIABLES
    store,      \* the documents; an id whose user is NoUser has none
    spent,      \* the ids that ever had a document
    serving     \* what each worker is doing

storeVars == <<store, spent, serving>>

Ops == {"create", "update", "delete", "get", "list"}
Answers == {"pending", "ok", "error"}

Request(u, op, i, answer) ==
    [user |-> u, op |-> op, id |-> i, answer |-> answer, seen |-> {}]

Resting == Request(NoUser, "none", NoId, "pending")

StoreTypeOK ==
    /\ store \in [Ids -> [user : Users \cup {NoUser}, value : Values]]
    /\ spent \subseteq Ids
    /\ serving \in [Workers -> [user : Users \cup {NoUser},
                                op : Ops \cup {"none"},
                                id : Ids \cup {NoId},
                                answer : Answers,
                                seen : SUBSET Ids]]

StoreInit ==
    /\ store = [i \in Ids |-> [user |-> NoUser, value |-> Nothing]]
    /\ spent = {}
    /\ serving = [w \in Workers |-> Resting]

OwnedBy(u) == {i \in Ids : store[i].user = u}

Busy(w, op) ==
    /\ serving[w].op = op
    /\ serving[w].answer = "pending"

Decided(w, answer, seen) ==
    serving' = [serving EXCEPT ![w].answer = answer, ![w].seen = seen]

(***************************************************************************)
(* A worker takes a request, or turns it down at once.  The id of a new    *)
(* document is chosen here and is not one that was ever used.              *)
(***************************************************************************)
Accept(w) ==
    /\ serving[w] = Resting
    /\ \E op \in Ops, i \in Ids \cup {NoId} :
        \/ \E u \in Users :
            /\ op = "create" => i \in Ids \ spent
            /\ serving' = [serving EXCEPT ![w] = Request(u, op, i, "pending")]
        \/ \E u \in Users \cup {NoUser} :
            serving' = [serving EXCEPT ![w] = Request(u, op, i, "error")]
    /\ UNCHANGED <<store, spent>>

Insert(w) ==
    LET i == serving[w].id IN
    /\ Busy(w, "create")
    /\ i \in Ids \ spent
    /\ \E v \in Values :
          store' = [store EXCEPT ![i] = [user |-> serving[w].user, value |-> v]]
    /\ spent' = spent \cup {i}
    /\ \E answer \in {"ok", "error"} : Decided(w, answer, {})

Modify(w) ==
    LET i == serving[w].id IN
    /\ Busy(w, "update")
    /\ i \in OwnedBy(serving[w].user)
    /\ \E v \in Values : store' = [store EXCEPT ![i].value = v]
    /\ \E answer \in {"ok", "error"} : Decided(w, answer, {})
    /\ UNCHANGED spent

Remove(w) ==
    LET i == serving[w].id IN
    /\ Busy(w, "delete")
    /\ i \in OwnedBy(serving[w].user)
    /\ store' = [store EXCEPT ![i] = [user |-> NoUser, value |-> Nothing]]
    /\ \E answer \in {"ok", "error"} : Decided(w, answer, {})
    /\ UNCHANGED spent

(***************************************************************************)
(* The outcome of a request that does not write.  "ok" is the word of the  *)
(* service: a deleted document is gone, what is read is all there is.  It  *)
(* is never the answer to a create without an insert.                      *)
(***************************************************************************)
Failure(w) ==
    /\ \E op \in Ops : Busy(w, op)
    /\ Decided(w, "error", {})
    /\ UNCHANGED <<store, spent>>

NothingToWrite(w) ==
    /\ \/ Busy(w, "update")
       \/ Busy(w, "delete") /\ serving[w].id \notin OwnedBy(serving[w].user)
    /\ Decided(w, "ok", {})
    /\ UNCHANGED <<store, spent>>

Look(w) ==
    /\ \/ /\ Busy(w, "get")
          /\ serving[w].id \in OwnedBy(serving[w].user)
          /\ Decided(w, "ok", {serving[w].id})
       \/ /\ Busy(w, "list")
          /\ Decided(w, "ok", OwnedBy(serving[w].user))
    /\ UNCHANGED <<store, spent>>

Finish(w) ==
    /\ serving[w].answer # "pending"
    /\ serving' = [serving EXCEPT ![w] = Resting]
    /\ UNCHANGED <<store, spent>>

\* the process dies: every request is lost, the store is not
Crash ==
    /\ serving' = [w \in Workers |-> Resting]
    /\ UNCHANGED <<store, spent>>

StoreStep(w) ==
    \/ Accept(w)
    \/ Insert(w) \/ Modify(w) \/ Remove(w)
    \/ Failure(w) \/ NothingToWrite(w) \/ Look(w)
    \/ Finish(w)

StoreNext == (\E w \in Workers : StoreStep(w)) \/ Crash

StoreSpec == StoreInit /\ [][StoreNext]_storeVars

=============================================================================
