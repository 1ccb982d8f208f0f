---------------------------- MODULE PocketService ----------------------------
(***************************************************************************)
(* The service: the controllers of categories, transactions and places in  *)
(* one process, as src/main.c puts them together.  The threads of the pool *)
(* are shared, a thread serves one request of one route at a time, and the *)
(* process dies as a whole, also when it is one controller that brings it  *)
(* down.  A transaction create reads the collection that the category      *)
(* requests write (pocket_category_belongs_to_user ()).                    *)
(***************************************************************************)
EXTENDS Integers, FiniteSets

CONSTANTS
    Users, Workers,
    CategoryIds, CategoryObjects, CategoryPoolInit, Fields, CategoryBodies,
    TransIds, TransObjects, TransPoolInit, TransBodies,
    PlaceIds, PlaceObjects, PlacePoolInit, PlaceBodies,
    Texts, Empty, Amounts, Zero, Reals, NoPlace, Numbers, NoSite,
    Absent, NoBody, Malformed,
    DbOutcomes, CacheOutcomes, MayCrash,
    NoUser, NoId, NoObject

VARIABLES
    categories, catIssued, catOwner, catStats,
    catPool, catAllocated, catMem, catJob,
    transactions, transIssued, transOwner, transStats,
    transPool, transAllocated, transMem, transJob,
    places, placeIssued, placeOwner, placeStats,
    placePool, placeAllocated, placeMem, placeJob

catVars == <<categories, catIssued, catOwner, catStats,
             catPool, catAllocated, catMem, catJob>>
transVars == <<transactions, transIssued, transOwner, transStats,
               transPool, transAllocated, transMem, transJob>>
placeVars == <<places, placeIssued, placeOwner, placeStats,
               placePool, placeAllocated, placeMem, placeJob>>
vars == <<categories, catIssued, catOwner, catStats,
          catPool, catAllocated, catMem, catJob,
          transactions, transIssued, transOwner, transStats,
          transPool, transAllocated, transMem, transJob,
          places, placeIssued, placeOwner, placeStats,
          placePool, placeAllocated, placeMem, placeJob>>

\* for each controller a death of the process may come from another one
Cat == INSTANCE Categories WITH
    Ids <- CategoryIds, Objects <- CategoryObjects, PoolInit <- CategoryPoolInit,
    Bodies <- CategoryBodies, MayCrash <- TRUE,
    issued <- catIssued, owner <- catOwner, stats <- catStats, pool <- catPool,
    allocated <- catAllocated, mem <- catMem, job <- catJob

Trans == INSTANCE Transactions WITH
    Ids <- TransIds, Objects <- TransObjects, PoolInit <- TransPoolInit,
    Titles <- Texts, Places <- PlaceIds \cup {NoPlace}, Bodies <- TransBodies, MayCrash <- TRUE,
    issued <- transIssued, owner <- transOwner, stats <- transStats,
    pool <- transPool, allocated <- transAllocated, mem <- transMem,
    job <- transJob,
    catUser <- [c \in CategoryIds |-> categories[c].user]

Place == INSTANCE Places WITH
    Ids <- PlaceIds, Objects <- PlaceObjects, PoolInit <- PlacePoolInit,
    Bodies <- PlaceBodies, MayCrash <- TRUE,
    issued <- placeIssued, owner <- placeOwner, stats <- placeStats,
    pool <- placePool, allocated <- placeAllocated, mem <- placeMem,
    job <- placeJob

\* what a body of each kind can hold
CategoryContents == [Fields -> Texts \cup {Absent}]
Contents == CategoryContents \cup Trans!Contents \cup Place!Contents

ASSUME PocketServiceAssumption ==
    /\ NoUser \notin Users
    /\ NoId \notin CategoryIds \cup TransIds \cup PlaceIds
    /\ NoPlace \notin PlaceIds
    /\ NoObject \notin CategoryObjects \cup TransObjects \cup PlaceObjects
    /\ CategoryPoolInit \subseteq CategoryObjects
    /\ TransPoolInit \subseteq TransObjects
    /\ PlacePoolInit \subseteq PlaceObjects
    /\ Empty \in Texts /\ NoSite \notin Texts
    /\ Zero \in Amounts /\ Reals \subseteq Amounts
    /\ Numbers \subseteq Int /\ Place!PLACE_TYPE_NONE \in Numbers
    /\ Absent \notin Texts \cup Amounts \cup Numbers
    /\ Absent \notin CategoryIds \cup PlaceIds \cup {NoId, NoPlace}
    /\ NoBody # Malformed
    /\ {NoBody, Malformed} \cap Contents = {}
    /\ CategoryBodies \subseteq CategoryContents \cup {NoBody, Malformed}
    /\ TransBodies \subseteq Trans!Contents \cup {NoBody, Malformed}
    /\ PlaceBodies \subseteq Place!Contents \cup {NoBody, Malformed}
    /\ DbOutcomes \subseteq {"ok", "failed", "lost"}
    /\ CacheOutcomes \subseteq {"ok", "failed"}
    /\ MayCrash \in BOOLEAN

Init == Cat!Init /\ Trans!InitTrans /\ Place!Init

-----------------------------------------------------------------------------

\* a thread that waits for the next request
Free(w) == Cat!At(w, "idle") /\ Trans!At(w, "idle") /\ Place!At(w, "idle")

CategoryRequest(w) ==
    Free(w) /\ Cat!Request(w) /\ UNCHANGED <<transVars, placeVars>>

TransactionRequest(w) ==
    Free(w) /\ Trans!Request(w) /\ UNCHANGED <<catVars, placeVars>>

PlaceRequest(w) ==
    Free(w) /\ Place!Request(w) /\ UNCHANGED <<catVars, transVars>>

CategoryContinue(w) == Cat!Continue(w) /\ UNCHANGED <<transVars, placeVars>>

TransactionContinue(w) == Trans!Continue(w) /\ UNCHANGED <<catVars, placeVars>>

PlaceContinue(w) == Place!Continue(w) /\ UNCHANGED <<catVars, transVars>>

Continue(w) == CategoryContinue(w) \/ TransactionContinue(w) \/ PlaceContinue(w)

\* all threads and the three pools go together; a category or a place create
\* without an object takes the transactions down with it
Crash ==
    /\ \/ MayCrash
       \/ \E w \in Workers :
            Free(w) /\ (Cat!NullDereferenced(w) \/ Place!NullDereferenced(w))
    /\ Cat!Restarted
    /\ Trans!Restarted
    /\ Place!Restarted

Next ==
    \/ Crash
    \/ \E w \in Workers :
        \/ CategoryRequest(w)
        \/ TransactionRequest(w)
        \/ PlaceRequest(w)
        \/ Continue(w)

Spec == Init /\ [][Next]_vars

\* a thread that has taken a request runs its handler to the end
FairSpec ==
    /\ Spec
    /\ \A w \in Workers : WF_vars(Continue(w))

-----------------------------------------------------------------------------
(***************************************************************************)
(* Properties.                                                             *)
(***************************************************************************)

\* What Transactions assumes of the categories collection (a category appears
\* once, under one user, and does not come back) is what the category requests
\* do to it, and the transaction requests behave as specified there.
TransactionsAreServed == Trans!Spec

\* pocket_trans_create () checks the category and inserts later.  One request
\* at a time, the category is still there, and still the user's, when the
\* transaction is inserted.
CategoryStillThereStep ==
    \A w \in Workers : Trans!Inserting(w) =>
        LET t == transactions'[transJob[w].id] IN
        /\ t.data.category \in CategoryIds
        /\ categories[t.data.category].user = t.user

CategoryStillThere == [][CategoryStillThereStep]_vars

\* One request at a time, the whole document that an update of a category
\* writes back differs from the one it read in what its body names only.
CategoryUpdatesKeepTheRest == Cat!KeepsOtherFields

\* The same of transactions, whose amount every update writes.
TransactionUpdatesKeepTheRest == Trans!KeepsOtherFields

\* And of places, whose update writes no more than two fields.
PlaceUpdatesKeepTheRest == Place!KeepsOtherFields

\* Whatever inserts fail, when Redis works, no reply is lost and the process
\* lives, the three counters are exact.
CountersExact == Cat!StatsExact /\ Trans!StatsExact /\ Place!StatsExact

\* A thread that serves all kinds of requests becomes free again after each.
ThreadsComeBack == \A w \in Workers : []<>Free(w)

=============================================================================
