------------------------ MODULE PocketService_proofs ------------------------
(***************************************************************************)
(* Safety of the whole service, from what is proved of its controllers.    *)
(*                                                                         *)
(* CatP, TransP and PlaceP are the controllers with their theorems, over   *)
(* the variables of the service: the same formulas as Cat, Trans and Place.*)
(***************************************************************************)
EXTENDS PocketService, FiniteSetTheorems, TLAPS

CatP == INSTANCE Categories_proofs WITH
    Ids <- CategoryIds, Objects <- CategoryObjects, PoolInit <- CategoryPoolInit,
    Bodies <- CategoryBodies, MayCrash <- TRUE,
    issued <- catIssued, owner <- catOwner, stats <- catStats, pool <- catPool,
    allocated <- catAllocated, mem <- catMem, job <- catJob

TransP == INSTANCE Transactions_proofs WITH
    Ids <- TransIds, Objects <- TransObjects, PoolInit <- TransPoolInit,
    Titles <- Texts, Places <- PlaceIds \cup {NoPlace}, Bodies <- TransBodies, MayCrash <- TRUE,
    issued <- transIssued, owner <- transOwner, stats <- transStats,
    pool <- transPool, allocated <- transAllocated, mem <- transMem,
    job <- transJob,
    catUser <- [c \in CategoryIds |-> categories[c].user]

PlaceP == INSTANCE Places_proofs WITH
    Ids <- PlaceIds, Objects <- PlaceObjects, PoolInit <- PlacePoolInit,
    Bodies <- PlaceBodies, MayCrash <- TRUE,
    issued <- placeIssued, owner <- placeOwner, stats <- placeStats,
    pool <- placePool, allocated <- placeAllocated, mem <- placeMem,
    job <- placeJob

-----------------------------------------------------------------------------
(***************************************************************************)
(* What the controllers assume of their constants is what the service      *)
(* assumes of its own.                                                     *)
(***************************************************************************)

\* what the categories controller assumes
LEMMA CategoriesServed == CatP!CategoriesAssumption
BY PocketServiceAssumption DEF CategoryContents, Contents

\* what the transactions controller assumes
LEMMA TransactionsServed == TransP!TransactionsAssumption
BY PocketServiceAssumption DEF Contents, Trans!Contents, TransP!Contents

\* what the places controller assumes
LEMMA PlacesServed == PlaceP!PlacesAssumption
BY PocketServiceAssumption
DEF Contents, Place!Contents, PlaceP!Contents, Place!PLACE_TYPE_NONE,
    PlaceP!PLACE_TYPE_NONE

\* an instance has a copy of Cardinality too
LEMMA SameCardinality ==
    \A S : /\ CatP!IsFiniteSet(S) <=> IsFiniteSet(S)
           /\ TransP!IsFiniteSet(S) <=> IsFiniteSet(S)
           /\ PlaceP!IsFiniteSet(S) <=> IsFiniteSet(S)
           /\ CatP!Cardinality(S) = Cardinality(S)
           /\ PlaceP!Cardinality(S) = Cardinality(S)
BY DEF CatP!IsFiniteSet, TransP!IsFiniteSet, PlaceP!IsFiniteSet, IsFiniteSet,
   CatP!Cardinality, PlaceP!Cardinality, Cardinality

-----------------------------------------------------------------------------
(***************************************************************************)
(* Cat, Trans and Place are CatP, TransP and PlaceP.                       *)
(***************************************************************************)

\* the categories controller
LEMMA SameCategories ==
    /\ Cat!Init <=> CatP!Init
    /\ (UNCHANGED Cat!vars) <=> (UNCHANGED CatP!vars)
    /\ Cat!Next <=> CatP!Next
    /\ Cat!Restarted <=> CatP!Restarted
    /\ Cat!StatsExact <=> CatP!StatsExact
    /\ Cat!KeepsOtherFieldsStep <=> CatP!KeepsOtherFieldsStep
    /\ \A w : /\ Cat!Request(w) <=> CatP!Request(w)
              /\ Cat!Continue(w) <=> CatP!Continue(w)
              /\ Cat!NullDereferenced(w) <=> CatP!NullDereferenced(w)
BY DEF
   Cat!StatsExact, Cat!KeepsOtherFieldsStep, Cat!Known, Cat!Init, Cat!Next,
   Cat!Counting, Cat!Inserted, Cat!At, Cat!Missing, Cat!Zeroed, Cat!Idle,
   Cat!Crash, Cat!Request, Cat!Continue, Cat!Blank, Cat!NullDereferenced,
   Cat!Restarted, Cat!BadUser, Cat!pocket_category_create,
   Cat!pocket_category_update, Cat!pocket_category_delete,
   Cat!pocket_category_get_handler, Cat!pocket_categories_handler,
   Cat!category_insert_one, Cat!pocket_cache_user_increment_categories,
   Cat!pocket_category_return, Cat!category_get_by_oid_and_user,
   Cat!category_update_one, Cat!category_delete_one_by_oid_and_user,
   Cat!category_get_by_oid_and_user_to_json,
   Cat!categories_get_all_by_user_to_json, Cat!pocket_error_send_response,
   Cat!pool_pop, Cat!Refuse, Cat!FreshOid, Cat!Taken, Cat!Filled, Cat!Take,
   Cat!Applied, Cat!category_to_bson, Cat!MoveTo, Cat!AfterInsert, Cat!ErrorOf,
   Cat!Returned, Cat!category_query_by_oid_and_user, Cat!MayFindNothing,
   Cat!NotFound, Cat!category_doc_parse, Cat!Merged, Cat!category_query_oid,
   Cat!Outcomes, Cat!Read, Cat!ReadNothing, Cat!category_query_by_user, Cat!vars,
   Cat!Cardinality,
   CatP!StatsExact, CatP!KeepsOtherFieldsStep, CatP!Known, CatP!Init, CatP!Next,
   CatP!Counting, CatP!Inserted, CatP!At, CatP!Missing, CatP!Zeroed, CatP!Idle,
   CatP!Crash, CatP!Request, CatP!Continue, CatP!Blank, CatP!NullDereferenced,
   CatP!Restarted, CatP!BadUser, CatP!pocket_category_create,
   CatP!pocket_category_update, CatP!pocket_category_delete,
   CatP!pocket_category_get_handler, CatP!pocket_categories_handler,
   CatP!category_insert_one, CatP!pocket_cache_user_increment_categories,
   CatP!pocket_category_return, CatP!category_get_by_oid_and_user,
   CatP!category_update_one, CatP!category_delete_one_by_oid_and_user,
   CatP!category_get_by_oid_and_user_to_json,
   CatP!categories_get_all_by_user_to_json, CatP!pocket_error_send_response,
   CatP!pool_pop, CatP!Refuse, CatP!FreshOid, CatP!Taken, CatP!Filled, CatP!Take,
   CatP!Applied, CatP!category_to_bson, CatP!MoveTo, CatP!AfterInsert,
   CatP!ErrorOf, CatP!Returned, CatP!category_query_by_oid_and_user,
   CatP!MayFindNothing, CatP!NotFound, CatP!category_doc_parse, CatP!Merged,
   CatP!category_query_oid, CatP!Outcomes, CatP!Read, CatP!ReadNothing,
   CatP!category_query_by_user, CatP!vars, CatP!Cardinality

\* the transactions controller
LEMMA SameTransactions ==
    /\ Trans!Init <=> TransP!Init
    /\ (UNCHANGED Trans!vars) <=> (UNCHANGED TransP!vars)
    /\ Trans!Next <=> TransP!Next
    /\ Trans!Restarted <=> TransP!Restarted
    /\ Trans!StatsExact <=> TransP!StatsExact
    /\ Trans!KeepsOtherFieldsStep <=> TransP!KeepsOtherFieldsStep
    /\ \A w : /\ Trans!Request(w) <=> TransP!Request(w)
              /\ Trans!Continue(w) <=> TransP!Continue(w)
              /\ Trans!Inserting(w) <=> TransP!Inserting(w)
BY DEF
   Trans!StatsExact, Trans!KeepsOtherFieldsStep, Trans!Inserting, Trans!Init,
   Trans!Next, Trans!Counting, Trans!Inserted, Trans!At, Trans!InitTrans,
   Trans!InitCategories, Trans!Crash, Trans!Request, Trans!Continue,
   Trans!catVars, Trans!CategoriesStep, Trans!transVars, Trans!Missing,
   Trans!Zeroed, Trans!Idle, Trans!Restarted, Trans!BadUser,
   Trans!pocket_trans_create, Trans!pocket_trans_update,
   Trans!pocket_trans_delete, Trans!pocket_transaction_get_handler,
   Trans!pocket_transactions_handler, Trans!pocket_category_belongs_to_user,
   Trans!transaction_insert_one, Trans!pocket_cache_user_increment_transactions,
   Trans!pocket_trans_return, Trans!transaction_get_by_oid_and_user,
   Trans!transaction_update_one, Trans!transaction_delete_one_by_oid_and_user,
   Trans!transaction_get_by_oid_and_user_to_json,
   Trans!transactions_get_all_by_user_to_json, Trans!pocket_error_send_response,
   Trans!CategoryInserted, Trans!CategoryDeleted, Trans!Blank, Trans!Refuse,
   Trans!Refusal, Trans!pool_pop, Trans!FreshOid, Trans!Taken, Trans!Filled,
   Trans!Known, Trans!Take, Trans!category_query_by_oid_and_user, Trans!MoveTo,
   Trans!MayFindNothing, Trans!NotFound, Trans!Applied, Trans!transaction_to_bson,
   Trans!AfterInsert, Trans!ErrorOf, Trans!Returned,
   Trans!transaction_query_by_oid_and_user, Trans!trans_doc_parse, Trans!Merged,
   Trans!transaction_query_oid, Trans!Outcomes, Trans!Read, Trans!ReadNothing,
   Trans!transaction_query_user, Trans!json_real_value, Trans!Given, Trans!vars,
   Trans!Cardinality,
   TransP!StatsExact, TransP!KeepsOtherFieldsStep, TransP!Inserting, TransP!Init,
   TransP!Next, TransP!Counting, TransP!Inserted, TransP!At, TransP!InitTrans,
   TransP!InitCategories, TransP!Crash, TransP!Request, TransP!Continue,
   TransP!catVars, TransP!CategoriesStep, TransP!transVars, TransP!Missing,
   TransP!Zeroed, TransP!Idle, TransP!Restarted, TransP!BadUser,
   TransP!pocket_trans_create, TransP!pocket_trans_update,
   TransP!pocket_trans_delete, TransP!pocket_transaction_get_handler,
   TransP!pocket_transactions_handler, TransP!pocket_category_belongs_to_user,
   TransP!transaction_insert_one, TransP!pocket_cache_user_increment_transactions,
   TransP!pocket_trans_return, TransP!transaction_get_by_oid_and_user,
   TransP!transaction_update_one, TransP!transaction_delete_one_by_oid_and_user,
   TransP!transaction_get_by_oid_and_user_to_json,
   TransP!transactions_get_all_by_user_to_json, TransP!pocket_error_send_response,
   TransP!CategoryInserted, TransP!CategoryDeleted, TransP!Blank, TransP!Refuse,
   TransP!Refusal, TransP!pool_pop, TransP!FreshOid, TransP!Taken, TransP!Filled,
   TransP!Known, TransP!Take, TransP!category_query_by_oid_and_user,
   TransP!MoveTo, TransP!MayFindNothing, TransP!NotFound, TransP!Applied,
   TransP!transaction_to_bson, TransP!AfterInsert, TransP!ErrorOf,
   TransP!Returned, TransP!transaction_query_by_oid_and_user,
   TransP!trans_doc_parse, TransP!Merged, TransP!transaction_query_oid,
   TransP!Outcomes, TransP!Read, TransP!ReadNothing,
   TransP!transaction_query_user, TransP!json_real_value, TransP!Given,
   TransP!vars, TransP!Cardinality

\* the places controller
LEMMA SamePlaces ==
    /\ Place!Init <=> PlaceP!Init
    /\ (UNCHANGED Place!vars) <=> (UNCHANGED PlaceP!vars)
    /\ Place!Next <=> PlaceP!Next
    /\ Place!Restarted <=> PlaceP!Restarted
    /\ Place!StatsExact <=> PlaceP!StatsExact
    /\ Place!KeepsOtherFieldsStep <=> PlaceP!KeepsOtherFieldsStep
    /\ \A w : /\ Place!Request(w) <=> PlaceP!Request(w)
              /\ Place!Continue(w) <=> PlaceP!Continue(w)
              /\ Place!NullDereferenced(w) <=> PlaceP!NullDereferenced(w)
BY DEF
   Place!StatsExact, Place!KeepsOtherFieldsStep, Place!Init, Place!Next,
   Place!Counting, Place!Inserted, Place!At, Place!Missing, Place!Zeroed,
   Place!Idle, Place!Crash, Place!Request, Place!Continue, Place!Blank,
   Place!NullDereferenced, Place!Restarted, Place!BadUser,
   Place!pocket_place_create, Place!pocket_place_update,
   Place!pocket_place_delete, Place!pocket_place_get_handler,
   Place!pocket_places_handler, Place!place_insert_one,
   Place!pocket_cache_user_increment_places, Place!pocket_place_return,
   Place!place_get_by_oid_and_user, Place!place_update_one,
   Place!place_delete_one_by_oid_and_user,
   Place!place_get_by_oid_and_user_to_json, Place!places_get_all_by_user_to_json,
   Place!pocket_error_send_response, Place!PLACE_TYPE_NONE, Place!pool_pop,
   Place!Refuse, Place!FreshOid, Place!Taken, Place!Filled, Place!Known,
   Place!Take, Place!Applied, Place!place_to_bson, Place!MoveTo,
   Place!AfterInsert, Place!ErrorOf, Place!Returned,
   Place!place_query_by_oid_and_user, Place!MayFindNothing, Place!NotFound,
   Place!place_doc_parse, Place!Merged, Place!place_query_oid, Place!Outcomes,
   Place!place_update_bson, Place!Read, Place!ReadNothing,
   Place!place_query_by_user, Place!place_type_from_value_string, Place!Given,
   Place!PLACE_TYPE_SITE, Place!PLACE_TYPE_INVALID, Place!vars, Place!Cardinality,
   PlaceP!StatsExact, PlaceP!KeepsOtherFieldsStep, PlaceP!Init, PlaceP!Next,
   PlaceP!Counting, PlaceP!Inserted, PlaceP!At, PlaceP!Missing, PlaceP!Zeroed,
   PlaceP!Idle, PlaceP!Crash, PlaceP!Request, PlaceP!Continue, PlaceP!Blank,
   PlaceP!NullDereferenced, PlaceP!Restarted, PlaceP!BadUser,
   PlaceP!pocket_place_create, PlaceP!pocket_place_update,
   PlaceP!pocket_place_delete, PlaceP!pocket_place_get_handler,
   PlaceP!pocket_places_handler, PlaceP!place_insert_one,
   PlaceP!pocket_cache_user_increment_places, PlaceP!pocket_place_return,
   PlaceP!place_get_by_oid_and_user, PlaceP!place_update_one,
   PlaceP!place_delete_one_by_oid_and_user,
   PlaceP!place_get_by_oid_and_user_to_json,
   PlaceP!places_get_all_by_user_to_json, PlaceP!pocket_error_send_response,
   PlaceP!PLACE_TYPE_NONE, PlaceP!pool_pop, PlaceP!Refuse, PlaceP!FreshOid,
   PlaceP!Taken, PlaceP!Filled, PlaceP!Known, PlaceP!Take, PlaceP!Applied,
   PlaceP!place_to_bson, PlaceP!MoveTo, PlaceP!AfterInsert, PlaceP!ErrorOf,
   PlaceP!Returned, PlaceP!place_query_by_oid_and_user, PlaceP!MayFindNothing,
   PlaceP!NotFound, PlaceP!place_doc_parse, PlaceP!Merged, PlaceP!place_query_oid,
   PlaceP!Outcomes, PlaceP!place_update_bson, PlaceP!Read, PlaceP!ReadNothing,
   PlaceP!place_query_by_user, PlaceP!place_type_from_value_string, PlaceP!Given,
   PlaceP!PLACE_TYPE_SITE, PlaceP!PLACE_TYPE_INVALID, PlaceP!vars,
   PlaceP!Cardinality

-----------------------------------------------------------------------------
(***************************************************************************)
(* A step of the service is a step of each controller or leaves it alone.  *)
(***************************************************************************)

\* the category requests and the death of the process
LEMMA CategoriesStep ==
    ASSUME [Next]_vars
    PROVE  [CatP!Next]_(CatP!vars)
<1>1. CASE Crash
  BY <1>1, SameCategories DEF Crash, CatP!Next, CatP!Crash
<1>2. ASSUME NEW w \in Workers, CategoryRequest(w) \/ CategoryContinue(w)
      PROVE  CatP!Next
  BY <1>2, SameCategories DEF CategoryRequest, CategoryContinue, CatP!Next
<1>3. CASE UNCHANGED catVars
  BY <1>3 DEF catVars, CatP!vars
<1> QED BY <1>1, <1>2, <1>3
        DEF Next, Continue, TransactionRequest, TransactionContinue,
            PlaceRequest, PlaceContinue, vars, catVars

\* the place requests and the death of the process
LEMMA PlacesStep ==
    ASSUME [Next]_vars
    PROVE  [PlaceP!Next]_(PlaceP!vars)
<1>1. CASE Crash
  BY <1>1, SamePlaces DEF Crash, PlaceP!Next, PlaceP!Crash
<1>2. ASSUME NEW w \in Workers, PlaceRequest(w) \/ PlaceContinue(w)
      PROVE  PlaceP!Next
  BY <1>2, SamePlaces DEF PlaceRequest, PlaceContinue, PlaceP!Next
<1>3. CASE UNCHANGED placeVars
  BY <1>3 DEF placeVars, PlaceP!vars
<1> QED BY <1>1, <1>2, <1>3
        DEF Next, Continue, CategoryRequest, CategoryContinue,
            TransactionRequest, TransactionContinue, vars, placeVars

\* The categories controller behaves in the service as it does alone, whoever
\* brings the process down: what is proved of it holds of the service.
THEOREM CategoriesAreServed == Spec => Cat!Spec
<1>1. Init => Cat!Init
  BY DEF Init
<1>2. [Next]_vars => [Cat!Next]_(Cat!vars)
  BY CategoriesStep, SameCategories
<1> QED BY <1>1, <1>2, PTL DEF Spec, Cat!Spec

\* The places controller behaves in the service as it does alone: its requests
\* share nothing with the others but threads and deaths.
THEOREM PlacesAreServed == Spec => Place!Spec
<1>1. Init => Place!Init
  BY DEF Init
<1>2. [Next]_vars => [Place!Next]_(Place!vars)
  BY PlacesStep, SamePlaces
<1> QED BY <1>1, <1>2, PTL DEF Spec, Place!Spec

\* the inductive invariants of the two controllers
LEMMA CategoryInvariant == Spec => []CatP!IInv
<1>1. Init => CatP!Init
  BY SameCategories DEF Init
<1>2. [Next]_vars => [CatP!Next]_(CatP!vars)
  BY CategoriesStep
<1> QED BY <1>1, <1>2, CategoriesServed, CatP!Invariant, PTL DEF Spec, CatP!Spec

\* the inductive invariant of the places controller
LEMMA PlaceInvariant == Spec => []PlaceP!IInv
<1>1. Init => PlaceP!Init
  BY SamePlaces DEF Init
<1>2. [Next]_vars => [PlaceP!Next]_(PlaceP!vars)
  BY PlacesStep
<1> QED BY <1>1, <1>2, PlacesServed, PlaceP!Invariant, PTL DEF Spec, PlaceP!Spec

\* What a category request does to its collection is what Transactions lets
\* the categories do: one appears under a new id, or disappears.
LEMMA CategoriesAreTheEnvironment ==
    ASSUME CatP!IInv, [CatP!Next]_(CatP!vars)
    PROVE  \/ TransP!CategoriesStep
           \/ UNCHANGED TransP!catVars
<1> DEFINE user == [c \in CategoryIds |-> categories[c].user]
<1> USE CategoriesServed DEF CatP!IInv, CatP!PoolInv, CatP!TypeOK, CatP!Documents
<1>1. ASSUME NEW w \in Workers, CatP!category_insert_one(w)
      PROVE  TransP!CategoryInserted \/ UNCHANGED <<categories, catOwner>>
  <2>1. /\ catJob[w].id \in CategoryIds /\ catJob[w].user \in Users
        /\ catOwner[catJob[w].id] = NoUser
        /\ \/ UNCHANGED <<categories, catOwner>>
           \/ /\ categories' = [categories EXCEPT ![catJob[w].id] =
                     [user |-> catJob[w].user,
                      text |-> CatP!Merged(CatP!Blank, catJob[w].body)]]
              /\ catOwner' = [catOwner EXCEPT ![catJob[w].id] = catJob[w].user]
    BY <1>1, CatP!InsertEffect
  <2>2. ASSUME categories' = [categories EXCEPT ![catJob[w].id] =
                     [user |-> catJob[w].user,
                      text |-> CatP!Merged(CatP!Blank, catJob[w].body)]]
        PROVE  user' = [user EXCEPT ![catJob[w].id] = catJob[w].user]
    BY <2>1, <2>2
  <2> QED BY <2>1, <2>2 DEF TransP!CategoryInserted
<1>2. ASSUME NEW w \in Workers, CatP!category_update_one(w)
      PROVE  UNCHANGED <<user, catOwner>>
  <2>1. /\ catJob[w].id \in CategoryIds
        /\ catOwner' = catOwner
        /\ \/ UNCHANGED categories
           \/ categories' = [categories EXCEPT ![catJob[w].id].text =
                                catMem[catJob[w].object].text]
    BY <1>2, CatP!UpdateEffect
  <2>2. ASSUME NEW text,
               categories' = [categories EXCEPT ![catJob[w].id].text = text],
               NEW c \in CategoryIds
        PROVE  categories'[c].user = categories[c].user
    BY <2>2
  <2>3. \A c \in CategoryIds : categories'[c].user = categories[c].user
    BY <2>1, <2>2
  <2> QED BY <2>1, <2>3
<1>3. ASSUME NEW w \in Workers, CatP!category_delete_one_by_oid_and_user(w)
      PROVE  TransP!CategoryDeleted \/ UNCHANGED <<categories, catOwner>>
  <2>1. /\ catJob[w].user \in Users /\ catOwner' = catOwner
        /\ \/ UNCHANGED categories
           \/ /\ catJob[w].id \in CategoryIds
              /\ categories[catJob[w].id].user = catJob[w].user
              /\ categories' = [categories EXCEPT ![catJob[w].id] = CatP!Missing]
    BY <1>3, CatP!DeleteEffect
  <2>2. ASSUME catJob[w].id \in CategoryIds,
               categories' = [categories EXCEPT ![catJob[w].id] = CatP!Missing]
        PROVE  user' = [user EXCEPT ![catJob[w].id] = NoUser]
    BY <2>2 DEF CatP!Missing
  <2> QED BY <2>1, <2>2, PocketServiceAssumption DEF TransP!CategoryDeleted
<1>4. \/ UNCHANGED <<categories, catOwner>>
      \/ \E w \in Workers : \/ CatP!category_insert_one(w)
                            \/ CatP!category_update_one(w)
                            \/ CatP!category_delete_one_by_oid_and_user(w)
  BY CatP!OnlyWritesWrite
<1> QED BY <1>1, <1>2, <1>3, <1>4 DEF TransP!CategoriesStep, TransP!catVars

\* the transaction requests, or what the others do to the categories
LEMMA TransactionsStep ==
    ASSUME CatP!IInv, [Next]_vars
    PROVE  [TransP!Next]_(TransP!vars)
<1>1. CASE Crash
  <2>1. TransP!Restarted /\ UNCHANGED TransP!catVars
    BY <1>1, SameTransactions DEF Crash, Cat!Restarted, TransP!catVars
  <2> QED BY <2>1 DEF TransP!Next, TransP!Crash
<1>2. ASSUME NEW w \in Workers, TransactionRequest(w) \/ TransactionContinue(w)
      PROVE  TransP!Next
  <2>1. (TransP!Request(w) \/ TransP!Continue(w)) /\ UNCHANGED catVars
    BY <1>2, SameTransactions DEF TransactionRequest, TransactionContinue
  <2> QED BY <2>1 DEF TransP!Next, TransP!catVars, catVars
<1>3. CASE UNCHANGED transVars
  <2>1. TransP!CategoriesStep \/ UNCHANGED TransP!catVars
    BY CategoriesStep, CategoriesAreTheEnvironment
  <2> QED BY <1>3, <2>1
      DEF TransP!Next, TransP!vars, TransP!catVars, TransP!transVars, transVars
<1> QED BY <1>1, <1>2, <1>3
        DEF Next, Continue, CategoryRequest, CategoryContinue,
            PlaceRequest, PlaceContinue, vars, transVars

\* the service starts with no categories, as the environment does
LEMMA TransactionsInit == Init => TransP!Init
BY SameTransactions
DEF Init, Trans!InitTrans, TransP!Init, TransP!InitTrans, TransP!InitCategories,
    Cat!Init, Cat!Missing, Trans!Missing, TransP!Missing, Trans!Blank, TransP!Blank,
    Trans!Zeroed, TransP!Zeroed, Trans!Idle, TransP!Idle

\* The categories that the transactions controller was specified against, a
\* collection in which each id appears once and under one user, are those that
\* the category requests of the same service produce, with any number of
\* threads, lost replies, failed commands and deaths of the process.
THEOREM TransactionsAreServedHolds == Spec => TransactionsAreServed
<1>1. Init => Trans!Init
  BY TransactionsInit, SameTransactions
<1>2. CatP!IInv /\ [Next]_vars => [Trans!Next]_(Trans!vars)
  BY TransactionsStep, SameTransactions
<1> QED BY <1>1, <1>2, CategoryInvariant, PTL DEF Spec, TransactionsAreServed, Trans!Spec

\* the inductive invariants of the transactions controller
LEMMA TransactionInvariant == Spec => [](TransP!IInv /\ TransP!CategoryInv)
<1>1. CatP!IInv /\ [Next]_vars => [TransP!Next]_(TransP!vars)
  BY TransactionsStep
<1> QED BY <1>1, CategoryInvariant, TransactionsInit, TransactionsServed,
           TransP!Invariant, TransP!CategoryInvariant, PTL DEF Spec, TransP!Spec

-----------------------------------------------------------------------------
(***************************************************************************)
(* The service as three owned stores.                                      *)
(***************************************************************************)

\* the store of the categories
LEMMA SameCategoryStore ==
    /\ Cat!Promise!StoreInit <=> CatP!Promise!StoreInit
    /\ [Cat!Promise!StoreNext]_(Cat!Promise!storeVars) <=>
           [CatP!Promise!StoreNext]_(CatP!Promise!storeVars)
BY DEF
   Cat!Promise!StoreInit, Cat!Promise!StoreNext, Cat!Promise!storeVars,
   Cat!Promise!StoreStep, Cat!Promise!Accept, Cat!Promise!Insert,
   Cat!Promise!Modify, Cat!Promise!Remove, Cat!Promise!Failure,
   Cat!Promise!NothingToWrite, Cat!Promise!Look, Cat!Promise!Finish,
   Cat!Promise!Crash, Cat!Promise!Ops, Cat!Promise!Request, Cat!Promise!Resting,
   Cat!Promise!OwnedBy, Cat!Promise!Busy, Cat!Promise!Decided, Cat!Blank,
   Cat!Known, Cat!AnswerOf, CatP!Promise!StoreInit, CatP!Promise!StoreNext,
   CatP!Promise!storeVars, CatP!Promise!StoreStep, CatP!Promise!Accept,
   CatP!Promise!Insert, CatP!Promise!Modify, CatP!Promise!Remove,
   CatP!Promise!Failure, CatP!Promise!NothingToWrite, CatP!Promise!Look,
   CatP!Promise!Finish, CatP!Promise!Crash, CatP!Promise!Ops,
   CatP!Promise!Request, CatP!Promise!Resting, CatP!Promise!OwnedBy,
   CatP!Promise!Busy, CatP!Promise!Decided, CatP!Blank, CatP!Known, CatP!AnswerOf

\* the store of the transactions
LEMMA SameTransactionStore ==
    /\ Trans!Promise!StoreInit <=> TransP!Promise!StoreInit
    /\ [Trans!Promise!StoreNext]_(Trans!Promise!storeVars) <=>
           [TransP!Promise!StoreNext]_(TransP!Promise!storeVars)
BY DEF
   Trans!Promise!StoreInit, Trans!Promise!StoreNext, Trans!Promise!storeVars,
   Trans!Promise!StoreStep, Trans!Promise!Accept, Trans!Promise!Insert,
   Trans!Promise!Modify, Trans!Promise!Remove, Trans!Promise!Failure,
   Trans!Promise!NothingToWrite, Trans!Promise!Look, Trans!Promise!Finish,
   Trans!Promise!Crash, Trans!Promise!Ops, Trans!Promise!Request,
   Trans!Promise!Resting, Trans!Promise!OwnedBy, Trans!Promise!Busy,
   Trans!Promise!Decided, Trans!Blank, Trans!Known, Trans!AnswerOf, Trans!Data,
   TransP!Promise!StoreInit, TransP!Promise!StoreNext, TransP!Promise!storeVars,
   TransP!Promise!StoreStep, TransP!Promise!Accept, TransP!Promise!Insert,
   TransP!Promise!Modify, TransP!Promise!Remove, TransP!Promise!Failure,
   TransP!Promise!NothingToWrite, TransP!Promise!Look, TransP!Promise!Finish,
   TransP!Promise!Crash, TransP!Promise!Ops, TransP!Promise!Request,
   TransP!Promise!Resting, TransP!Promise!OwnedBy, TransP!Promise!Busy,
   TransP!Promise!Decided, TransP!Blank, TransP!Known, TransP!AnswerOf,
   TransP!Data

\* the store of the places
LEMMA SamePlaceStore ==
    /\ Place!Promise!StoreInit <=> PlaceP!Promise!StoreInit
    /\ [Place!Promise!StoreNext]_(Place!Promise!storeVars) <=>
           [PlaceP!Promise!StoreNext]_(PlaceP!Promise!storeVars)
BY DEF
   Place!Promise!StoreInit, Place!Promise!StoreNext, Place!Promise!storeVars,
   Place!Promise!StoreStep, Place!Promise!Accept, Place!Promise!Insert,
   Place!Promise!Modify, Place!Promise!Remove, Place!Promise!Failure,
   Place!Promise!NothingToWrite, Place!Promise!Look, Place!Promise!Finish,
   Place!Promise!Crash, Place!Promise!Ops, Place!Promise!Request,
   Place!Promise!Resting, Place!Promise!OwnedBy, Place!Promise!Busy,
   Place!Promise!Decided, Place!Blank, Place!Known, Place!AnswerOf, Place!Data,
   Place!PLACE_TYPE_NONE, Place!Missing, PlaceP!Promise!StoreInit,
   PlaceP!Promise!StoreNext, PlaceP!Promise!storeVars, PlaceP!Promise!StoreStep,
   PlaceP!Promise!Accept, PlaceP!Promise!Insert, PlaceP!Promise!Modify,
   PlaceP!Promise!Remove, PlaceP!Promise!Failure, PlaceP!Promise!NothingToWrite,
   PlaceP!Promise!Look, PlaceP!Promise!Finish, PlaceP!Promise!Crash,
   PlaceP!Promise!Ops, PlaceP!Promise!Request, PlaceP!Promise!Resting,
   PlaceP!Promise!OwnedBy, PlaceP!Promise!Busy, PlaceP!Promise!Decided,
   PlaceP!Blank, PlaceP!Known, PlaceP!AnswerOf, PlaceP!Data,
   PlaceP!PLACE_TYPE_NONE, PlaceP!Missing

\* the categories of the service are an owned store
LEMMA CategoryStore == Spec => Cat!ImplementsOwnedStore
<1>1. Init => CatP!Init
  BY SameCategories DEF Init
<1>2. [Next]_vars => [CatP!Next]_(CatP!vars)
  BY CategoriesStep
<1> QED BY <1>1, <1>2, CategoriesServed, CatP!Implements, SameCategoryStore, PTL
        DEF Spec, CatP!Spec, CatP!ImplementsOwnedStore, Cat!ImplementsOwnedStore,
            CatP!Promise!StoreSpec, Cat!Promise!StoreSpec

\* so are its transactions
LEMMA TransactionStore == Spec => Trans!ImplementsOwnedStore
<1>1. CatP!IInv /\ [Next]_vars => [TransP!Next]_(TransP!vars)
  BY TransactionsStep
<1> QED BY <1>1, CategoryInvariant, TransactionsInit, TransactionsServed,
           TransP!Implements, SameTransactionStore, PTL
        DEF Spec, TransP!Spec, TransP!ImplementsOwnedStore, Trans!ImplementsOwnedStore,
            TransP!Promise!StoreSpec, Trans!Promise!StoreSpec

\* and its places
LEMMA PlaceStore == Spec => Place!ImplementsOwnedStore
<1>1. Init => PlaceP!Init
  BY SamePlaces DEF Init
<1>2. [Next]_vars => [PlaceP!Next]_(PlaceP!vars)
  BY PlacesStep
<1> QED BY <1>1, <1>2, PlacesServed, PlaceP!Implements, SamePlaceStore, PTL
        DEF Spec, PlaceP!Spec, PlaceP!ImplementsOwnedStore, Place!ImplementsOwnedStore,
            PlaceP!Promise!StoreSpec, Place!Promise!StoreSpec

\* The service is three owned stores at once: whichever threads serve which
\* routes, each request on each collection takes effect at a single moment, on
\* documents of its own user, and a death of the process undoes nothing.
THEOREM ServiceImplementsOwnedStores ==
    Spec => /\ Cat!ImplementsOwnedStore
            /\ Trans!ImplementsOwnedStore
            /\ Place!ImplementsOwnedStore
BY CategoryStore, TransactionStore, PlaceStore

-----------------------------------------------------------------------------
(***************************************************************************)
(* A thread serves one request at a time, of one kind.                     *)
(***************************************************************************)

CategoryIdle(w) == catJob[w].pc = "idle"
TransactionIdle(w) == transJob[w].pc = "idle"
PlaceIdle(w) == placeJob[w].pc = "idle"

\* at most one of the three jobs of a thread is more than waiting
OneKind(w) ==
    /\ CategoryIdle(w) \/ TransactionIdle(w)
    /\ CategoryIdle(w) \/ PlaceIdle(w)
    /\ TransactionIdle(w) \/ PlaceIdle(w)

OneKindEach == \A w \in Workers : OneKind(w)

\* what the requests of one controller leave of the job of another thread, and
\* of a thread that has nothing to go on with
LEMMA CategoryJobs ==
    ASSUME CatP!IInv, NEW x \in Workers, Cat!Request(x) \/ Cat!Continue(x),
           NEW w \in Workers
    PROVE  /\ w # x => catJob'[w] = catJob[w]
           /\ Cat!Continue(x) => ~ CategoryIdle(x)
<1>1. CatP!Request(x) \/ CatP!Continue(x)
  BY SameCategories
<1>2. w # x => catJob'[w] = catJob[w]
  BY <1>1, CatP!OnlyItsJobMoves, CategoriesServed
<1>3. Cat!Continue(x) => ~ CategoryIdle(x)
  BY DEF Cat!Continue, Cat!category_insert_one,
     Cat!pocket_cache_user_increment_categories, Cat!pocket_category_return,
     Cat!category_get_by_oid_and_user, Cat!category_update_one,
     Cat!category_delete_one_by_oid_and_user,
     Cat!category_get_by_oid_and_user_to_json,
     Cat!categories_get_all_by_user_to_json, Cat!pocket_error_send_response,
     Cat!At, CategoryIdle
<1> QED BY <1>2, <1>3

\* the same of transactions
LEMMA TransactionJobs ==
    ASSUME TransP!IInv, NEW x \in Workers, Trans!Request(x) \/ Trans!Continue(x),
           NEW w \in Workers
    PROVE  /\ w # x => transJob'[w] = transJob[w]
           /\ Trans!Continue(x) => ~ TransactionIdle(x)
<1>1. TransP!Request(x) \/ TransP!Continue(x)
  BY SameTransactions
<1>2. w # x => transJob'[w] = transJob[w]
  BY <1>1, TransP!OnlyItsJobMoves, TransactionsServed
<1>3. Trans!Continue(x) => ~ TransactionIdle(x)
  BY DEF Trans!Continue, Trans!pocket_category_belongs_to_user,
     Trans!transaction_insert_one, Trans!pocket_cache_user_increment_transactions,
     Trans!pocket_trans_return, Trans!transaction_get_by_oid_and_user,
     Trans!transaction_update_one, Trans!transaction_delete_one_by_oid_and_user,
     Trans!transaction_get_by_oid_and_user_to_json,
     Trans!transactions_get_all_by_user_to_json, Trans!pocket_error_send_response,
     Trans!At, TransactionIdle
<1> QED BY <1>2, <1>3

\* the same of places
LEMMA PlaceJobs ==
    ASSUME PlaceP!IInv, NEW x \in Workers, Place!Request(x) \/ Place!Continue(x),
           NEW w \in Workers
    PROVE  /\ w # x => placeJob'[w] = placeJob[w]
           /\ Place!Continue(x) => ~ PlaceIdle(x)
<1>1. PlaceP!Request(x) \/ PlaceP!Continue(x)
  BY SamePlaces
<1>2. w # x => placeJob'[w] = placeJob[w]
  BY <1>1, PlaceP!OnlyItsJobMoves, PlacesServed
<1>3. Place!Continue(x) => ~ PlaceIdle(x)
  BY DEF Place!Continue, Place!place_insert_one,
     Place!pocket_cache_user_increment_places, Place!pocket_place_return,
     Place!place_get_by_oid_and_user, Place!place_update_one,
     Place!place_delete_one_by_oid_and_user,
     Place!place_get_by_oid_and_user_to_json,
     Place!places_get_all_by_user_to_json, Place!pocket_error_send_response,
     Place!At, PlaceIdle
<1> QED BY <1>2, <1>3

\* what is known of the three controllers at once
ControllersInv == CatP!IInv /\ TransP!IInv /\ TransP!CategoryInv /\ PlaceP!IInv

\* The invariants of the three controllers hold in the service.
LEMMA ControllersInvariant == Spec => []ControllersInv
BY CategoryInvariant, TransactionInvariant, PlaceInvariant, PTL DEF ControllersInv

\* A thread that continues a request has no other, and one that takes a
\* request had none.
LEMMA StepOneKind ==
    ASSUME ControllersInv, OneKindEach, [Next]_vars
    PROVE  OneKindEach'
<1> SUFFICES ASSUME NEW w \in Workers
             PROVE  OneKind(w)'
  BY DEF OneKindEach
<1> USE DEF ControllersInv, CategoryIdle, TransactionIdle, PlaceIdle
<1>1. OneKind(w)
  BY DEF OneKindEach
<1>2. CASE Crash
  BY <1>2 DEF Crash, Cat!Restarted, Trans!Restarted, Place!Restarted, Cat!Idle,
     Trans!Idle, Place!Idle, OneKind
<1>3. ASSUME NEW x \in Workers, CategoryRequest(x) \/ CategoryContinue(x)
      PROVE  OneKind(w)'
  <2>1. /\ transJob' = transJob /\ placeJob' = placeJob
        /\ (TransactionIdle(x) /\ PlaceIdle(x)) \/ Cat!Continue(x)
        /\ Cat!Request(x) \/ Cat!Continue(x)
    BY <1>3 DEF CategoryRequest, CategoryContinue, Free, Trans!At, Place!At,
       transVars, placeVars
  <2> QED BY <1>1, <2>1, CategoryJobs DEF OneKind
<1>4. ASSUME NEW x \in Workers, TransactionRequest(x) \/ TransactionContinue(x)
      PROVE  OneKind(w)'
  <2>1. /\ catJob' = catJob /\ placeJob' = placeJob
        /\ (CategoryIdle(x) /\ PlaceIdle(x)) \/ Trans!Continue(x)
        /\ Trans!Request(x) \/ Trans!Continue(x)
    BY <1>4 DEF TransactionRequest, TransactionContinue, Free, Cat!At, Place!At,
       catVars, placeVars
  <2> QED BY <1>1, <2>1, TransactionJobs DEF OneKind
<1>5. ASSUME NEW x \in Workers, PlaceRequest(x) \/ PlaceContinue(x)
      PROVE  OneKind(w)'
  <2>1. /\ catJob' = catJob /\ transJob' = transJob
        /\ (CategoryIdle(x) /\ TransactionIdle(x)) \/ Place!Continue(x)
        /\ Place!Request(x) \/ Place!Continue(x)
    BY <1>5 DEF PlaceRequest, PlaceContinue, Free, Cat!At, Trans!At,
       catVars, transVars
  <2> QED BY <1>1, <2>1, PlaceJobs DEF OneKind
<1>6. CASE UNCHANGED vars
  BY <1>1, <1>6 DEF vars, OneKind
<1> QED BY <1>2, <1>3, <1>4, <1>5, <1>6 DEF Next, Continue

\* No thread is ever in the middle of two requests of different kinds.
THEOREM OneKindInvariant == Spec => []OneKindEach
<1>1. Init => OneKindEach
  BY DEF Init, Cat!Init, Trans!InitTrans, Place!Init, Cat!Idle, Trans!Idle,
     Place!Idle, OneKindEach, OneKind, CategoryIdle, TransactionIdle, PlaceIdle
<1>2. ControllersInv /\ OneKindEach /\ [Next]_vars => OneKindEach'
  BY StepOneKind
<1> QED BY <1>1, <1>2, ControllersInvariant, PTL DEF Spec

-----------------------------------------------------------------------------
(***************************************************************************)
(* What each controller keeps when the three share threads and deaths.     *)
(***************************************************************************)

\* Through requests of all kinds on the same threads, lost replies and deaths
\* that one controller causes and all share, no pool has an object in two
\* hands, both free and in use, free and not wiped, or lost.
THEOREM PoolsAreSound ==
    Spec => [](Cat!PoolIsSound /\ Trans!PoolIsSound /\ Place!PoolIsSound)
<1>1. CatP!IInv => Cat!PoolIsSound
  BY DEF CatP!IInv, CatP!PoolInv, CatP!ObjectsAreExclusive,
     CatP!FreeObjectsAreWiped, CatP!NothingLeaks, CatP!Held, CatP!Zeroed,
     CatP!Blank, Cat!PoolIsSound, Cat!ObjectsAreExclusive,
     Cat!FreeObjectsAreWiped, Cat!NothingLeaks, Cat!Held, Cat!Zeroed, Cat!Blank
<1>2. TransP!IInv => Trans!PoolIsSound
  BY DEF TransP!IInv, TransP!PoolInv, TransP!ObjectsAreExclusive,
     TransP!FreeObjectsAreWiped, TransP!NothingLeaks, TransP!Held,
     TransP!Zeroed, TransP!Blank, Trans!PoolIsSound, Trans!Held,
     Trans!Zeroed, Trans!Blank
<1>3. PlaceP!IInv => Place!PoolIsSound
  BY DEF PlaceP!IInv, PlaceP!PoolInv, PlaceP!ObjectsAreExclusive,
     PlaceP!FreeObjectsAreWiped, PlaceP!NothingLeaks, PlaceP!Held,
     PlaceP!Zeroed, PlaceP!Blank, PlaceP!PLACE_TYPE_NONE, Place!PoolIsSound,
     Place!Held, Place!Zeroed, Place!Blank, Place!PLACE_TYPE_NONE
<1> QED BY <1>1, <1>2, <1>3, ControllersInvariant, PTL DEF ControllersInv

\* A death of the process between an insert and its count, a command that
\* Redis refuses or a reply that MongoDB loses leaves a counter behind, and
\* nothing brings one ahead of the inserts of its user.
THEOREM CountersNeverAhead ==
    ASSUME IsFiniteSet(Workers),
           IsFiniteSet(CategoryIds), IsFiniteSet(TransIds), IsFiniteSet(PlaceIds)
    PROVE  Spec => [](/\ Cat!StatsNeverAhead
                      /\ Trans!StatsNeverAhead
                      /\ Place!StatsNeverAhead)
<1>1. Init => CatP!Init /\ TransP!Init /\ PlaceP!Init
  BY TransactionsInit, SameCategories, SamePlaces DEF Init
<1>2. CatP!IInv /\ [Next]_vars => /\ [CatP!Next]_(CatP!vars)
                                  /\ [TransP!Next]_(TransP!vars)
                                  /\ [PlaceP!Next]_(PlaceP!vars)
  BY CategoriesStep, TransactionsStep, PlacesStep
<1>3. /\ CatP!Spec => []CatP!StatsNeverAhead
      /\ TransP!Spec => []TransP!StatsNeverAhead
      /\ PlaceP!Spec => []PlaceP!StatsNeverAhead
  BY SameCardinality, CatP!StatsNeverAheadHolds, TransP!StatsNeverAheadHolds,
     PlaceP!StatsNeverAheadHolds, CategoriesServed, TransactionsServed, PlacesServed
<1>4. /\ CatP!StatsNeverAhead => Cat!StatsNeverAhead
      /\ TransP!StatsNeverAhead => Trans!StatsNeverAhead
      /\ PlaceP!StatsNeverAhead => Place!StatsNeverAhead
  BY DEF CatP!StatsNeverAhead, CatP!Counting, CatP!Inserted, CatP!At,
     CatP!Cardinality, Cat!StatsNeverAhead, Cat!Counting, Cat!Inserted, Cat!At,
     Cat!Cardinality, TransP!StatsNeverAhead, TransP!Counting, TransP!Inserted,
     TransP!At, TransP!Cardinality, Trans!StatsNeverAhead, Trans!Counting,
     Trans!Inserted, Trans!At, Trans!Cardinality, PlaceP!StatsNeverAhead,
     PlaceP!Counting, PlaceP!Inserted, PlaceP!At, PlaceP!Cardinality,
     Place!StatsNeverAhead, Place!Counting, Place!Inserted, Place!At,
     Place!Cardinality
<1> QED BY <1>1, <1>2, <1>3, <1>4, CategoryInvariant, PTL
        DEF Spec, CatP!Spec, TransP!Spec, PlaceP!Spec

-----------------------------------------------------------------------------
(***************************************************************************)
(* The counters of the service.                                            *)
(***************************************************************************)

\* With an object for every thread nobody works on NULL.
LEMMA NobodyDies ==
    ASSUME ControllersInv, ~ MayCrash, IsFiniteSet(Workers),
           IsFiniteSet(CategoryObjects), IsFiniteSet(PlaceObjects),
           Cardinality(Workers) <= Cardinality(CategoryObjects),
           Cardinality(Workers) <= Cardinality(PlaceObjects)
    PROVE  ~ Crash
<1> SUFFICES ASSUME NEW w \in Workers
             PROVE  ~ Cat!NullDereferenced(w) /\ ~ Place!NullDereferenced(w)
  BY DEF Crash
<1> USE SameCardinality DEF ControllersInv
<1>1. ASSUME CatP!NullDereferenced(w)
      PROVE  FALSE
  <2>1. CatP!At(w, "idle") /\ CatP!pool_pop = {} /\ CatP!PoolInv
    BY <1>1 DEF CatP!NullDereferenced, CatP!IInv
  <2> QED BY <2>1, CatP!PoppingSucceeds, CategoriesServed
<1>2. ASSUME PlaceP!NullDereferenced(w)
      PROVE  FALSE
  <2>1. PlaceP!At(w, "idle") /\ PlaceP!pool_pop = {} /\ PlaceP!PoolInv
    BY <1>2 DEF PlaceP!NullDereferenced, PlaceP!IInv
  <2> QED BY <2>1, PlaceP!PoppingSucceeds, PlacesServed
<1> QED BY <1>1, <1>2, SameCategories, SamePlaces

\* A step in which the process lives is one for each controller.
LEMMA StepRunning ==
    ASSUME [Next]_vars, ~ Crash
    PROVE  CatP!Running /\ TransP!Running /\ PlaceP!Running
<1> USE SameCategories, SameTransactions, SamePlaces
        DEF CatP!Running, TransP!Running, PlaceP!Running
<1>1. /\ UNCHANGED catVars => CatP!Running
      /\ UNCHANGED transVars => TransP!Running
      /\ UNCHANGED placeVars => PlaceP!Running
  BY DEF catVars, CatP!vars, transVars, TransP!transVars, placeVars, PlaceP!vars
<1>2. ASSUME NEW w \in Workers, CategoryRequest(w) \/ CategoryContinue(w)
      PROVE  CatP!Running /\ UNCHANGED transVars /\ UNCHANGED placeVars
  BY <1>2 DEF CategoryRequest, CategoryContinue, transVars, placeVars
<1>3. ASSUME NEW w \in Workers, TransactionRequest(w) \/ TransactionContinue(w)
      PROVE  TransP!Running /\ UNCHANGED catVars /\ UNCHANGED placeVars
  BY <1>3 DEF TransactionRequest, TransactionContinue, catVars, placeVars
<1>4. ASSUME NEW w \in Workers, PlaceRequest(w) \/ PlaceContinue(w)
      PROVE  PlaceP!Running /\ UNCHANGED catVars /\ UNCHANGED transVars
  BY <1>4 DEF PlaceRequest, PlaceContinue, catVars, transVars
<1>5. CASE UNCHANGED vars
  BY <1>1, <1>5 DEF vars, catVars, transVars, placeVars
<1> QED BY <1>1, <1>2, <1>3, <1>4, <1>5 DEF Next, Continue

\* Whatever inserts fail, in a process that lives, with a Redis that works and
\* a MongoDB whose replies are not lost, each of the three counters of each
\* user is the number of inserts of that user less those a thread is about to
\* count.  Each thread needs an object of the pools whose create would go on
\* without one.
THEOREM CountersExactHolds ==
    ASSUME IsFiniteSet(Workers),
           IsFiniteSet(CategoryIds), IsFiniteSet(TransIds), IsFiniteSet(PlaceIds),
           IsFiniteSet(CategoryObjects), IsFiniteSet(PlaceObjects),
           Cardinality(Workers) <= Cardinality(CategoryObjects),
           Cardinality(Workers) <= Cardinality(PlaceObjects),
           ~ MayCrash, "lost" \notin DbOutcomes, "failed" \notin CacheOutcomes
    PROVE  Spec => []CountersExact
<1>1. Init => CountersExact
  <2>1. Init => CatP!StatsExact
    BY CatP!InitStatsExact, CategoriesServed, SameCategories DEF Init
  <2>2. Init => TransP!StatsExact
    BY TransP!InitStatsExact, TransactionsServed, TransactionsInit
  <2>3. Init => PlaceP!StatsExact
    BY PlaceP!InitStatsExact, PlacesServed, SamePlaces DEF Init
  <2> QED BY <2>1, <2>2, <2>3, SameCategories, SameTransactions, SamePlaces
          DEF CountersExact
<1>2. ASSUME ControllersInv, CountersExact, [Next]_vars
      PROVE  CountersExact'
  <2>1. CatP!Running /\ TransP!Running /\ PlaceP!Running
    BY <1>2, NobodyDies, StepRunning
  <2>2. /\ CatP!IsFiniteSet(CategoryIds) /\ CatP!IsFiniteSet(Workers)
        /\ TransP!IsFiniteSet(TransIds) /\ TransP!IsFiniteSet(Workers)
        /\ PlaceP!IsFiniteSet(PlaceIds) /\ PlaceP!IsFiniteSet(Workers)
    BY SameCardinality
  <2>3. CatP!StatsExact /\ TransP!StatsExact /\ PlaceP!StatsExact
    BY <1>2, SameCategories, SameTransactions, SamePlaces DEF CountersExact
  <2>4. CatP!StatsExact'
    BY <1>2, <2>1, <2>2, <2>3, CategoriesStep, CategoriesServed, CatP!StepStatsExact
       DEF ControllersInv
  <2>5. TransP!StatsExact'
    BY <1>2, <2>1, <2>2, <2>3, TransactionsStep, TransactionsServed,
       TransP!StepStatsExact DEF ControllersInv
  <2>6. PlaceP!StatsExact'
    BY <1>2, <2>1, <2>2, <2>3, PlacesStep, PlacesServed, PlaceP!StepStatsExact
       DEF ControllersInv
  <2>7. /\ CatP!StatsExact' => Cat!StatsExact'
        /\ TransP!StatsExact' => Trans!StatsExact'
        /\ PlaceP!StatsExact' => Place!StatsExact'
    BY SameCategories, SameTransactions, SamePlaces, PTL
  <2> QED BY <2>4, <2>5, <2>6, <2>7 DEF CountersExact
<1> QED BY <1>1, <1>2, ControllersInvariant, PTL DEF Spec

-----------------------------------------------------------------------------
(***************************************************************************)
(* One thread.                                                             *)
(***************************************************************************)

\* the transaction that a thread is about to insert is under a category that
\* is there, of the same user
CategoryIsThere(w) ==
    transJob[w].pc = "insert" =>
        /\ transJob[w].body.category \in CategoryIds
        /\ categories[transJob[w].body.category].user = transJob[w].user

\* The check finds the category, and nothing else happens until the insert.
LEMMA StepCategoryIsThere ==
    ASSUME NEW one, Workers = {one},
           ControllersInv, OneKindEach, CategoryIsThere(one), [Next]_vars
    PROVE  CategoryIsThere(one)'
<1> USE DEF ControllersInv, CategoryIdle, TransactionIdle, PlaceIdle
<1>1. CASE Crash
  BY <1>1 DEF Crash, Trans!Restarted, Trans!Idle, CategoryIsThere
<1>2. ASSUME CategoryRequest(one) \/ CategoryContinue(one)
      PROVE  CategoryIsThere(one)'
  <2>1. transJob' = transJob
    BY <1>2 DEF CategoryRequest, CategoryContinue, transVars
  <2>2. CategoryContinue(one) => ~ CategoryIdle(one)
    BY CategoryJobs DEF CategoryContinue
  <2>3. TransactionIdle(one)
    BY <1>2, <2>2 DEF CategoryRequest, Free, Trans!At, OneKindEach, OneKind
  <2> QED BY <2>1, <2>3 DEF CategoryIsThere
<1>3. ASSUME TransactionRequest(one) \/ TransactionContinue(one)
      PROVE  CategoryIsThere(one)'
  <2>1. TransP!Request(one) \/ TransP!Continue(one)
    BY <1>3, SameTransactions DEF TransactionRequest, TransactionContinue
  <2>2. categories' = categories
    BY <1>3 DEF TransactionRequest, TransactionContinue, catVars
  <2> SUFFICES ASSUME transJob'[one].pc = "insert"
               PROVE  CategoryIsThere(one)'
    BY DEF CategoryIsThere
  <2>3. CASE transJob'[one] = transJob[one]
    BY <2>2, <2>3 DEF CategoryIsThere
  <2>4. CASE TransP!pocket_category_belongs_to_user(one)
    <3> DEFINE body == transJob[one].body
    <3>1. transMem[transJob[one].object].data.category = body.category
      BY <2>4 DEF TransP!pocket_category_belongs_to_user, TransP!At, TransP!IInv,
         TransP!PoolInv, TransP!ObjectContents, TransP!KnowsItsObject, TransP!Made
    <3>2. transJob \in [Workers -> TransP!Jobs]
      BY DEF TransP!IInv, TransP!PoolInv, TransP!OwnTypeOK
    <3>3. ASSUME NEW pc, NEW error, TransP!MoveTo(one, pc, error)
          PROVE  /\ transJob'[one].pc = pc
                 /\ transJob'[one].body = body
                 /\ transJob'[one].user = transJob[one].user
      BY <3>2, <3>3 DEF TransP!MoveTo, TransP!Jobs
    <3>4. ~ TransP!NotFound(one)
      BY <3>3 DEF TransP!NotFound
    <3>5. TransP!category_query_by_oid_and_user(body.category, transJob[one].user) # {}
      BY <2>4, <3>1, <3>4 DEF TransP!pocket_category_belongs_to_user
    <3>6. /\ body.category \in CategoryIds
          /\ categories[body.category].user = transJob[one].user
      BY <3>5 DEF TransP!category_query_by_oid_and_user
    <3>7. transJob'[one].body = body /\ transJob'[one].user = transJob[one].user
      BY <2>4, <3>3, <3>4 DEF TransP!pocket_category_belongs_to_user
    <3> QED BY <2>2, <3>6, <3>7 DEF CategoryIsThere
  <2> QED BY <2>1, <2>3, <2>4, TransP!OnlyTheCheckInserts, TransactionsServed
<1>4. ASSUME PlaceRequest(one) \/ PlaceContinue(one)
      PROVE  CategoryIsThere(one)'
  <2>1. transJob' = transJob /\ categories' = categories
    BY <1>4 DEF PlaceRequest, PlaceContinue, catVars, transVars
  <2> QED BY <2>1 DEF CategoryIsThere
<1>5. CASE UNCHANGED vars
  BY <1>5 DEF vars, CategoryIsThere
<1> QED BY <1>1, <1>2, <1>3, <1>4, <1>5 DEF Next, Continue

\* An insert stores what the body said, with the category that was checked.
LEMMA InsertsUnderThatCategory ==
    ASSUME NEW one, Workers = {one},
           ControllersInv, CategoryIsThere(one), [Next]_vars
    PROVE  CategoryStillThereStep
<1> SUFFICES ASSUME TransP!Inserting(one)
             PROVE  LET t == transactions'[transJob[one].id] IN
                    /\ t.data.category \in CategoryIds
                    /\ categories[t.data.category].user = t.user
  BY SameTransactions DEF CategoryStillThereStep
<1> USE DEF ControllersInv
<1>1. transJob[one].pc = "insert" /\ transOwner' # transOwner
  BY DEF TransP!Inserting, TransP!At
<1>2. TransP!transaction_insert_one(one)
  <2>1. [TransP!Next]_(TransP!vars)
    BY TransactionsStep
  <2>2. \E x \in Workers : \/ TransP!transaction_insert_one(x)
                           \/ TransP!transaction_update_one(x)
                           \/ TransP!transaction_delete_one_by_oid_and_user(x)
    BY <1>1, <2>1, TransP!OnlyWritesWrite, TransactionsServed
  <2> QED BY <1>1, <2>2 DEF TransP!transaction_update_one,
             TransP!transaction_delete_one_by_oid_and_user, TransP!At
<1>3. /\ transJob[one].id \in TransIds
      /\ transactions' = [transactions EXCEPT ![transJob[one].id] =
            [user |-> transJob[one].user, data |-> TransP!Made(transJob[one].body)]]
  BY <1>1, <1>2, TransP!InsertEffect, TransactionsServed
<1>4. transactions \in [TransIds -> TransP!Documents]
  BY DEF TransP!IInv, TransP!PoolInv, TransP!OwnTypeOK
<1>5. transactions'[transJob[one].id] =
          [user |-> transJob[one].user, data |-> TransP!Made(transJob[one].body)]
  BY <1>3, <1>4
<1> QED BY <1>1, <1>5 DEF CategoryIsThere, TransP!Made

\* One request at a time, nothing deletes the category between the check of a
\* transaction create and its insert.
THEOREM CategoryStillThereHolds ==
    ASSUME NEW one, Workers = {one}
    PROVE  Spec => CategoryStillThere
<1>1. Init => CategoryIsThere(one)
  BY DEF Init, Trans!InitTrans, Trans!Idle, CategoryIsThere
<1>2. ControllersInv /\ OneKindEach /\ CategoryIsThere(one) /\ [Next]_vars
          => CategoryIsThere(one)'
  BY StepCategoryIsThere
<1>3. ControllersInv /\ CategoryIsThere(one) /\ [Next]_vars
          => [CategoryStillThereStep]_vars
  BY InsertsUnderThatCategory
<1> QED BY <1>1, <1>2, <1>3, ControllersInvariant, OneKindInvariant, PTL
        DEF Spec, CategoryStillThere

\* One request at a time, an update of a category in the running service
\* changes nothing that its body does not name.
THEOREM CategoryUpdatesKeepTheRestHolds ==
    ASSUME NEW one, Workers = {one}
    PROVE  Spec => CategoryUpdatesKeepTheRest
<1>1. Init => CatP!Init
  BY SameCategories DEF Init
<1>2. [Next]_vars => [CatP!Next]_(CatP!vars)
  BY CategoriesStep
<1>3. CatP!Spec => CatP!KeepsOtherFields
  BY CatP!KeepsOtherFieldsHolds, CategoriesServed
<1>4. [CatP!KeepsOtherFieldsStep]_(CatP!vars) => [Cat!KeepsOtherFieldsStep]_(Cat!vars)
  BY SameCategories
<1> QED BY <1>1, <1>2, <1>3, <1>4, PTL
        DEF Spec, CatP!Spec, CatP!KeepsOtherFields, Cat!KeepsOtherFields,
            CategoryUpdatesKeepTheRest

\* The same of a transaction, but for the amount.
THEOREM TransactionUpdatesKeepTheRestHolds ==
    ASSUME NEW one, Workers = {one}
    PROVE  Spec => TransactionUpdatesKeepTheRest
<1>1. CatP!IInv /\ [Next]_vars => [TransP!Next]_(TransP!vars)
  BY TransactionsStep
<1>2. TransP!Spec => TransP!KeepsOtherFields
  BY TransP!KeepsOtherFieldsHolds, TransactionsServed
<1>3. [TransP!KeepsOtherFieldsStep]_(TransP!vars) =>
          [Trans!KeepsOtherFieldsStep]_(Trans!vars)
  BY SameTransactions
<1> QED BY <1>1, <1>2, <1>3, TransactionsInit, CategoryInvariant, PTL
        DEF Spec, TransP!Spec, TransP!KeepsOtherFields, Trans!KeepsOtherFields,
            TransactionUpdatesKeepTheRest

\* And of a place, of whose fields it writes the name and the description.
THEOREM PlaceUpdatesKeepTheRestHolds ==
    ASSUME NEW one, Workers = {one}
    PROVE  Spec => PlaceUpdatesKeepTheRest
<1>1. Init => PlaceP!Init
  BY SamePlaces DEF Init
<1>2. [Next]_vars => [PlaceP!Next]_(PlaceP!vars)
  BY PlacesStep
<1>3. PlaceP!Spec => PlaceP!KeepsOtherFields
  BY PlaceP!KeepsOtherFieldsHolds, PlacesServed
<1>4. [PlaceP!KeepsOtherFieldsStep]_(PlaceP!vars) =>
          [Place!KeepsOtherFieldsStep]_(Place!vars)
  BY SamePlaces
<1> QED BY <1>1, <1>2, <1>3, <1>4, PTL
        DEF Spec, PlaceP!Spec, PlaceP!KeepsOtherFields, Place!KeepsOtherFields,
            PlaceUpdatesKeepTheRest

-----------------------------------------------------------------------------
(***************************************************************************)
(* What OwnedStore_proofs says of a store, for the three of the service.   *)
(***************************************************************************)

CatOwned == INSTANCE OwnedStore_proofs WITH
    Ids <- CategoryIds, Values <- [Fields -> Texts], Nothing <- Cat!Blank,
    store <- [i \in CategoryIds |-> [user |-> categories[i].user,
                                 value |-> categories[i].text]],
    spent <- Cat!Known,
    serving <- [w \in Workers |->
        [user |-> catJob[w].user, op |-> catJob[w].op, id |-> catJob[w].id,
         answer |-> Cat!AnswerOf(w), seen |-> catJob[w].found]]

TransOwned == INSTANCE OwnedStore_proofs WITH
    Ids <- TransIds, Values <- Trans!Data, Nothing <- Trans!Blank,
    store <- [i \in TransIds |-> [user |-> transactions[i].user,
                                 value |-> transactions[i].data]],
    spent <- Trans!Known,
    serving <- [w \in Workers |->
        [user |-> transJob[w].user, op |-> transJob[w].op, id |-> transJob[w].id,
         answer |-> Trans!AnswerOf(w), seen |-> transJob[w].found]]

PlaceOwned == INSTANCE OwnedStore_proofs WITH
    Ids <- PlaceIds, Values <- Place!Data, Nothing <- Place!Missing.data,
    store <- [i \in PlaceIds |-> [user |-> places[i].user,
                                 value |-> places[i].data]],
    spent <- Place!Known,
    serving <- [w \in Workers |->
        [user |-> placeJob[w].user, op |-> placeJob[w].op, id |-> placeJob[w].id,
         answer |-> Place!AnswerOf(w), seen |-> placeJob[w].found]]

\* what the categories controller implements is CatOwned
LEMMA CategoryPromise ==
    /\ Cat!Promise!StoreInit <=> CatOwned!StoreInit
    /\ [Cat!Promise!StoreNext]_(Cat!Promise!storeVars) <=>
           [CatOwned!StoreNext]_(CatOwned!storeVars)
BY DEF
   Cat!Promise!StoreInit, Cat!Promise!StoreNext, Cat!Promise!storeVars,
   Cat!Promise!StoreStep, Cat!Promise!Accept, Cat!Promise!Insert,
   Cat!Promise!Modify, Cat!Promise!Remove, Cat!Promise!Failure,
   Cat!Promise!NothingToWrite, Cat!Promise!Look, Cat!Promise!Finish,
   Cat!Promise!Crash, Cat!Promise!Ops, Cat!Promise!Request,
   Cat!Promise!Resting, Cat!Promise!OwnedBy, Cat!Promise!Busy,
   Cat!Promise!Decided, CatOwned!StoreInit, CatOwned!StoreNext,
   CatOwned!storeVars, CatOwned!StoreStep, CatOwned!Accept, CatOwned!Insert,
   CatOwned!Modify, CatOwned!Remove, CatOwned!Failure,
   CatOwned!NothingToWrite, CatOwned!Look, CatOwned!Finish, CatOwned!Crash,
   CatOwned!Ops, CatOwned!Request, CatOwned!Resting, CatOwned!OwnedBy,
   CatOwned!Busy, CatOwned!Decided

\* what the transactions controller implements is TransOwned
LEMMA TransactionPromise ==
    /\ Trans!Promise!StoreInit <=> TransOwned!StoreInit
    /\ [Trans!Promise!StoreNext]_(Trans!Promise!storeVars) <=>
           [TransOwned!StoreNext]_(TransOwned!storeVars)
BY DEF
   Trans!Promise!StoreInit, Trans!Promise!StoreNext, Trans!Promise!storeVars,
   Trans!Promise!StoreStep, Trans!Promise!Accept, Trans!Promise!Insert,
   Trans!Promise!Modify, Trans!Promise!Remove, Trans!Promise!Failure,
   Trans!Promise!NothingToWrite, Trans!Promise!Look, Trans!Promise!Finish,
   Trans!Promise!Crash, Trans!Promise!Ops, Trans!Promise!Request,
   Trans!Promise!Resting, Trans!Promise!OwnedBy, Trans!Promise!Busy,
   Trans!Promise!Decided, TransOwned!StoreInit, TransOwned!StoreNext,
   TransOwned!storeVars, TransOwned!StoreStep, TransOwned!Accept,
   TransOwned!Insert, TransOwned!Modify, TransOwned!Remove,
   TransOwned!Failure, TransOwned!NothingToWrite, TransOwned!Look,
   TransOwned!Finish, TransOwned!Crash, TransOwned!Ops, TransOwned!Request,
   TransOwned!Resting, TransOwned!OwnedBy, TransOwned!Busy, TransOwned!Decided

\* what the places controller implements is PlaceOwned
LEMMA PlacePromise ==
    /\ Place!Promise!StoreInit <=> PlaceOwned!StoreInit
    /\ [Place!Promise!StoreNext]_(Place!Promise!storeVars) <=>
           [PlaceOwned!StoreNext]_(PlaceOwned!storeVars)
BY DEF
   Place!Promise!StoreInit, Place!Promise!StoreNext, Place!Promise!storeVars,
   Place!Promise!StoreStep, Place!Promise!Accept, Place!Promise!Insert,
   Place!Promise!Modify, Place!Promise!Remove, Place!Promise!Failure,
   Place!Promise!NothingToWrite, Place!Promise!Look, Place!Promise!Finish,
   Place!Promise!Crash, Place!Promise!Ops, Place!Promise!Request,
   Place!Promise!Resting, Place!Promise!OwnedBy, Place!Promise!Busy,
   Place!Promise!Decided, PlaceOwned!StoreInit, PlaceOwned!StoreNext,
   PlaceOwned!storeVars, PlaceOwned!StoreStep, PlaceOwned!Accept,
   PlaceOwned!Insert, PlaceOwned!Modify, PlaceOwned!Remove,
   PlaceOwned!Failure, PlaceOwned!NothingToWrite, PlaceOwned!Look,
   PlaceOwned!Finish, PlaceOwned!Crash, PlaceOwned!Ops, PlaceOwned!Request,
   PlaceOwned!Resting, PlaceOwned!OwnedBy, PlaceOwned!Busy, PlaceOwned!Decided

\* A document of any collection belongs to one user from its insert on, and is
\* gone for good when it is gone.
OwnersStandStep ==
    /\ \A i \in Cat!Known : categories'[i].user \in {categories[i].user, NoUser}
    /\ \A i \in Trans!Known : transactions'[i].user \in {transactions[i].user, NoUser}
    /\ \A i \in Place!Known : places'[i].user \in {places[i].user, NoUser}

\* What changes a document of any collection is a request for it, of the user
\* whose document it is, or becomes, that has not been answered.
WritesAreOwnStep ==
    /\ \A i \in CategoryIds : categories'[i] # categories[i] =>
          \E w \in Workers :
              /\ catJob[w].id = i /\ catJob[w].user \in Users
              /\ Cat!AnswerOf(w) = "pending" /\ Cat!AnswerOf(w)' # "pending"
              /\ catJob[w].user = IF i \in Cat!Known THEN categories[i].user
                                                   ELSE categories'[i].user
    /\ \A i \in TransIds : transactions'[i] # transactions[i] =>
          \E w \in Workers :
              /\ transJob[w].id = i /\ transJob[w].user \in Users
              /\ Trans!AnswerOf(w) = "pending" /\ Trans!AnswerOf(w)' # "pending"
              /\ transJob[w].user = IF i \in Trans!Known THEN transactions[i].user
                                                   ELSE transactions'[i].user
    /\ \A i \in PlaceIds : places'[i] # places[i] =>
          \E w \in Workers :
              /\ placeJob[w].id = i /\ placeJob[w].user \in Users
              /\ Place!AnswerOf(w) = "pending" /\ Place!AnswerOf(w)' # "pending"
              /\ placeJob[w].user = IF i \in Place!Known THEN places[i].user
                                                   ELSE places'[i].user

\* what is promised of a category in terms of the collection
LEMMA CategorySteps ==
    Spec => [][CatOwned!OwnersStandStep /\ CatOwned!WritesAreOwnStep]_(CatOwned!storeVars)
<1>1. Cat!Blank \in [Fields -> Texts]
  BY PocketServiceAssumption DEF Cat!Blank
<1>2. CatOwned!StoreSpec => /\ [][CatOwned!OwnersStandStep]_(CatOwned!storeVars)
                          /\ [][CatOwned!WritesAreOwnStep]_(CatOwned!storeVars)
  BY <1>1, CatOwned!StoreStepsHold, PocketServiceAssumption
<1> QED BY <1>2, CategoryStore, CategoryPromise, PTL
        DEF Cat!ImplementsOwnedStore, Cat!Promise!StoreSpec, CatOwned!StoreSpec

\* The mapping undone: a document that changes changes the store.
LEMMA CategoryDocuments ==
    ASSUME CatP!IInv, CatP!IInv',
           [CatOwned!OwnersStandStep /\ CatOwned!WritesAreOwnStep]_(CatOwned!storeVars)
    PROVE  /\ \A i \in Cat!Known : categories'[i].user \in {categories[i].user, NoUser}
           /\ \A i \in CategoryIds : categories'[i] # categories[i] =>
                 \E w \in Workers :
                     /\ catJob[w].id = i /\ catJob[w].user \in Users
                     /\ Cat!AnswerOf(w) = "pending" /\ Cat!AnswerOf(w)' # "pending"
                     /\ catJob[w].user = IF i \in Cat!Known THEN categories[i].user
                                                          ELSE categories'[i].user
<1> DEFINE doc == [i \in CategoryIds |-> [user |-> categories[i].user,
                                  value |-> categories[i].text]]
           at == [w \in Workers |->
                    [user |-> catJob[w].user, op |-> catJob[w].op, id |-> catJob[w].id,
                     answer |-> Cat!AnswerOf(w), seen |-> catJob[w].found]]
<1>1. \A i \in CategoryIds : categories'[i] # categories[i] => doc'[i] # doc[i]
  <2> DEFINE D == [user : Users \cup {NoUser}, text : [Fields -> Texts]]
  <2>1. categories \in [CategoryIds -> D] /\ categories' \in [CategoryIds -> D]
    BY DEF CatP!IInv, CatP!PoolInv, CatP!TypeOK, CatP!Documents
  <2> QED BY <2>1
<1>2. ASSUME UNCHANGED doc, NEW i \in CategoryIds
      PROVE  categories'[i] = categories[i]
  BY <1>1, <1>2
<1>3. \A i \in CategoryIds :
         doc[i].user = categories[i].user /\ doc'[i].user = categories'[i].user
  OBVIOUS
<1>4. \A w \in Workers : /\ at[w].id = catJob[w].id /\ at[w].user = catJob[w].user
                         /\ at[w].answer = Cat!AnswerOf(w)
                         /\ at'[w].answer = Cat!AnswerOf(w)'
  OBVIOUS
<1>5. Cat!Known \subseteq CategoryIds
  BY DEF Cat!Known
<1>6. CASE UNCHANGED CatOwned!storeVars
  BY <1>2, <1>5, <1>6 DEF CatOwned!storeVars
<1>7. CASE CatOwned!OwnersStandStep /\ CatOwned!WritesAreOwnStep
  <2>1. \A i \in Cat!Known : categories'[i].user \in {categories[i].user, NoUser}
    BY <1>3, <1>5, <1>7 DEF CatOwned!OwnersStandStep
  <2>2. ASSUME NEW i \in CategoryIds, categories'[i] # categories[i]
        PROVE  \E w \in Workers :
                   /\ catJob[w].id = i /\ catJob[w].user \in Users
                   /\ Cat!AnswerOf(w) = "pending" /\ Cat!AnswerOf(w)' # "pending"
                   /\ catJob[w].user = IF i \in Cat!Known THEN categories[i].user
                                                        ELSE categories'[i].user
    <3>1. PICK w \in Workers :
             /\ at[w].id = i /\ at[w].user \in Users
             /\ at[w].answer = "pending" /\ at'[w].answer # "pending"
             /\ at[w].user = IF i \in Cat!Known THEN doc[i].user ELSE doc'[i].user
      BY <1>1, <1>7, <2>2 DEF CatOwned!WritesAreOwnStep, CatOwned!WriterOf
    <3> QED BY <1>3, <1>4, <3>1
  <2> QED BY <2>1, <2>2
<1> QED BY <1>6, <1>7

\* what is promised of a transaction in terms of the collection
LEMMA TransactionSteps ==
    Spec => [][TransOwned!OwnersStandStep /\ TransOwned!WritesAreOwnStep]_(TransOwned!storeVars)
<1>1. Trans!Blank \in Trans!Data
  BY PocketServiceAssumption DEF Trans!Blank, Trans!Data
<1>2. TransOwned!StoreSpec => /\ [][TransOwned!OwnersStandStep]_(TransOwned!storeVars)
                          /\ [][TransOwned!WritesAreOwnStep]_(TransOwned!storeVars)
  BY <1>1, TransOwned!StoreStepsHold, PocketServiceAssumption
<1> QED BY <1>2, TransactionStore, TransactionPromise, PTL
        DEF Trans!ImplementsOwnedStore, Trans!Promise!StoreSpec, TransOwned!StoreSpec

\* the same of transactions
LEMMA TransactionDocuments ==
    ASSUME TransP!IInv, TransP!IInv',
           [TransOwned!OwnersStandStep /\ TransOwned!WritesAreOwnStep]_(TransOwned!storeVars)
    PROVE  /\ \A i \in Trans!Known : transactions'[i].user \in {transactions[i].user, NoUser}
           /\ \A i \in TransIds : transactions'[i] # transactions[i] =>
                 \E w \in Workers :
                     /\ transJob[w].id = i /\ transJob[w].user \in Users
                     /\ Trans!AnswerOf(w) = "pending" /\ Trans!AnswerOf(w)' # "pending"
                     /\ transJob[w].user = IF i \in Trans!Known THEN transactions[i].user
                                                          ELSE transactions'[i].user
<1> DEFINE doc == [i \in TransIds |-> [user |-> transactions[i].user,
                                  value |-> transactions[i].data]]
           at == [w \in Workers |->
                    [user |-> transJob[w].user, op |-> transJob[w].op, id |-> transJob[w].id,
                     answer |-> Trans!AnswerOf(w), seen |-> transJob[w].found]]
<1>1. \A i \in TransIds : transactions'[i] # transactions[i] => doc'[i] # doc[i]
  <2> DEFINE D == [user : Users \cup {NoUser}, data : Trans!Data]
  <2>1. transactions \in [TransIds -> D] /\ transactions' \in [TransIds -> D]
    BY DEF TransP!IInv, TransP!PoolInv, TransP!OwnTypeOK, TransP!Documents,
       TransP!Data, Trans!Data
  <2> QED BY <2>1
<1>2. ASSUME UNCHANGED doc, NEW i \in TransIds
      PROVE  transactions'[i] = transactions[i]
  BY <1>1, <1>2
<1>3. \A i \in TransIds :
         doc[i].user = transactions[i].user /\ doc'[i].user = transactions'[i].user
  OBVIOUS
<1>4. \A w \in Workers : /\ at[w].id = transJob[w].id /\ at[w].user = transJob[w].user
                         /\ at[w].answer = Trans!AnswerOf(w)
                         /\ at'[w].answer = Trans!AnswerOf(w)'
  OBVIOUS
<1>5. Trans!Known \subseteq TransIds
  BY DEF Trans!Known
<1>6. CASE UNCHANGED TransOwned!storeVars
  BY <1>2, <1>5, <1>6 DEF TransOwned!storeVars
<1>7. CASE TransOwned!OwnersStandStep /\ TransOwned!WritesAreOwnStep
  <2>1. \A i \in Trans!Known : transactions'[i].user \in {transactions[i].user, NoUser}
    BY <1>3, <1>5, <1>7 DEF TransOwned!OwnersStandStep
  <2>2. ASSUME NEW i \in TransIds, transactions'[i] # transactions[i]
        PROVE  \E w \in Workers :
                   /\ transJob[w].id = i /\ transJob[w].user \in Users
                   /\ Trans!AnswerOf(w) = "pending" /\ Trans!AnswerOf(w)' # "pending"
                   /\ transJob[w].user = IF i \in Trans!Known THEN transactions[i].user
                                                        ELSE transactions'[i].user
    <3>1. PICK w \in Workers :
             /\ at[w].id = i /\ at[w].user \in Users
             /\ at[w].answer = "pending" /\ at'[w].answer # "pending"
             /\ at[w].user = IF i \in Trans!Known THEN doc[i].user ELSE doc'[i].user
      BY <1>1, <1>7, <2>2 DEF TransOwned!WritesAreOwnStep, TransOwned!WriterOf
    <3> QED BY <1>3, <1>4, <3>1
  <2> QED BY <2>1, <2>2
<1> QED BY <1>6, <1>7

\* what is promised of a place in terms of the collection
LEMMA PlaceSteps ==
    Spec => [][PlaceOwned!OwnersStandStep /\ PlaceOwned!WritesAreOwnStep]_(PlaceOwned!storeVars)
<1>1. Place!Missing.data \in Place!Data
  BY PocketServiceAssumption DEF Place!Missing, Place!Blank, Place!Data
<1>2. PlaceOwned!StoreSpec => /\ [][PlaceOwned!OwnersStandStep]_(PlaceOwned!storeVars)
                          /\ [][PlaceOwned!WritesAreOwnStep]_(PlaceOwned!storeVars)
  BY <1>1, PlaceOwned!StoreStepsHold, PocketServiceAssumption
<1> QED BY <1>2, PlaceStore, PlacePromise, PTL
        DEF Place!ImplementsOwnedStore, Place!Promise!StoreSpec, PlaceOwned!StoreSpec

\* the same of places
LEMMA PlaceDocuments ==
    ASSUME PlaceP!IInv, PlaceP!IInv',
           [PlaceOwned!OwnersStandStep /\ PlaceOwned!WritesAreOwnStep]_(PlaceOwned!storeVars)
    PROVE  /\ \A i \in Place!Known : places'[i].user \in {places[i].user, NoUser}
           /\ \A i \in PlaceIds : places'[i] # places[i] =>
                 \E w \in Workers :
                     /\ placeJob[w].id = i /\ placeJob[w].user \in Users
                     /\ Place!AnswerOf(w) = "pending" /\ Place!AnswerOf(w)' # "pending"
                     /\ placeJob[w].user = IF i \in Place!Known THEN places[i].user
                                                          ELSE places'[i].user
<1> DEFINE doc == [i \in PlaceIds |-> [user |-> places[i].user,
                                  value |-> places[i].data]]
           at == [w \in Workers |->
                    [user |-> placeJob[w].user, op |-> placeJob[w].op, id |-> placeJob[w].id,
                     answer |-> Place!AnswerOf(w), seen |-> placeJob[w].found]]
<1>1. \A i \in PlaceIds : places'[i] # places[i] => doc'[i] # doc[i]
  <2> DEFINE D == [user : Users \cup {NoUser}, data : Place!Data]
  <2>1. places \in [PlaceIds -> D] /\ places' \in [PlaceIds -> D]
    BY DEF PlaceP!IInv, PlaceP!PoolInv, PlaceP!TypeOK, PlaceP!Documents,
       PlaceP!Data, Place!Data
  <2> QED BY <2>1
<1>2. ASSUME UNCHANGED doc, NEW i \in PlaceIds
      PROVE  places'[i] = places[i]
  BY <1>1, <1>2
<1>3. \A i \in PlaceIds :
         doc[i].user = places[i].user /\ doc'[i].user = places'[i].user
  OBVIOUS
<1>4. \A w \in Workers : /\ at[w].id = placeJob[w].id /\ at[w].user = placeJob[w].user
                         /\ at[w].answer = Place!AnswerOf(w)
                         /\ at'[w].answer = Place!AnswerOf(w)'
  OBVIOUS
<1>5. Place!Known \subseteq PlaceIds
  BY DEF Place!Known
<1>6. CASE UNCHANGED PlaceOwned!storeVars
  BY <1>2, <1>5, <1>6 DEF PlaceOwned!storeVars
<1>7. CASE PlaceOwned!OwnersStandStep /\ PlaceOwned!WritesAreOwnStep
  <2>1. \A i \in Place!Known : places'[i].user \in {places[i].user, NoUser}
    BY <1>3, <1>5, <1>7 DEF PlaceOwned!OwnersStandStep
  <2>2. ASSUME NEW i \in PlaceIds, places'[i] # places[i]
        PROVE  \E w \in Workers :
                   /\ placeJob[w].id = i /\ placeJob[w].user \in Users
                   /\ Place!AnswerOf(w) = "pending" /\ Place!AnswerOf(w)' # "pending"
                   /\ placeJob[w].user = IF i \in Place!Known THEN places[i].user
                                                        ELSE places'[i].user
    <3>1. PICK w \in Workers :
             /\ at[w].id = i /\ at[w].user \in Users
             /\ at[w].answer = "pending" /\ at'[w].answer # "pending"
             /\ at[w].user = IF i \in Place!Known THEN doc[i].user ELSE doc'[i].user
      BY <1>1, <1>7, <2>2 DEF PlaceOwned!WritesAreOwnStep, PlaceOwned!WriterOf
    <3> QED BY <1>3, <1>4, <3>1
  <2> QED BY <2>1, <2>2
<1> QED BY <1>6, <1>7

\* Two users share a service and nothing else: no document of a category, a
\* transaction or a place changes hands or comes back, and every write is one
\* of a request of the document's own user that was waiting for its answer,
\* whichever threads serve what, and whatever fails, is lost or dies.
THEOREM UsersAreApart == Spec => [][OwnersStandStep /\ WritesAreOwnStep]_vars
<1> DEFINE P == [CatOwned!OwnersStandStep /\ CatOwned!WritesAreOwnStep]_(CatOwned!storeVars)
           Q == [TransOwned!OwnersStandStep /\ TransOwned!WritesAreOwnStep]_(TransOwned!storeVars)
           R == [PlaceOwned!OwnersStandStep /\ PlaceOwned!WritesAreOwnStep]_(PlaceOwned!storeVars)
<1>1. ControllersInv /\ ControllersInv' /\ P /\ Q /\ R
          => [OwnersStandStep /\ WritesAreOwnStep]_vars
  <2> HAVE ControllersInv /\ ControllersInv' /\ P /\ Q /\ R
  <2> QED BY CategoryDocuments, TransactionDocuments, PlaceDocuments
          DEF ControllersInv, OwnersStandStep, WritesAreOwnStep
<1> QED BY <1>1, CategorySteps, TransactionSteps, PlaceSteps, ControllersInvariant, PTL

=============================================================================
