------------------------------- MODULE Roles -------------------------------
(***************************************************************************)
(* Roles: the Role of src/models/role.c, with an array of actions and their*)
(* number, and the list of roles that src/controllers/roles.c reads at     *)
(* start and searches.                                                     *)
(*                                                                         *)
(* A caller has one Role of its own, which it creates, fills from the      *)
(* database and changes.  The code checks neither that an action fits into *)
(* the array nor that one to be removed is there: both are steps of the    *)
(* model, and the properties say what holds up to them and after them.     *)
(***************************************************************************)
EXTENDS Integers, Sequences, FiniteSets

CONSTANTS
    Names, Actions,
    Cut,                \* what strncpy () leaves of the name of an action
    Unset,              \* a cell of the array that was never written
    ROLE_ACTIONS_SIZE,
    UINT,               \* the number of values of an unsigned int
    Collections,        \* what the collection of roles may hold
    MaxGiven,           \* bound: how often one action is given to a role
    NoRole, NoRoles     \* NULL

Documents == [name : Names, actions : Seq(Actions)]

ASSUME RolesAssumption ==
    /\ ROLE_ACTIONS_SIZE \in Nat \ {0}
    /\ UINT \in Nat /\ UINT > ROLE_ACTIONS_SIZE + 1
    /\ Cut \in [Actions -> Actions]
    /\ \A a \in Actions : Cut[Cut[a]] = Cut[a]
    /\ Unset \notin Actions
    /\ Collections \subseteq Seq(Documents)
    /\ MaxGiven \in Nat

VARIABLES
    docs,       \* the collection, in the order of the cursor
    roles,      \* the list: a role for each document for which there was memory
    role,       \* the caller's own role
    given,      \* history: how often each action was given to it and not taken
    missed,     \* history: an action was to be taken that it did not have
    broken      \* history: something outside of an array was written

vars == <<docs, roles, role, given, missed, broken>>

Cells == 0 .. ROLE_ACTIONS_SIZE - 1

Roles == [name : Names, n_actions : 0 .. UINT - 1,
          actions : [Cells -> Actions \cup {Unset}]]

Nothing == [a \in Actions |-> 0]

Init ==
    /\ docs \in Collections
    /\ roles = NoRoles
    /\ role = NoRole
    /\ given = Nothing
    /\ missed = FALSE
    /\ broken = FALSE

-----------------------------------------------------------------------------
(***************************************************************************)
(* The model of a role.                                                    *)
(***************************************************************************)

Fits(n) == n <= ROLE_ACTIONS_SIZE

Listed(r) == {i \in Cells : i < r.n_actions}

role_new(name) == [name |-> name, n_actions |-> 0,
                   actions |-> [i \in Cells |-> Unset]]

Added(r, a) ==
    [name |-> r.name,
     n_actions |-> (r.n_actions + 1) % UINT,
     actions |-> [r.actions EXCEPT ![r.n_actions] = Cut[a]]]

\* the cells that hold an action, and the first of them, where the search
\* for an action ends; it ends at n_actions when there is none
Holding(r, a) == {i \in Listed(r) : r.actions[i] = a}

Found(r, a, idx) ==
    IF Holding(r, a) = {} THEN idx = r.n_actions
    ELSE idx \in Holding(r, a) /\ \A i \in Holding(r, a) : idx <= i

\* mutant: the shift begins one cell too late
ShiftedLate(r, idx) ==
    [r EXCEPT !.actions = [i \in Cells |->
        IF idx < i /\ i < r.n_actions - 1 THEN r.actions[i + 1] ELSE r.actions[i]]]

\* every action behind idx moves up by one; the last cell keeps what it has
Shifted(r, idx) ==
    [r EXCEPT !.actions = [i \in Cells |->
        IF idx <= i /\ i < r.n_actions - 1 THEN r.actions[i + 1] ELSE r.actions[i]]]

\* mutant: no wrap
CountedDown(n) == n - 1

\* mutant: the last action stays
CountedDownAboveOne(n) == IF n > 1 THEN n - 1 ELSE n

\* n_actions is unsigned: from 0 it becomes the largest number
Less(n) == (n + UINT - 1) % UINT

\* a single action goes whatever its name is
Removed(r, idx) ==
    LET s == IF r.n_actions > 1 THEN Shifted(r, idx) ELSE r IN
    [s EXCEPT !.n_actions = Less(@)]

\* The answers that are possible: behind the end of the array, where the loop
\* goes when n_actions has wrapped, anything may be found.
role_check_action(r, a) ==
    IF Holding(r, a) # {} THEN {TRUE}
    ELSE IF Fits(r.n_actions) THEN {FALSE} ELSE BOOLEAN

\* the actions of a document go behind those the role has already
role_doc_parse(r, doc) ==
    LET n == r.n_actions IN
    [name |-> doc.name,
     n_actions |-> n + Len(doc.actions),
     actions |-> [i \in Cells |->
        IF n <= i /\ i < n + Len(doc.actions) THEN Cut[doc.actions[i - n + 1]]
        ELSE r.actions[i]]]

\* how often a document gives an action
Gives(doc, a) ==
    Cardinality({k \in 1 .. Len(doc.actions) : Cut[doc.actions[k]] = a})

-----------------------------------------------------------------------------
(***************************************************************************)
(* The list of the controller.                                             *)
(***************************************************************************)

\* mutant: the search goes on behind the first role of the name
AnyOfName(name) == {k \in DOMAIN roles : roles[k].name = name}

\* the first one of the name
pocket_roles_get_by_name(name) ==
    {k \in DOMAIN roles :
        /\ roles[k].name = name
        /\ \A j \in DOMAIN roles : j < k => roles[j].name # name}

pocket_role_search_and_check_action(name, a) ==
    \E k \in pocket_roles_get_by_name(name) : Holding(roles[k], a) # {}

-----------------------------------------------------------------------------
(***************************************************************************)
(* Steps.                                                                  *)
(***************************************************************************)

\* a write behind the end of an array: what the process does from here on is
\* not defined
Break ==
    /\ broken' = TRUE
    /\ UNCHANGED <<docs, roles, role, given, missed>>

\* Every document becomes a role if role_new () has memory for it.
pocket_roles_init ==
    /\ ~broken /\ roles = NoRoles
    /\ \E kept \in SUBSET DOMAIN docs :
        IF \A k \in kept : Fits(Len(docs[k].actions))
        THEN /\ roles' = [k \in kept |-> role_doc_parse(role_new(docs[k].name), docs[k])]
             /\ UNCHANGED <<docs, role, given, missed, broken>>
        ELSE Break

role_create ==
    /\ ~broken /\ role = NoRole
    /\ \E name \in Names : role' = role_new(name)
    /\ given' = Nothing
    /\ missed' = FALSE
    /\ UNCHANGED <<docs, roles, broken>>

role_delete ==
    /\ ~broken /\ role # NoRole
    /\ role' = NoRole
    /\ UNCHANGED <<docs, roles, given, missed, broken>>

role_add_action(a) ==
    /\ ~broken /\ role # NoRole
    /\ given[Cut[a]] < MaxGiven
    /\ IF role.n_actions \in Cells
       THEN /\ role' = Added(role, a)
            /\ given' = [given EXCEPT ![Cut[a]] = @ + 1]
            /\ UNCHANGED <<docs, roles, missed, broken>>
       ELSE Break

role_remove_action(a) ==
    /\ ~broken /\ role # NoRole
    /\ IF Fits(role.n_actions)
       THEN /\ \E idx \in 0 .. ROLE_ACTIONS_SIZE :
                 Found(role, a, idx) /\ role' = Removed(role, idx)
            /\ IF Holding(role, a) = {}
               THEN missed' = TRUE /\ UNCHANGED given
               ELSE given' = [given EXCEPT ![a] = @ - 1] /\ UNCHANGED missed
            /\ UNCHANGED <<docs, roles, broken>>
       ELSE Break

\* Finds a document of the name, or nothing, and reads it into the role.
role_get_by_name(name) ==
    /\ ~broken /\ role # NoRole
    /\ \E k \in DOMAIN docs :
        /\ docs[k].name = name
        /\ \A a \in Actions : given[a] + Gives(docs[k], a) <= MaxGiven
        /\ IF docs[k].actions = << >> \/ Fits(role.n_actions + Len(docs[k].actions))
           THEN /\ role' = role_doc_parse(role, docs[k])
                /\ given' = [a \in Actions |-> given[a] + Gives(docs[k], a)]
                /\ UNCHANGED <<docs, roles, missed, broken>>
           ELSE Break

\* the process ends and another one begins
Restart ==
    /\ roles' = NoRoles
    /\ role' = NoRole
    /\ given' = Nothing
    /\ missed' = FALSE
    /\ broken' = FALSE
    /\ UNCHANGED docs

Next ==
    \/ pocket_roles_init
    \/ role_create
    \/ role_delete
    \/ \E a \in Actions : role_add_action(a) \/ role_remove_action(a)
    \/ \E name \in Names : role_get_by_name(name)
    \/ Restart

Spec == Init /\ [][Next]_vars

-----------------------------------------------------------------------------
(***************************************************************************)
(* Properties.                                                             *)
(***************************************************************************)

\* The type invariant.
TypeOK ==
    /\ docs \in Collections
    /\ roles = NoRoles \/ DOMAIN roles \subseteq DOMAIN docs
    /\ role \in Roles \cup {NoRole}
    /\ given \in [Actions -> 0 .. MaxGiven]
    /\ missed \in BOOLEAN
    /\ broken \in BOOLEAN

Occurrences(r, a) == Cardinality(Holding(r, a))

\* As long as callers remove only actions that the role has, the array holds
\* each action as often as it was added, or read, and not removed: whatever
\* the order of the calls, and where in the array the action is.
HoldsWhatWasGiven ==
    role # NoRole /\ ~missed =>
        \A a \in Actions : Occurrences(role, a) = given[a]

\* Also when callers remove actions that it does not have, by which it loses
\* others: a role grants nothing that it was not given, unless so many were
\* removed that the number of its actions has wrapped.
GrantsNothingElse ==
    role # NoRole /\ Fits(role.n_actions) =>
        \A a \in Actions : TRUE \in role_check_action(role, a) => given[a] > 0

FirstDocument(name) ==
    {k \in DOMAIN docs :
        docs[k].name = name /\ \A j \in DOMAIN docs : docs[j].name = name => k <= j}

\* The list says of a name and an action what the first document of that name
\* says.  When there was no memory for a document the next one of the name
\* may speak for it, and never one of another name.
SearchSaysWhatIsStored ==
    roles # NoRoles =>
        \A name \in Names, a \in Actions :
            LET says == pocket_role_search_and_check_action(name, a) IN
            /\ says => \E k \in DOMAIN docs : docs[k].name = name /\ Gives(docs[k], a) > 0
            /\ \A k \in FirstDocument(name) \cap DOMAIN roles : says <=> Gives(docs[k], a) > 0

=============================================================================
