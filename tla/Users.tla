-------------------------------- MODULE Users --------------------------------
(***************************************************************************)
(* The user of a request: src/controllers/users.c with src/models/user.c.  *)
(*                                                                         *)
(* cerver calls pocket_user_parse_from_json () with the claims of the token*)
(* of a private request and pocket_user_delete () after the handler.  The  *)
(* first takes a new User from malloc (), the second puts it into          *)
(* users_pool, which only pocket_user_get_by_email () takes from.  None of *)
(* the routes calls that one; a handler that would is part of the model    *)
(* (Lookups), so that the pool is used in both directions.                 *)
(***************************************************************************)
EXTENDS FiniteSets

CONSTANTS
    People, Workers,
    UserObjects, UserPoolInit,
    Lookups,            \* is there a handler that looks users up?
    NoUser, NoObject

VARIABLES
    pool,           \* the free objects of users_pool
    allocated,      \* the objects that user_new () created
    mem,            \* a User: whose it is, and whose the iat in it is
    serving         \* what each worker does with users

userVars == <<pool, allocated, mem, serving>>

Zeroed == [id |-> NoUser, iat |-> NoUser]

\* whole is FALSE for a token some of whose claims are missing
Idle == [pc |-> "idle", token |-> NoUser, whole |-> TRUE, object |-> NoObject]

\* before users_pool exists
UsersInit ==
    /\ pool = {}
    /\ allocated = {}
    /\ mem = [o \in UserObjects |-> Zeroed]
    /\ serving = [w \in Workers |-> Idle]

At(w, pc) == serving[w].pc = pc

Fresh == UserObjects \ allocated

pocket_users_init ==
    /\ pool' = UserPoolInit
    /\ allocated' = UserPoolInit
    /\ mem' = [o \in UserObjects |-> Zeroed]
    /\ UNCHANGED serving

\* pool_delete () frees what is in the pool
pocket_users_end ==
    /\ pool' = {}
    /\ allocated' = allocated \ pool
    /\ UNCHANGED <<mem, serving>>

-----------------------------------------------------------------------------

\* mutant: the user is given back and returned as well
KeptToo(w, p, o) ==
    /\ pool' = pool \cup {o}
    /\ \E iat \in {p, NoUser} : mem' = [mem EXCEPT ![o].id = NoUser, ![o].iat = iat]
    /\ serving' = [serving EXCEPT ![w] =
          [pc |-> "handle", token |-> p, whole |-> FALSE, object |-> o]]

\* mutant: the pointer is cleared before the push
NulledFirst(w, p, o) ==
    /\ pool' = pool \cup {NoObject}
    /\ mem' = [mem EXCEPT ![o] = [id |-> NoUser, iat |-> p]]
    /\ serving' = [serving EXCEPT ![w] =
          [pc |-> "handle", token |-> p, whole |-> FALSE, object |-> NoObject]]

\* A claim is missing: json_unpack () has written iat or has not come to it,
\* the rest stayed in local variables; the handler is called without a user.
Unpacked(w, p, o) ==
    /\ pool' = pool \cup {o}
    /\ \E iat \in {p, NoUser} : mem' = [mem EXCEPT ![o] = [id |-> NoUser, iat |-> iat]]
    /\ serving' = [serving EXCEPT ![w] =
          [pc |-> "handle", token |-> p, whole |-> FALSE, object |-> NoObject]]

pocket_user_parse_from_json(w) ==
    /\ At(w, "idle")
    /\ \E p \in People :
        \/ \E o \in Fresh :
            /\ allocated' = allocated \cup {o}
            /\ \/ /\ mem' = [mem EXCEPT ![o] = [id |-> p, iat |-> p]]
                  /\ serving' = [serving EXCEPT ![w] =
                        [pc |-> "handle", token |-> p, whole |-> TRUE, object |-> o]]
                  /\ UNCHANGED pool
               \/ Unpacked(w, p, o)
        \/ /\ Fresh = {}                \* user_new () returns NULL
           /\ serving' = [serving EXCEPT ![w] =
                 [pc |-> "handle", token |-> p, whole |-> TRUE, object |-> NoObject]]
           /\ UNCHANGED <<pool, allocated, mem>>

\* mutant: no memset ()
WipedNot(o) == mem

Wiped(o) == [mem EXCEPT ![o] = Zeroed]

\* also the end of a request without a user, for which nothing is to be done
pocket_user_delete(w) ==
    LET o == serving[w].object IN
    /\ At(w, "handle")
    /\ serving' = [serving EXCEPT ![w] = Idle]
    /\ IF o = NoObject
       THEN UNCHANGED <<pool, mem>>
       ELSE mem' = Wiped(o) /\ pool' = pool \cup {o}
    /\ UNCHANGED allocated

-----------------------------------------------------------------------------
(***************************************************************************)
(* Looking a user up takes two steps, as there is a query in between.      *)
(***************************************************************************)

user_pool_pop == IF pool # {} THEN pool ELSE Fresh

pocket_user_get_by_email(w) ==
    /\ Lookups
    /\ At(w, "idle")
    /\ \E p \in People, o \in user_pool_pop :
        /\ pool' = pool \ {o}
        /\ allocated' = allocated \cup {o}
        /\ mem' = [mem EXCEPT ![o] = IF pool # {} THEN @ ELSE Zeroed]
        /\ serving' = [serving EXCEPT ![w] =
              [pc |-> "lookup", token |-> p, whole |-> TRUE, object |-> o]]

\* the document has no iat: the object keeps the one it had
user_get_by_email(w) ==
    LET o == serving[w].object IN
    /\ At(w, "lookup")
    /\ \/ /\ mem' = [mem EXCEPT ![o].id = serving[w].token]
          /\ serving' = [serving EXCEPT ![w].pc = "handle"]
          /\ UNCHANGED pool
       \/ /\ pool' = pool \cup {o}
          /\ serving' = [serving EXCEPT ![w] = Idle]
          /\ UNCHANGED mem
    /\ UNCHANGED allocated

-----------------------------------------------------------------------------
(***************************************************************************)
(* Properties.                                                             *)
(***************************************************************************)

UserHeld(w) == {serving[w].object} \cap UserObjects

UsersTypeOK ==
    /\ pool \subseteq UserObjects
    /\ allocated \subseteq UserObjects
    /\ mem \in [UserObjects -> [id : People \cup {NoUser}, iat : People \cup {NoUser}]]
    /\ serving \in [Workers -> [pc : {"idle", "lookup", "handle"},
                                token : People \cup {NoUser},
                                whole : BOOLEAN,
                                object : UserObjects \cup {NoObject}]]

\* users_pool: an object is free or in the hands of one request and none is
\* lost, and a free one is nobody's: the identity of a user does not stay in
\* the pool, also when only a part of a token could be read.
FreeUsersAreNobody ==
    /\ allocated = pool \cup UNION {UserHeld(w) : w \in Workers}
    /\ \A w \in Workers :
        /\ UserHeld(w) \cap pool = {}
        /\ \A v \in Workers \ {w} : UserHeld(w) \cap UserHeld(v) = {}
    /\ \A o \in pool : mem[o].id = NoUser

\* Until it ends, a request acts for the person of its own token, whatever
\* other threads decode, wipe and look up; and for nobody when the token is
\* not whole.
ActsForItsToken ==
    \A w \in Workers : At(w, "handle") /\ serving[w].object # NoObject =>
        /\ serving[w].whole
        /\ mem[serving[w].object].id = serving[w].token

=============================================================================
