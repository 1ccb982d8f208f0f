------------------------------ MODULE MCPlaces ------------------------------
(* Values for the constants of Places. *)
EXTENDS Places, TLC

CONSTANT a

Site == [name |-> a, description |-> Absent, type |-> PLACE_TYPE_SITE,
         site |-> a, color |-> a]

\* a create of a type that place.h does not know, and an update of no more
\* than the description
Odd == [name |-> Absent, description |-> a, type |-> -1,
        site |-> a, color |-> Absent]

MCFewBodies == {Site, Odd}

MCNumbers == {-1, PLACE_TYPE_NONE, PLACE_TYPE_SITE}

\* users, threads, ids and objects are interchangeable (for safety)
Symmetry == Permutations(Users) \cup Permutations(Workers)
                \cup Permutations(Ids) \cup Permutations(Objects)

=============================================================================
