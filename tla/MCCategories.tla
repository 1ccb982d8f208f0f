---------------------------- MODULE MCCategories ----------------------------
(* Values for the constants of Categories. *)
EXTENDS Categories, TLC

Only(f, t) == [g \in Fields |-> IF g = f THEN t ELSE Absent]

\* no body, a malformed one, an empty object, and each field alone
MCBodies ==
    {NoBody, Malformed, [g \in Fields |-> Absent]}
        \cup {Only(f, t) : f \in Fields, t \in Texts \ {Empty}}

\* users, threads and ids are interchangeable (used with no liveness property)
Symmetry == Permutations(Users) \cup Permutations(Workers) \cup Permutations(Ids)

=============================================================================
