--------------------------- MODULE MCTransactions ---------------------------
(* Values for the constants of Transactions. *)
EXTENDS Transactions, TLC

CONSTANTS a, five, half, p

Nameless == [title |-> Absent, amount |-> Absent, category |-> Absent,
             place |-> Absent]

\* a body with everything, one without a place, the place alone, an amount
\* without a fraction
Full(c) == [title |-> a, amount |-> half, category |-> c, place |-> p]
Placeless(c) == [Full(c) EXCEPT !.place = Absent]
OnlyPlace == [Nameless EXCEPT !.place = p]
Whole(c) == [Full(c) EXCEPT !.amount = five]

MCFewBodies == {Placeless(c) : c \in CategoryIds} \cup {OnlyPlace}
MCWholeBodies == {Whole(c) : c \in CategoryIds}
MCHalfBodies == {Full(c) : c \in CategoryIds}

\* users, threads and ids are interchangeable (used with no liveness property)
Symmetry == Permutations(Users) \cup Permutations(Workers)
                \cup Permutations(Ids) \cup Permutations(CategoryIds)

=============================================================================
