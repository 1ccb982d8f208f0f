--------------------------- MODULE MCPocketService ---------------------------
(* Values for the constants of PocketService. *)
EXTENDS PocketService, TLC

CONSTANTS a, half

MCCategoryBodies == {[f \in Fields |-> Empty]}

MCTransBodies ==
    {[title |-> a, amount |-> half, category |-> c, place |-> Absent] : c \in CategoryIds}

Names(f, t) == [g \in Fields |-> IF g = f THEN t ELSE Absent]

\* no body, a malformed one, an empty object, and each field alone
MCAllCategoryBodies ==
    {NoBody, Malformed, [f \in Fields |-> Absent]}
        \cup {Names(f, t) : f \in Fields, t \in Texts}

Nameless == [title |-> Absent, amount |-> Absent, category |-> Absent,
             place |-> Absent]

\* the same for a transaction, with a create that names no category and one
\* that names no place
MCAllTransBodies ==
    MCTransBodies
        \cup {NoBody, Malformed, Nameless, [Nameless EXCEPT !.title = Empty],
              [title |-> a, amount |-> Zero, category |-> NoId, place |-> Absent]}
        \cup {[Nameless EXCEPT !.place = p] : p \in PlaceIds}

PlainPlace == [name |-> a, description |-> Absent, type |-> Absent,
               site |-> a, color |-> Absent]

Textless == [PlainPlace EXCEPT !.name = Absent, !.site = Absent]

\* the types there are, and one too many
MCNumbers == 0 .. 3

\* a place, and updates that name one text, the other, or none
MCAllPlaceBodies ==
    {NoBody, Malformed, Textless, [Textless EXCEPT !.name = Empty],
     [Textless EXCEPT !.description = a]}
        \cup {[PlainPlace EXCEPT !.type = n] : n \in {2, 3}}

MCPlaceBodies == {PlainPlace}

Symmetry == Permutations(Users) \cup Permutations(Workers)
                \cup Permutations(CategoryIds)

=============================================================================
