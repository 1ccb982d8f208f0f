------------------------------ MODULE MCRoles ------------------------------
(* Values for the constants of Roles. *)
EXTENDS Roles, TLC

CONSTANTS reader, writer, read, write, long, cut

MCCut == [a \in Actions |-> IF a = long THEN cut ELSE a]

Doc(name, actions) == [name |-> name, actions |-> actions]

\* two documents of one name, a document that fills the array, one with an
\* action twice and one with more than fit
MCCollections ==
    {<<Doc(reader, <<read>>), Doc(reader, <<write>>), Doc(writer, <<long, read, write>>)>>,
     <<Doc(writer, <<write, write>>), Doc(reader, <<read, write, read, write>>)>>,
     << >>}

=============================================================================
