------------------------------- MODULE Tables -------------------------------
(***************************************************************************)
(* A table of the database, as far as the use cases see it: a function     *)
(* from the ids of its rows to the rows.                                   *)
(***************************************************************************)

\* The table after the INSERT of a row with an id of its own.
Inserted(table, id, row) == [x \in DOMAIN table \cup {id} |-> IF x = id THEN row ELSE table[x]]
=============================================================================
