--------------------------- MODULE ReadCommitted ---------------------------
(***************************************************************************)
(* PostgreSQL at READ COMMITTED, as far as the use cases depend on it: a   *)
(* row has a committed version and, while a transaction that wrote it is   *)
(* open, a working version of the worker that holds its lock.  A statement *)
(* sees its own worker's versions and the committed ones of all others; a  *)
(* transaction writes all its rows back at COMMIT and none at ROLLBACK.    *)
(***************************************************************************)
CONSTANTS Worker, NoWorker, Row

VARIABLES
    db,        \* [Row -> ...], the committed versions
    working,   \* [Row -> ...], equal to db for a row nobody holds
    lock       \* [Row -> Worker \cup {NoWorker}], who wrote the working version

tables == <<db, working, lock>>

Sees(w, r) == IF lock[r] = w THEN working[r] ELSE db[r]

\* An UPDATE of row r by w has not to wait.
Available(w, r) == lock[r] \in {w, NoWorker}

\* w writes the rows of `rows`, to what `new` makes of them.
Write(w, rows, new) ==
    /\ working' = [r \in Row |-> IF r \in rows THEN new[r] ELSE working[r]]
    /\ lock' = [r \in Row |-> IF r \in rows THEN w ELSE lock[r]]
    /\ UNCHANGED db

Unlocked(w) == [r \in Row |-> IF lock[r] = w THEN NoWorker ELSE lock[r]]

CommitRows(w) ==
    /\ db' = [r \in Row |-> Sees(w, r)]
    /\ lock' = Unlocked(w)
    /\ UNCHANGED working

RollbackRows(w) ==
    /\ working' = [r \in Row |-> IF lock[r] = w THEN db[r] ELSE working[r]]
    /\ lock' = Unlocked(w)
    /\ UNCHANGED db
=============================================================================
