---------------------------- MODULE KeysetPaging ----------------------------
(***************************************************************************)
(* A caller walks a list page by page, newest first, while rows are added, *)
(* change, and stop matching.  The lists differ in what they query, in     *)
(* what they drop of the page they read, and in whether they tell the      *)
(* caller that there is more.  An id is drawn before the transaction that  *)
(* inserts its row commits: rows do not appear in the order of their ids.  *)
(***************************************************************************)
EXTENDS Integers, SequencesExt

CONSTANTS
    MaxId,   \* bound: rows; ids are numbers in the order they were drawn
    Limit    \* bound: page sizes, each page may have another one

VARIABLES
    list,    \* the list that is walked
    rows,    \* [committed ids -> "fresh" or "changed"]
    cursor,  \* the next page is below it
    walk,    \* "going" or "ended"
    shown,   \* ids in the order they were shown
    due      \* history: rows of the first page's time that still match

vars == <<list, rows, cursor, walk, shown, due>>

State == {"fresh", "changed"}
\* hidden_at in the query; a post that is not published is dropped later.
queryFeedPage == [queries |-> State, shows |-> {"fresh"}, tells |-> TRUE]
\* inAppReadAt = null
listUnread == [queries |-> {"fresh"}, shows |-> {"fresh"}, tells |-> TRUE]
\* status = published, unless another is asked for
listOpportunities == [queries |-> {"fresh"}, shows |-> {"fresh"}, tells |-> TRUE]
\* A job's status may be asked for.
listExportJobs == [queries |-> {"fresh"}, shows |-> {"fresh"}, tells |-> TRUE]
listNotifications == [queries |-> State, shows |-> State, tells |-> TRUE]
queryModerationHistory == [queries |-> State, shows |-> State, tells |-> TRUE]
\* These give no cursor: the caller goes on below the last id, to the end.
getKudosReceived == [queries |-> State, shows |-> State, tells |-> FALSE]
searchAuditLog == [queries |-> State, shows |-> State, tells |-> FALSE]

Lists == {queryFeedPage, listUnread, listNotifications, listOpportunities, listExportJobs,
          queryModerationHistory, getKudosReceived, searchAuditLog}

TypeOK ==
    /\ \E ids \in SUBSET (1..MaxId) : rows \in [ids -> State]
    /\ cursor \in 1..(MaxId + 1) /\ walk \in {"going", "ended"}
    /\ shown \in Seq(1..MaxId) /\ due \subseteq DOMAIN rows

Due == {i \in DOMAIN rows : rows[i] \in list.shows}
Init ==
    /\ list \in Lists
    /\ \E ids \in SUBSET (1..MaxId) : rows \in [ids -> State]
    /\ cursor = MaxId + 1 /\ walk = "going" /\ shown = <<>>
    /\ due = Due
-----------------------------------------------------------------------------
\* Mutant: the cursor is the row that told that there is more.
CursorAtExtraRow(found, limit) == found[limit + 1]
\* The id of the last row of the page.
NextCursor(found, limit) == found[limit]

\* orderBy: { id: "desc" }
Descending(ids) ==
    CHOOSE s \in [1..Cardinality(ids) -> ids] : \A i, k \in DOMAIN s : i < k => s[i] > s[k]

\* One more row than the page is read to see whether there is a next one.
NextPage(limit) ==
    LET found == Descending({i \in DOMAIN rows : i < cursor /\ rows[i] \in list.queries})
        page == SubSeq(found, 1, Min({limit, Len(found)}))
        more == IF list.tells THEN Len(found) > limit ELSE page # <<>>
    IN /\ walk = "going"
       /\ shown' = shown \o Descending({i \in Range(page) : rows[i] \in list.shows})
       /\ IF more THEN UNCHANGED walk ELSE walk' = "ended"
       /\ cursor' = IF ~more THEN cursor
                    ELSE IF list.tells THEN NextCursor(found, limit) ELSE Last(page)
       /\ UNCHANGED <<list, rows, due>>

\* A row commits; its id may be smaller than those that are there.
Insert(i) ==
    /\ i \notin DOMAIN rows
    /\ rows' = [k \in DOMAIN rows \cup {i} |-> IF k = i THEN "fresh" ELSE rows[k]]
    /\ UNCHANGED <<list, cursor, walk, shown, due>>

\* It is read, closed, hidden, or done.
Change(i) ==
    /\ rows[i] = "fresh" /\ rows' = [rows EXCEPT ![i] = "changed"]
    /\ due' = IF "changed" \in list.shows THEN due ELSE due \ {i}
    /\ UNCHANGED <<list, cursor, walk, shown>>

Next ==
    \/ \E limit \in Limit : NextPage(limit)
    \/ \E i \in 1..MaxId : Insert(i)
    \/ \E i \in DOMAIN rows : Change(i)

Spec == Init /\ [][Next]_vars
-----------------------------------------------------------------------------
\* A walk shows no row twice, in the order of ids, and when it ends it has
\* shown every row that was there when it began and still belongs to it,
\* whatever was inserted or left meanwhile.  A page that comes out short or
\* empty because its rows are dropped does not end it.
WalkShowsAll ==
    /\ \A i, k \in DOMAIN shown : i < k => shown[i] > shown[k]
    /\ walk = "ended" => due \subseteq Range(shown)
=============================================================================
