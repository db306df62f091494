---------------------------- MODULE Leaderboard ----------------------------
(***************************************************************************)
(* The leaderboard of a team for a period: one query sums the points       *)
(* ledger, then a transaction deletes the rows of the scope and inserts    *)
(* the ranking.  Rebuilds may overlap with each other and with new points. *)
(***************************************************************************)
EXTENDS Integers, SequencesExt

CONSTANTS
    Roster,      \* the members' ids as the caller lists them
    Points,      \* bound: the points of a ledger entry
    MaxEntries,  \* bound: entries of the period
    Worker       \* rebuilds that may overlap

VARIABLES
    ledger,   \* the period's entries, only appended to
    board,    \* [members -> rank and points], empty before the first rebuild
    rebuild   \* [Worker -> the sums a rebuild has read, and the rows it deletes]

vars == <<ledger, board, rebuild>>

Member == Range(Roster)
Idle == [stage |-> "idle"]
Board == [Member -> [rank : 1..Len(Roster), points : Int]]
TypeOK ==
    /\ ledger \in Seq([person : Member, points : Points])
    /\ board \in Board \/ board = <<>>
    /\ \A w \in Worker : rebuild[w].stage \in {"idle", "ranked", "deleted"}

Init == ledger = <<>> /\ board = <<>> /\ rebuild = [w \in Worker |-> Idle]

\* recordPointsForEvent appends an entry, of an event or of an adjustment.
Earn(p, n) ==
    /\ Len(ledger) < MaxEntries
    /\ ledger' = Append(ledger, [person |-> p, points |-> n])
    /\ UNCHANGED <<board, rebuild>>

Total(entries, p) ==
    SumFunction([i \in DOMAIN entries |-> IF entries[i].person = p THEN entries[i].points ELSE 0])

\* Each member once, and nobody behind one with fewer points.
Ranked(sums) ==
    CHOOSE s \in [1..Cardinality(Member) -> Member] :
        IsInjective(s) /\ \A i, k \in DOMAIN s : i < k => sums[s[i]] >= sums[s[k]]

\* Mutant: the place in the list, also for ties.
RanksByIndex(ranked, sums) == [i \in DOMAIN ranked |-> i]
\* The rank goes up to the place in the list when the points change.
Ranks(ranked, sums) ==
    [i \in DOMAIN ranked |-> Max({k \in 1..i : k = 1 \/ sums[ranked[k]] # sums[ranked[k - 1]]})]

Ranking(sums) ==
    LET ranked == Ranked(sums)
        rank == Ranks(ranked, sums)
    IN [p \in Member |-> [rank |-> rank[CHOOSE i \in DOMAIN ranked : ranked[i] = p], points |-> sums[p]]]

ReadTotals(w) ==
    /\ rebuild[w] = Idle
    /\ rebuild' = [rebuild EXCEPT ![w] = [stage |-> "ranked", rows |-> Ranking([p \in Member |-> Total(ledger, p)])]]
    /\ UNCHANGED <<ledger, board>>

\* The delete takes the rows that are there when it runs.
DeleteRows(w) ==
    /\ rebuild[w].stage = "ranked"
    /\ rebuild' = [rebuild EXCEPT ![w] = [stage |-> "deleted", rows |-> rebuild[w].rows, old |-> board]]
    /\ UNCHANGED <<ledger, board>>

\* The inserts conflict with rows that another rebuild committed since the
\* delete (the unique index on scope, person and period), and this one fails.
InsertRows(w) ==
    /\ rebuild[w].stage = "deleted"
    /\ board' = IF board = rebuild[w].old THEN rebuild[w].rows ELSE board
    /\ rebuild' = [rebuild EXCEPT ![w] = Idle]
    /\ UNCHANGED ledger

Abandon(w) == /\ rebuild[w] # Idle /\ rebuild' = [rebuild EXCEPT ![w] = Idle]
              /\ UNCHANGED <<ledger, board>>

Next ==
    \/ \E p \in Member, n \in Points : Earn(p, n)
    \/ \E w \in Worker : ReadTotals(w) \/ DeleteRows(w) \/ InsertRows(w) \/ Abandon(w)

Spec == Init /\ [][Next]_vars
-----------------------------------------------------------------------------
\* The leaderboard is one competition ranking of the ledger as it was at one
\* moment: ties share a rank and the next one skips their number, nobody is
\* missing, and rows of two rebuilds never mix.  (A slow rebuild may put an
\* older moment back.)
BoardRanksLedger ==
    board # <<>> =>
        /\ \E n \in 0..Len(ledger) : \A p \in Member : board[p].points = Total(SubSeq(ledger, 1, n), p)
        /\ \A p \in Member :
             board[p].rank = 1 + Cardinality({q \in Member : board[q].points > board[p].points})
=============================================================================
