---------------------------- MODULE Gamification ----------------------------
(***************************************************************************)
(* Points, streaks and badges projected from the events of volunteering    *)
(* and training, and the admin's corrections.  A consumer handles an event *)
(* in one transaction, shown as two steps: the update of the person's      *)
(* balance, which makes other transactions that touch that balance wait,   *)
(* and the rest up to the commit.  Events may come in any order and again. *)
(***************************************************************************)
EXTENDS Integers, FiniteSetsExt, Functions, Authz, Tables

CONSTANTS
    Person, Facts,   \* persons, and [Person -> set of Authz facts]
    EventId,         \* bound: inbound events
    Inbound,         \* [EventId -> type, person, week; minutes, module or course]
    AdjustId,        \* bound: ids of manual adjustments
    Adjustment,      \* bound: the points of an adjustment
    Badge,           \* the criteria of the active badges
    Awardable,       \* bound: the badges an admin gives
    Worker           \* consumers that may overlap

VARIABLES
    entries,    \* the ledger: [ids -> person and points], only added to
    balance,    \* [Person -> total points]
    processed,  \* event ids recorded as processed
    streak,     \* [Person -> [Activity -> StreakState]]
    awards,     \* set of <<person, badge>>
    announced,  \* [Person \X Badge -> BadgeAwarded events]
    tx,         \* [Worker -> what it does]
    given       \* history: awards that an admin made

vars == <<entries, balance, processed, streak, awards, announced, tx, given>>

MAX_FREEZES == 2
POINTS_PER_HOUR == 10
POINTS_FOR_MODULE_COMPLETED == 25
POINTS_FOR_COURSE_COMPLETED == 100
Activity == {"shift_cadence", "training_cadence"}
None == 0   \* lastActivityDate = null; weeks count from 1
StreakState == [currentLength : Nat, longestLength : Nat, last : Nat,
                freezesAvailable : 0..MAX_FREEZES, freezesUsedTotal : Nat]
initialStreakState == [currentLength |-> 0, longestLength |-> 0, last |-> None,
                       freezesAvailable |-> MAX_FREEZES, freezesUsedTotal |-> 0]
Idle == [op |-> "idle"]
Sums == [p \in Person |->
          SumFunction([i \in DOMAIN entries |-> IF entries[i].person = p THEN entries[i].points ELSE 0])]

TypeOK ==
    /\ DOMAIN entries \subseteq EventId \cup AdjustId
    /\ entries \in [DOMAIN entries -> [person : Person, points : Int]]
    /\ balance \in [Person -> Int] /\ processed \subseteq EventId
    /\ \A p \in Person, a \in Activity : streak[p][a] \in StreakState
    /\ given \subseteq awards /\ awards \subseteq Person \X Badge
    /\ announced \in [Person \X Badge -> Nat]
    /\ \A w \in Worker : tx[w].op \in {"idle", "handle"}

Init ==
    /\ entries = <<>> /\ processed = {} /\ awards = {} /\ given = {}
    /\ balance = [p \in Person |-> 0]
    /\ streak = [p \in Person |-> [a \in Activity |-> initialStreakState]]
    /\ announced = [x \in Person \X Badge |-> 0]
    /\ tx = [w \in Worker |-> Idle]

Subject(p) == [id |-> p, status |-> "active"]
Goto(w, j) == tx' = [tx EXCEPT ![w] = j]
Handling(w) == tx[w].op = "handle"
\* Row locks until the commit: the event in the ledger, the person's balance.
EventsUnderWay == {tx[w].event : w \in {v \in Worker : Handling(v)}}
BalancesLocked == {Inbound[e].person : e \in EventsUnderWay}
-----------------------------------------------------------------------------
\* points_ledger_entry_source_event_type_source_event_id_key.
IsNew(id) == id \notin DOMAIN entries

\* recordPointsForEvent; a duplicate is rolled back to the savepoint.
Record(id, p, points) ==
    IF IsNew(id)
    THEN /\ entries' = Inserted(entries, id, [person |-> p, points |-> points])
         /\ balance' = [balance EXCEPT ![p] = @ + points]
    ELSE UNCHANGED <<entries, balance>>

\* Mutant: an event of an earlier week breaks the rule of the calendar.
ExtendOnAnyOtherWeek(s, week) ==
    LET longer == s.currentLength + 1
    IN IF s.last = week THEN s
       ELSE [s EXCEPT !.currentLength = longer, !.last = week, !.longestLength = Max({@, longer})]

\* The next week extends the streak, a gap takes a freeze or breaks it, and
\* an event of the same week or an earlier one leaves it as it is.
applyStreakActivity(s, week) ==
    LET longer == s.currentLength + 1
    IN IF s.last # None /\ week <= s.last THEN s
       ELSE IF s.last = None \/ week = s.last + 1
       THEN [s EXCEPT !.currentLength = longer, !.last = week, !.longestLength = Max({@, longer})]
       ELSE IF s.freezesAvailable > 0
       THEN [s EXCEPT !.freezesAvailable = @ - 1, !.freezesUsedTotal = @ + 1, !.last = week]
       ELSE [s EXCEPT !.currentLength = 0, !.last = week]

\* Half a point is rounded up.
computeHoursApprovedPoints(durationMinutes) == (durationMinutes * POINTS_PER_HOUR + 30) \div 60

\* The points of each event, and the streak that it goes on with.
handleHoursApproved(e) == [points |-> computeHoursApprovedPoints(e.durationMinutes), extends |-> {"shift_cadence"}]
handleModuleCompleted(e) == [points |-> POINTS_FOR_MODULE_COMPLETED, extends |-> {}]
handleCourseCompleted(e) == [points |-> POINTS_FOR_COURSE_COMPLETED, extends |-> {"training_cadence"}]
dispatchInboundEvent(e) == CASE e.type = "HoursApproved" -> handleHoursApproved(e)
                             [] e.type = "ModuleCompleted" -> handleModuleCompleted(e)
                             [] e.type = "CourseCompleted" -> handleCourseCompleted(e)
PointsOf(id) == dispatchInboundEvent(Inbound[id]).points
ActivityOf(id) == dispatchInboundEvent(Inbound[id]).extends

Completes(e, b) ==
    \/ b.type = "course_completed" /\ Inbound[e].type = "CourseCompleted" /\ Inbound[e].course = b.course
    \/ b.type = "module_completed" /\ Inbound[e].type = "ModuleCompleted" /\ Inbound[e].module = b.module
\* A streak counts for a badge only in the event that touched it.
isCriteriaSatisfied(b, e, total, streaks) ==
    \/ b.type = "points_total" /\ total >= b.threshold
    \/ b.type = "streak_length" /\ b.activity \in ActivityOf(e)
       /\ streaks[b.activity].currentLength >= b.length
    \/ Completes(e, b)

\* INSERT ... ON CONFLICT DO NOTHING, and an event for the rows it inserted.
AwardBadges(new) ==
    /\ awards' = awards \cup new
    /\ announced' = [x \in DOMAIN announced |-> announced[x] + IF x \in new \ awards THEN 1 ELSE 0]
-----------------------------------------------------------------------------
\* consumeInboundEvent up to the balance.  An event that is recorded already
\* fails on the insert and is answered as processed: nothing changes.
RecordPoints(w, e) ==
    /\ tx[w] = Idle
    /\ e \notin processed \cup EventsUnderWay /\ Inbound[e].person \notin BalancesLocked
    /\ Goto(w, [op |-> "handle", event |-> e])
    /\ UNCHANGED <<entries, balance, processed, streak, awards, announced, given>>

\* The rest of the handler's transaction: ledger, streak, badges, commit.
Handle(w) ==
    LET e == tx[w].event
        p == Inbound[e].person
        total == balance[p] + (IF IsNew(e) THEN PointsOf(e) ELSE 0)
        streaks == [a \in Activity |-> IF a \in ActivityOf(e)
                                       THEN applyStreakActivity(streak[p][a], Inbound[e].week)
                                       ELSE streak[p][a]]
    IN /\ Handling(w)
       /\ Record(e, p, PointsOf(e))
       /\ processed' = processed \cup {e}
       /\ streak' = [streak EXCEPT ![p] = streaks]
       /\ AwardBadges({<<p, b>> : b \in {c \in Badge : isCriteriaSatisfied(c, e, total, streaks)}})
       /\ Goto(w, Idle)
       /\ UNCHANGED given

Rollback(w) ==
    /\ tx[w] # Idle /\ Goto(w, Idle)
    /\ UNCHANGED <<entries, balance, processed, streak, awards, announced, given>>

adminAdjustPoints(c, p, id, points) ==
    /\ Can(Subject(c), "points.adjust", InScope(Global), Facts[c])
    /\ id \notin DOMAIN entries /\ p \notin BalancesLocked
    /\ Record(id, p, points)
    /\ UNCHANGED <<processed, streak, awards, announced, tx, given>>

adminAwardBadge(c, p, b) ==
    /\ Can(Subject(c), "badge.award", InScope(Global), Facts[c])
    /\ AwardBadges({<<p, b>>})
    /\ given' = given \cup ({<<p, b>>} \ awards)
    /\ UNCHANGED <<entries, balance, processed, streak, tx>>
-----------------------------------------------------------------------------
AdminRequest ==
    \E c, p \in Person :
        \/ \E id \in AdjustId, n \in Adjustment : adminAdjustPoints(c, p, id, n)
        \/ \E b \in Awardable : adminAwardBadge(c, p, b)

Next ==
    \/ AdminRequest
    \/ \E w \in Worker :
         (\E e \in EventId : RecordPoints(w, e)) \/ Handle(w) \/ Rollback(w)

Spec == Init /\ [][Next]_vars
-----------------------------------------------------------------------------
\* The balance that is shown is the sum of the ledger, whatever was redelivered,
\* rolled back or adjusted at the same time.
BalanceIsLedgerSum == balance = Sums

\* In whatever order events come: a streak ends in the latest week with an
\* activity, is no longer than the weeks that had one, and each freeze it
\* lost was used.
WeeksOf(p, a) == {Inbound[e].week : e \in {d \in processed :
                    Inbound[d].person = p /\ a \in ActivityOf(d)}}
StreakIsEarned ==
    \A p \in Person, a \in Activity : LET s == streak[p][a] IN
        /\ s.last = IF WeeksOf(p, a) = {} THEN None ELSE Max(WeeksOf(p, a))
        /\ s.currentLength <= s.longestLength /\ s.longestLength <= Cardinality(WeeksOf(p, a))
        /\ s.freezesUsedTotal + s.freezesAvailable = MAX_FREEZES

\* A badge is announced once, and was given by an admin or earned; points
\* may have been taken away since.
BadgesAreEarned ==
    \A p \in Person, b \in Badge :
        /\ announced[p, b] = IF <<p, b>> \in awards THEN 1 ELSE 0
        /\ <<p, b>> \in awards \ given /\ b.type = "streak_length" =>
             streak[p][b.activity].longestLength >= b.length
        /\ (\E e \in processed : Inbound[e].person = p /\ Completes(e, b)) => <<p, b>> \in awards
=============================================================================
