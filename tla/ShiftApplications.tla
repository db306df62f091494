-------------------------- MODULE ShiftApplications --------------------------
(***************************************************************************)
(* Applications to one shift of the volunteering module: ApplyToShift,     *)
(* DecideApplication, WithdrawApplication (with waitlist promotion) and    *)
(* CancelShift, run by concurrent workers of the web server.               *)
(*                                                                         *)
(* Every use case of the code has the same two halves: reads on the pool   *)
(* (each its own statement, no transaction), then one Prisma interactive   *)
(* transaction on PostgreSQL at READ COMMITTED.  A statement is one step.  *)
(* A row has a committed version and, while a transaction that wrote it is *)
(* open, a working version owned by the worker that holds the row lock:    *)
(*   shift / shiftW, app / appW   committed and working versions;          *)
(*   shiftLock, appLock           the worker whose open transaction wrote  *)
(*                                the row, or NoWorker.                    *)
(* A statement sees the committed version of a row another worker holds    *)
(* and its own working version of a row it holds.  An UPDATE ... WHERE     *)
(* that the committed version satisfies waits for the lock; one that it    *)
(* does not satisfy touches no row and does not wait.                      *)
(*                                                                         *)
(* One shift is enough: no statement of these use cases reads or writes    *)
(* rows of two shifts, and the unique index is per shift.                  *)
(***************************************************************************)
EXTENDS Integers, FiniteSets

CONSTANTS
    Worker,     \* concurrent requests of the web server
    NoWorker,   \* "the row is not locked"
    Person,     \* applicants
    NoPerson,   \* the applicant of a row that does not exist
    Trained,    \* applicants for whom hasCompletedRequiredTraining is true
    Capacity,   \* shifts.capacity
    MaxApps     \* bound: rows ever inserted into the applications table

ASSUME WorkerAssumption == NoWorker \notin Worker
ASSUME PersonAssumption == NoPerson \notin Person
ASSUME CapacityAssumption == Capacity \in Nat \ {0}
ASSUME MaxAppsAssumption == MaxApps \in Nat

\* Row ids in insertion order, which is also the order of applied_at.
App == 1 .. MaxApps

Active     == {"pending", "accepted", "waitlisted"}
Terminal   == {"declined", "withdrawn"}
AppStatus  == Active \cup Terminal \cup {"absent"}
Decisions  == {"accept", "decline", "waitlist"}
Operations == Decisions \cup {"apply", "withdraw", "cancel"}
EventTypes == {"ApplicationSubmitted", "ApplicationAccepted",
               "ApplicationWaitlisted", "ApplicationDeclined",
               "ApplicationWithdrawn"}

\* Where a request is: reading before its transaction, or at a statement of it.
ReadSteps == {"readShift", "findExisting", "readApplication", "readForCancel"}
TxSteps   == {"insert", "takeSlot", "decide", "withdraw", "freeSlot",
              "findWaitlisted", "reclaimSlot", "promote", "collect",
              "cancelShift", "declineAffected", "commit"}

VARIABLES
    shift, shiftW, shiftLock,   \* the shift row: status, acceptedCount
    app, appW, appLock,         \* application rows: status, latest event
    applicant,                  \* applications.applicant_person_id
    pc, req                     \* each worker's position and local variables

rowVars == <<shift, shiftW, shiftLock, app, appW, appLock, applicant>>
vars == <<rowVars, pc, req>>

ShiftRow == [status : {"scheduled", "cancelled"}, acceptedCount : Int]
AppRow   == [status : AppStatus, event : EventTypes \cup {"none"}]

\* The locals of a request: `app` is the application of its next statement,
\* `seen` the status it read before the transaction, `outcome` the status it
\* will write, `rows` the other applications it has still to update.
Request == [op : Operations \cup {"none"}, person : Person \cup {NoPerson},
            app : App \cup {0}, seen : AppStatus, outcome : AppStatus,
            rows : SUBSET App]

NoRequest == [op |-> "none", person |-> NoPerson, app |-> 0, seen |-> "absent",
              outcome |-> "absent", rows |-> {}]
Absent == [status |-> "absent", event |-> "none"]

TypeOK ==
    /\ shift \in ShiftRow /\ shiftW \in ShiftRow
    /\ shiftLock \in Worker \cup {NoWorker}
    /\ app \in [App -> AppRow] /\ appW \in [App -> AppRow]
    /\ appLock \in [App -> Worker \cup {NoWorker}]
    /\ applicant \in [App -> Person \cup {NoPerson}]
    /\ pc \in [Worker -> {"idle"} \cup ReadSteps \cup TxSteps]
    /\ req \in [Worker -> Request]

Init ==
    /\ shift = [status |-> "scheduled", acceptedCount |-> 0]
    /\ shiftW = shift
    /\ shiftLock = NoWorker
    /\ app = [a \in App |-> Absent]
    /\ appW = app
    /\ appLock = [a \in App |-> NoWorker]
    /\ applicant = [a \in App |-> NoPerson]
    /\ pc = [w \in Worker |-> "idle"]
    /\ req = [w \in Worker |-> NoRequest]

-----------------------------------------------------------------------------
(* Row locks and transactions, as PostgreSQL runs them. *)

\* The version of a row that a statement of w sees.
ShiftSeenBy(w)  == IF shiftLock = w THEN shiftW ELSE shift
AppSeenBy(w, a) == IF appLock[a] = w THEN appW[a] ELSE app[a]

\* Faulty variant: an off-by-one in the capacity condition.
HasFreeSlotOffByOne(s) == s.acceptedCount <= Capacity

\* WHERE accepted_count < capacity
HasFreeSlot(s) == s.acceptedCount < Capacity

\* Rows whose entry in uq_applications_active_per_shift is there or may be.
MaybeActive(a) == app[a].status \in Active \/ appW[a].status \in Active
IndexEntries(p) == {a \in App : applicant[a] = p /\ MaybeActive(a)}

\* The rows the next statement of w has to lock: those its WHERE clause
\* selects, and for an INSERT the uncommitted entries of the unique index.
NeedsShift(w) ==
    \/ pc[w] = "takeSlot" /\ HasFreeSlot(shift)
    \/ pc[w] = "freeSlot" /\ shift.acceptedCount > 0
    \/ pc[w] = "reclaimSlot" /\ HasFreeSlot(ShiftSeenBy(w))
    \/ pc[w] = "cancelShift" /\ shift.status = "scheduled"
NeedsApps(w) ==
    {a \in App :
        \/ pc[w] = "insert" /\ a \in IndexEntries(req[w].person)
        \/ pc[w] \in {"withdraw", "declineAffected"} /\ a = req[w].app
        \/ /\ pc[w] \in {"decide", "promote"}
           /\ a = req[w].app /\ app[a].status = req[w].seen}

BlockedBy(w) ==
    ((IF NeedsShift(w) THEN {shiftLock} ELSE {})
        \cup {appLock[a] : a \in NeedsApps(w)}) \ {w, NoWorker}

Goto(w, step) == pc' = [pc EXCEPT ![w] = step]
Done(w) == Goto(w, "idle") /\ req' = [req EXCEPT ![w] = NoRequest]

\* COMMIT: the working versions of the rows w holds become the committed ones.
CommitRows(w) ==
    /\ shift' = ShiftSeenBy(w)
    /\ shiftLock' = IF shiftLock = w THEN NoWorker ELSE shiftLock
    /\ app' = [a \in App |-> AppSeenBy(w, a)]
    /\ appLock' = [a \in App |-> IF appLock[a] = w THEN NoWorker ELSE appLock[a]]
    /\ UNCHANGED <<shiftW, appW, applicant>>

\* ROLLBACK: they are dropped, and a row that was only inserted is gone.
RollbackRows(w) ==
    /\ shiftW' = IF shiftLock = w THEN shift ELSE shiftW
    /\ shiftLock' = IF shiftLock = w THEN NoWorker ELSE shiftLock
    /\ appW' = [a \in App |-> IF appLock[a] = w THEN app[a] ELSE appW[a]]
    /\ appLock' = [a \in App |-> IF appLock[a] = w THEN NoWorker ELSE appLock[a]]
    /\ applicant' = [a \in App |-> IF appLock[a] = w /\ app[a].status = "absent"
                                    THEN NoPerson ELSE applicant[a]]
    /\ UNCHANGED <<shift, app>>

WriteApp(w, a, status, event) ==
    /\ appW' = [appW EXCEPT ![a] = [status |-> status, event |-> event]]
    /\ appLock' = [appLock EXCEPT ![a] = w]
    /\ UNCHANGED app

WriteShift(w, row) ==
    /\ shiftW' = row
    /\ shiftLock' = w
    /\ UNCHANGED shift

\* A request that fails outside a transaction, or whose transaction throws.
Fail(w) == RollbackRows(w) /\ Done(w)

\* Faulty variant: an event type outside the catalogue of the module.
EventOfDecision(status) == "ApplicationDecided"

\* The event a decision's transaction writes beside the new status.
EventOf(status) ==
    CASE status = "accepted"   -> "ApplicationAccepted"
      [] status = "waitlisted" -> "ApplicationWaitlisted"
      [] OTHER                 -> "ApplicationDeclined"

-----------------------------------------------------------------------------
(* Requests. *)

\* Rows that an INSERT may still take: past every row inserted so far.
FreeIds == {a \in App : \A b \in App : appW[b].status # "absent" => b < a}

\* A client calls one of the use cases.  Ids of applications are known to
\* clients once committed.  (Bound: an apply starts only while a row is left.)
Receive(w) ==
    /\ pc[w] = "idle"
    /\ \/ \E p \in Person :
             /\ Cardinality(FreeIds) > Cardinality({v \in Worker : req[v].op = "apply"})
             /\ req' = [req EXCEPT ![w] = [NoRequest EXCEPT !.op = "apply", !.person = p]]
             /\ Goto(w, "readShift")
       \/ \E a \in App, op \in Decisions \cup {"withdraw"} :
             /\ app[a].status # "absent"
             /\ req' = [req EXCEPT ![w] = [NoRequest EXCEPT !.op = op, !.app = a]]
             /\ Goto(w, "readApplication")
       \/ /\ req' = [req EXCEPT ![w] = [NoRequest EXCEPT !.op = "cancel"]]
          /\ Goto(w, "readForCancel")
    /\ UNCHANGED rowVars

\* The checks on data this module leaves out: the person exists, the caller
\* holds the authority or is the applicant, the shift has not started, no hours
\* of the shift are approved.  Any of them may fail before the transaction.
Refuse(w) == pc[w] \in ReadSteps /\ Done(w) /\ UNCHANGED rowVars

-----------------------------------------------------------------------------
(* ApplyToShift *)

ApplyReadShift(w) ==
    /\ pc[w] = "readShift"
    /\ shift.status = "scheduled"
    /\ Goto(w, "findExisting")
    /\ UNCHANGED <<rowVars, req>>

ApplyFindExisting(w) ==
    /\ pc[w] = "findExisting"
    /\ \A a \in App : ~(applicant[a] = req[w].person /\ app[a].status \in Active)
    /\ Goto(w, "insert")
    /\ UNCHANGED <<rowVars, req>>

\* Faulty variant: the index is missing, and only the earlier read guards.
NoUniqueIndex(p) == TRUE

\* The partial unique index lets the row in, unless an active row of the same
\* applicant is there; one that is not decided yet makes the INSERT wait.
UniqueIndexAllows(p) == IndexEntries(p) = {}

InsertApplication(w) ==
    /\ pc[w] = "insert"
    /\ BlockedBy(w) = {}
    /\ UniqueIndexAllows(req[w].person)
    /\ \E a \in FreeIds :
          /\ \A b \in FreeIds : a <= b
          /\ WriteApp(w, a, "pending", "ApplicationSubmitted")
          /\ applicant' = [applicant EXCEPT ![a] = req[w].person]
    /\ Goto(w, "commit")
    /\ UNCHANGED <<shift, shiftW, shiftLock, req>>

\* P2002: reported as DuplicateApplicationError.
InsertDuplicate(w) ==
    /\ pc[w] = "insert"
    /\ BlockedBy(w) = {}
    /\ ~UniqueIndexAllows(req[w].person)
    /\ Fail(w)

-----------------------------------------------------------------------------
(* DecideApplication *)

DecidableFrom(op) == IF op = "decline" THEN {"pending", "waitlisted"} ELSE {"pending"}

DecideRead(w) ==
    LET a    == req[w].app
        op   == req[w].op
        seen == app[a].status
        goes == CASE op = "decline" -> "declined"
                  [] op = "accept" /\ applicant[a] \in Trained -> "accepted"
                  [] OTHER -> "waitlisted"
    IN  /\ pc[w] = "readApplication" /\ op \in Decisions
        /\ seen \in DecidableFrom(op)
        /\ req' = [req EXCEPT ![w] = [@ EXCEPT !.seen = seen, !.outcome = goes]]
        /\ Goto(w, IF goes = "accepted" THEN "takeSlot" ELSE "decide")
        /\ UNCHANGED rowVars

\* UPDATE shifts SET accepted_count = accepted_count + 1
\* WHERE id = ... AND accepted_count < capacity
TakeSlot(w) ==
    /\ pc[w] = "takeSlot"
    /\ BlockedBy(w) = {}
    /\ IF HasFreeSlot(shift)
       THEN /\ WriteShift(w, [shift EXCEPT !.acceptedCount = @ + 1])
            /\ UNCHANGED req
       ELSE /\ req' = [req EXCEPT ![w].outcome = "waitlisted"]
            /\ UNCHANGED <<shift, shiftW, shiftLock>>
    /\ Goto(w, "decide")
    /\ UNCHANGED <<app, appW, appLock, applicant>>

\* Faulty variant: WHERE id = ... only, as in the withdrawal.
DecideWriteAnyStatus(w) ==
    LET a == req[w].app
        outcome == req[w].outcome
    IN  /\ pc[w] = "decide"
        /\ appLock[a] = NoWorker
        /\ WriteApp(w, a, outcome, EventOf(outcome))
        /\ Goto(w, "commit")
        /\ UNCHANGED <<shift, shiftW, shiftLock, applicant, req>>

\* Faulty variant: the event follows the decision asked for, not the outcome.
DecideWriteAnnouncesRequest(w) ==
    LET a == req[w].app
    IN  /\ pc[w] = "decide"
        /\ BlockedBy(w) = {}
        /\ app[a].status = req[w].seen
        /\ WriteApp(w, a, req[w].outcome,
                    EventOf(CASE req[w].op = "accept" -> "accepted"
                              [] req[w].op = "waitlist" -> "waitlisted"
                              [] OTHER -> "declined"))
        /\ Goto(w, "commit")
        /\ UNCHANGED <<shift, shiftW, shiftLock, applicant, req>>

\* application.update WHERE id = ... AND status = <the status read>; no such
\* row is P2025, which rolls the transaction back.
DecideWrite(w) ==
    LET a == req[w].app
        outcome == req[w].outcome
    IN  /\ pc[w] = "decide"
        /\ BlockedBy(w) = {}
        /\ app[a].status = req[w].seen
        /\ WriteApp(w, a, outcome, EventOf(outcome))
        /\ Goto(w, "commit")
        /\ UNCHANGED <<shift, shiftW, shiftLock, applicant, req>>

DecideStale(w) ==
    /\ pc[w] = "decide"
    /\ app[req[w].app].status # req[w].seen
    /\ Fail(w)

-----------------------------------------------------------------------------
(* WithdrawApplication *)

WithdrawRead(w) ==
    /\ pc[w] = "readApplication" /\ req[w].op = "withdraw"
    /\ app[req[w].app].status \in Active
    /\ req' = [req EXCEPT ![w].seen = app[req[w].app].status]
    /\ Goto(w, "withdraw")
    /\ UNCHANGED rowVars

\* application.update WHERE id = ...: whatever the row's status is by now.
WithdrawWrite(w) ==
    /\ pc[w] = "withdraw"
    /\ BlockedBy(w) = {}
    /\ WriteApp(w, req[w].app, "withdrawn", "ApplicationWithdrawn")
    /\ Goto(w, IF req[w].seen = "accepted" THEN "freeSlot" ELSE "commit")
    /\ UNCHANGED <<shift, shiftW, shiftLock, applicant, req>>

\* UPDATE shifts SET accepted_count = accepted_count - 1 WHERE accepted_count > 0
FreeSlot(w) ==
    /\ pc[w] = "freeSlot"
    /\ BlockedBy(w) = {}
    /\ IF shift.acceptedCount > 0
       THEN WriteShift(w, [shift EXCEPT !.acceptedCount = @ - 1])
       ELSE UNCHANGED <<shift, shiftW, shiftLock>>
    /\ Goto(w, "findWaitlisted")
    /\ UNCHANGED <<app, appW, appLock, applicant, req>>

\* Faulty variant: the waitlist is served last in, first out.
IsLatest(a, apps) == \A b \in apps : b <= a

\* findFirst ... orderBy appliedAt asc
IsEarliest(a, apps) == \A b \in apps : a <= b

FindWaitlisted(w) ==
    LET waitlisted == {a \in App : AppSeenBy(w, a).status = "waitlisted"}
    IN  /\ pc[w] = "findWaitlisted"
        /\ \/ /\ waitlisted = {}
              /\ Goto(w, "commit")
              /\ UNCHANGED req
           \/ \E a \in waitlisted :
                 /\ IsEarliest(a, waitlisted)
                 /\ req' = [req EXCEPT ![w] = [@ EXCEPT !.app = a, !.seen = "waitlisted"]]
                 /\ Goto(w, "reclaimSlot")
        /\ UNCHANGED rowVars

\* Faulty variant: the promotion does not count its slot.
ReclaimNothing(w) ==
    /\ pc[w] = "reclaimSlot"
    /\ Goto(w, "promote")
    /\ UNCHANGED <<rowVars, req>>

\* UPDATE shifts SET accepted_count = accepted_count + 1
\* WHERE id = ... AND accepted_count < capacity
ReclaimSlot(w) ==
    /\ pc[w] = "reclaimSlot"
    /\ BlockedBy(w) = {}
    /\ IF HasFreeSlot(ShiftSeenBy(w))
       THEN /\ WriteShift(w, [ShiftSeenBy(w) EXCEPT !.acceptedCount = @ + 1])
            /\ Goto(w, "promote")
       ELSE /\ Goto(w, "commit")
            /\ UNCHANGED <<shift, shiftW, shiftLock>>
    /\ UNCHANGED <<app, appW, appLock, applicant, req>>

\* application.update WHERE id = ... AND status = 'waitlisted': when somebody
\* else has moved the row meanwhile, P2025 rolls the whole withdrawal back.
Promote(w) ==
    /\ pc[w] = "promote"
    /\ BlockedBy(w) = {}
    /\ app[req[w].app].status = "waitlisted"
    /\ WriteApp(w, req[w].app, "accepted", "ApplicationAccepted")
    /\ Goto(w, "commit")
    /\ UNCHANGED <<shift, shiftW, shiftLock, applicant, req>>

PromoteStale(w) ==
    /\ pc[w] = "promote"
    /\ app[req[w].app].status # "waitlisted"
    /\ Fail(w)

-----------------------------------------------------------------------------
(* CancelShift *)

CancelRead(w) ==
    /\ pc[w] = "readForCancel"
    /\ shift.status = "scheduled"
    /\ Goto(w, "collect")
    /\ UNCHANGED <<rowVars, req>>

CollectAffected(w) ==
    /\ pc[w] = "collect"
    /\ req' = [req EXCEPT ![w].rows = {a \in App : app[a].status \in Active}]
    /\ Goto(w, "cancelShift")
    /\ UNCHANGED rowVars

\* The loop over affectedApplications, whose order findMany leaves open: the
\* next statement updates one of `rows`, and with none left it is the COMMIT.
NextAffected(w, rows) ==
    \/ /\ rows = {}
       /\ req' = [req EXCEPT ![w] = [@ EXCEPT !.app = 0, !.rows = {}]]
       /\ Goto(w, "commit")
    \/ \E a \in rows :
          /\ req' = [req EXCEPT ![w] = [@ EXCEPT !.app = a, !.rows = rows \ {a}]]
          /\ Goto(w, "declineAffected")

CancelWrite(w) ==
    /\ pc[w] = "cancelShift"
    /\ BlockedBy(w) = {}
    /\ shift.status = "scheduled"
    /\ WriteShift(w, [status |-> "cancelled", acceptedCount |-> 0])
    /\ NextAffected(w, req[w].rows)
    /\ UNCHANGED <<app, appW, appLock, applicant>>

\* Faulty variant: the transaction is tried again when no row matched.
CancelStaleRetries(w) ==
    /\ pc[w] = "cancelShift"
    /\ shift.status # "scheduled"
    /\ RollbackRows(w)
    /\ Goto(w, "collect")
    /\ UNCHANGED req

CancelStale(w) ==
    /\ pc[w] = "cancelShift"
    /\ shift.status # "scheduled"
    /\ Fail(w)

\* application.update WHERE id = ...: whatever the row's status is by now.
DeclineAffected(w) ==
    /\ pc[w] = "declineAffected"
    /\ BlockedBy(w) = {}
    /\ WriteApp(w, req[w].app, "declined", "ApplicationDeclined")
    /\ NextAffected(w, req[w].rows)
    /\ UNCHANGED <<shift, shiftW, shiftLock, applicant>>

-----------------------------------------------------------------------------
(* The end of a transaction. *)

Commit(w) ==
    /\ pc[w] = "commit"
    /\ CommitRows(w)
    /\ Done(w)

\* Workers that wait for one another, which PostgreSQL's deadlock detector finds.
Deadlocked(w) ==
    \E ring \in SUBSET Worker :
        /\ w \in ring
        /\ \A v \in ring : BlockedBy(v) \cap ring # {}

DeadlockVictim(w) == Deadlocked(w) /\ Fail(w)

\* Prisma's five-second limit on an interactive transaction, a lost connection
\* or a crash of the server: the transaction is rolled back at any statement.
Lose(w) == pc[w] \in TxSteps /\ Fail(w)

Statement(w) ==
    \/ ApplyReadShift(w) \/ ApplyFindExisting(w) \/ InsertApplication(w)
    \/ InsertDuplicate(w) \/ DecideRead(w) \/ TakeSlot(w) \/ DecideWrite(w)
    \/ DecideStale(w) \/ WithdrawRead(w) \/ WithdrawWrite(w) \/ FreeSlot(w)
    \/ FindWaitlisted(w) \/ ReclaimSlot(w) \/ Promote(w) \/ PromoteStale(w)
    \/ CancelRead(w) \/ CollectAffected(w) \/ CancelWrite(w) \/ CancelStale(w)
    \/ DeclineAffected(w) \/ Commit(w)

Next == \E w \in Worker :
    Receive(w) \/ Refuse(w) \/ Statement(w) \/ DeadlockVictim(w) \/ Lose(w)

\* A request that has begun goes on: the code awaits each statement and does
\* nothing else, PostgreSQL queues the waiters of a row lock first come first
\* served (so a waiter that can go on again and again does), and its deadlock
\* detector ends a deadlock.  Clients need not call, and nothing need fail.
Fairness == \A w \in Worker :
    /\ SF_vars(Statement(w))
    /\ WF_vars(Refuse(w))
    /\ WF_vars(DeadlockVictim(w))

Spec == Init /\ [][Next]_vars
FairSpec == Spec /\ Fairness

-----------------------------------------------------------------------------
(* Properties. *)

\* Shift invariant 3: the counter never leaves 0 .. capacity, not even inside
\* a transaction, however decisions, withdrawals and a cancellation interleave.
SlotsWithinCapacity ==
    shift.acceptedCount \in 0 .. Capacity /\ shiftW.acceptedCount \in 0 .. Capacity

\* Application invariant 1: one applicant never has two live applications for
\* the shift, though the check for one is read outside the transaction.
OneActiveApplication ==
    \A a, b \in App :
        app[a].status \in Active /\ app[b].status \in Active /\ a # b
            => applicant[a] # applicant[b]

\* Once declined or withdrawn an application is never live again, whatever
\* decision, promotion or withdrawal was under way when that was committed.
TerminalStaysTerminal ==
    [][\A a \in App : app[a].status \in Terminal => app'[a].status \in Terminal]_vars

\* The newest event of an application names its status, also when a decision
\* ends in another outcome than the one asked for: consumers see no other.
EventMatchesStatus ==
    \A a \in App :
        app[a].event = CASE app[a].status = "pending"    -> "ApplicationSubmitted"
                         [] app[a].status = "accepted"   -> "ApplicationAccepted"
                         [] app[a].status = "waitlisted" -> "ApplicationWaitlisted"
                         [] app[a].status = "declined"   -> "ApplicationDeclined"
                         [] app[a].status = "withdrawn"  -> "ApplicationWithdrawn"
                         [] OTHER -> "none"

\* Application invariant 2: an application becomes accepted only in a commit
\* that leaves a slot taken and frees none: a decision takes one, a promotion
\* keeps the one the withdrawal freed.
AcceptanceTakesSlot ==
    [][(\E a \in App : app[a].status # "accepted" /\ app'[a].status = "accepted")
          => /\ shift'.acceptedCount >= shift.acceptedCount
             /\ shift'.acceptedCount > 0]_vars

Accepted == {a \in App : app[a].status = "accepted"}

\* The counter of a scheduled shift counts its accepted applications.
SlotsAccounted ==
    shift.status = "scheduled" => shift.acceptedCount = Cardinality(Accepted)

\* That holds under every interleaving of applications, decisions and a
\* cancellation, as long as no withdrawal has been committed.
SlotsAccountedUntilWithdrawal ==
    (\A a \in App : app[a].status # "withdrawn") => SlotsAccounted

\* Every request ends, although withdrawals lock the application before the
\* shift and acceptances and the cancellation the shift before applications.
RequestsEnd == \A w \in Worker : pc[w] # "idle" ~> pc[w] = "idle"

Booking == INSTANCE SlotBooking WITH
    status <- [a \in App |-> app[a].status], 
    owner <- [a \in App |-> IF app[a].status = "absent" THEN NoPerson ELSE applicant[a]],
    shiftStatus <- shift.status, taken <- shift.acceptedCount

\* Requests that do not overlap implement the atomic use cases.
BookingSpec == Booking!Spec
=============================================================================
