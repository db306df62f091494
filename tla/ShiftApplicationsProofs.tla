----------------------- MODULE ShiftApplicationsProofs -----------------------
(***************************************************************************)
(* Theorems about ShiftApplications, for any number of workers, applicants *)
(* and slots.  The invariant IInv relates the committed version of a row   *)
(* to the working version an open transaction may turn it into; it is what *)
(* every statement and every COMMIT or ROLLBACK preserves.                 *)
(***************************************************************************)
EXTENDS ShiftApplications, FiniteSetTheorems, TLAPS

USE DEF App, Active, Terminal, AppStatus, Decisions, Operations, EventTypes,
        ReadSteps, TxSteps

\* An unlocked row has one version.
OneVersion ==
    /\ shiftLock = NoWorker => shiftW = shift
    /\ \A a \in App : appLock[a] = NoWorker => appW[a] = app[a]

\* A request that decides holds a status that its decision may leave.
DecisionLocals ==
    \A w \in Worker :
        /\ pc[w] \in {"takeSlot", "decide"} =>
              /\ req[w].seen \in {"pending", "waitlisted"}
              /\ req[w].outcome \in {"accepted", "waitlisted", "declined"}
        /\ pc[w] \in {"readApplication", "takeSlot", "decide"} => req[w].app \in App

\* A working version never takes a committed row back.
NoWayBack ==
    \A a \in App :
        /\ appW[a].status = "absent" => app[a].status = "absent"
        /\ app[a].status \in Terminal => appW[a].status \in Terminal

\* The unique index over everything that is, or may be, in it.
UniqueIndex ==
    \A a, b \in App :
        MaybeActive(a) /\ MaybeActive(b) /\ a # b => applicant[a] # applicant[b]

\* EventMatchesStatus, of working versions as well.
EventFits(row) ==
    /\ row.status = "absent"     <=> row.event = "none"
    /\ row.status = "pending"    <=> row.event = "ApplicationSubmitted"
    /\ row.status = "accepted"   <=> row.event = "ApplicationAccepted"
    /\ row.status = "waitlisted" <=> row.event = "ApplicationWaitlisted"
    /\ row.status = "declined"   <=> row.event = "ApplicationDeclined"
    /\ row.status = "withdrawn"  <=> row.event = "ApplicationWithdrawn"
EventsFit == \A a \in App : EventFits(app[a]) /\ EventFits(appW[a])

IInv ==
    /\ TypeOK
    /\ OneVersion
    /\ DecisionLocals
    /\ NoWayBack
    /\ UniqueIndex
    /\ EventsFit
    /\ SlotsWithinCapacity

-----------------------------------------------------------------------------
(* Type correctness. *)

LEMMA TypeInit == Init => TypeOK
  BY CapacityAssumption
     DEF Init, TypeOK, ShiftRow, AppRow, Request, NoRequest, Absent

\* The rows stay typed when a transaction ends.
LEMMA RowsTyped ==
  ASSUME TypeOK, NEW w \in Worker, CommitRows(w) \/ RollbackRows(w)
  PROVE  /\ shift' \in ShiftRow /\ shiftW' \in ShiftRow
         /\ shiftLock' \in Worker \cup {NoWorker}
         /\ app' \in [App -> AppRow] /\ appW' \in [App -> AppRow]
         /\ appLock' \in [App -> Worker \cup {NoWorker}]
         /\ applicant' \in [App -> Person \cup {NoPerson}]
  BY DEF TypeOK, CommitRows, RollbackRows, ShiftSeenBy, AppSeenBy

\* The locals of a request after an assignment to one or two of them.
LEMMA RequestUpdates ==
  ASSUME NEW r \in Request, NEW a \in App \cup {0}, NEW s \in AppStatus,
         NEW o \in AppStatus, NEW rows \in SUBSET App
  PROVE  /\ [r EXCEPT !.seen = s] \in Request
         /\ [r EXCEPT !.outcome = o] \in Request
         /\ [r EXCEPT !.rows = rows] \in Request
         /\ [r EXCEPT !.seen = s, !.outcome = o] \in Request
         /\ [r EXCEPT !.app = a, !.seen = s] \in Request
         /\ [r EXCEPT !.app = a, !.rows = rows] \in Request
  <1>1. [r EXCEPT !.seen = s] \in Request
    BY DEF Request
  <1>2. [r EXCEPT !.outcome = o] \in Request
    BY DEF Request
  <1>3. [r EXCEPT !.rows = rows] \in Request
    BY DEF Request
  <1>4. [r EXCEPT !.seen = s, !.outcome = o] \in Request
    BY DEF Request
  <1>5. [r EXCEPT !.app = a, !.seen = s] \in Request
    BY DEF Request
  <1>6. [r EXCEPT !.app = a, !.rows = rows] \in Request
    BY DEF Request
  <1>7. QED
    BY <1>1, <1>2, <1>3, <1>4, <1>5, <1>6

LEMMA DecisionUpdates ==
  ASSUME NEW r \in Request, NEW s \in AppStatus, NEW o \in AppStatus
  PROVE  /\ [r EXCEPT !.outcome = o].seen = r.seen
         /\ [r EXCEPT !.outcome = o].outcome = o
         /\ [r EXCEPT !.outcome = o].app = r.app
         /\ [r EXCEPT !.seen = s, !.outcome = o].seen = s
         /\ [r EXCEPT !.seen = s, !.outcome = o].outcome = o
         /\ [r EXCEPT !.seen = s, !.outcome = o].app = r.app
  BY DEF Request

\* One worker's locals and position change, the others' stay.
LEMMA LocalsSet ==
  ASSUME TypeOK, NEW w \in Worker, NEW r \in Request, req' = [req EXCEPT ![w] = r]
  PROVE  /\ req' \in [Worker -> Request]
         /\ req'[w] = r
         /\ \A v \in Worker : v # w => req'[v] = req[v]
  BY DEF TypeOK

LEMMA PositionSet ==
  ASSUME TypeOK, NEW w \in Worker, NEW step \in {"idle"} \cup ReadSteps \cup TxSteps,
         Goto(w, step)
  PROVE  /\ pc' \in [Worker -> {"idle"} \cup ReadSteps \cup TxSteps]
         /\ pc'[w] = step
         /\ \A v \in Worker : v # w => pc'[v] = pc[v]
  BY DEF TypeOK, Goto

\* What every step does to the locals and positions of all requests.
OthersKeepTheirs(w) ==
    /\ req' \in [Worker -> Request]
    /\ pc' \in [Worker -> {"idle"} \cup ReadSteps \cup TxSteps]
    /\ \A v \in Worker : v # w => req'[v] = req[v] /\ pc'[v] = pc[v]

LEMMA LocalsReceived ==
  ASSUME TypeOK, NEW w \in Worker, Receive(w)
  PROVE  /\ OthersKeepTheirs(w)
         /\ pc'[w] \in ReadSteps
         /\ pc'[w] = "readApplication" => req'[w].app \in App
  <1> USE DEF OthersKeepTheirs
  <1>1. CASE \E p \in Person :
                /\ req' = [req EXCEPT ![w] = [NoRequest EXCEPT !.op = "apply", !.person = p]]
                /\ Goto(w, "readShift")
    <2>1. PICK p \in Person :
                /\ req' = [req EXCEPT ![w] = [NoRequest EXCEPT !.op = "apply", !.person = p]]
                /\ Goto(w, "readShift")
      BY <1>1
    <2> DEFINE r == [NoRequest EXCEPT !.op = "apply", !.person = p]
    <2>2. r \in Request
      BY DEF NoRequest, Request
    <2>3. req' = [req EXCEPT ![w] = r]
      BY <2>1
    <2>4. Goto(w, "readShift")
      BY <2>1
    <2> HIDE DEF r
    <2>5. req' \in [Worker -> Request] /\ \A v \in Worker : v # w => req'[v] = req[v]
      BY <2>2, <2>3, LocalsSet
    <2>6. QED
      BY <2>4, <2>5, PositionSet
  <1>2. CASE \E a \in App, op \in Decisions \cup {"withdraw"} :
                /\ req' = [req EXCEPT ![w] = [NoRequest EXCEPT !.op = op, !.app = a]]
                /\ Goto(w, "readApplication")
    <2>1. PICK a \in App, op \in Decisions \cup {"withdraw"} :
                /\ req' = [req EXCEPT ![w] = [NoRequest EXCEPT !.op = op, !.app = a]]
                /\ Goto(w, "readApplication")
      BY <1>2
    <2>2. /\ [NoRequest EXCEPT !.op = op, !.app = a] \in Request
          /\ [NoRequest EXCEPT !.op = op, !.app = a].app = a
      BY DEF NoRequest, Request
    <2>3. QED
      BY <2>1, <2>2, LocalsSet, PositionSet
  <1>3. CASE /\ req' = [req EXCEPT ![w] = [NoRequest EXCEPT !.op = "cancel"]]
             /\ Goto(w, "readForCancel")
    <2> DEFINE r == [NoRequest EXCEPT !.op = "cancel"]
    <2>1. r \in Request
      BY DEF NoRequest, Request
    <2>2. req' = [req EXCEPT ![w] = r]
      BY <1>3
    <2>3. Goto(w, "readForCancel")
      BY <1>3
    <2> HIDE DEF r
    <2>4. req' \in [Worker -> Request] /\ \A v \in Worker : v # w => req'[v] = req[v]
      BY <2>1, <2>2, LocalsSet
    <2>5. QED
      BY <2>3, <2>4, PositionSet
  <1>4. QED
    BY <1>1, <1>2, <1>3 DEF Receive

LEMMA LocalsDone ==
  ASSUME TypeOK, NEW w \in Worker, Done(w)
  PROVE  OthersKeepTheirs(w) /\ pc'[w] = "idle"
  <1>1. NoRequest \in Request
    BY DEF NoRequest, Request
  <1>2. QED
    BY <1>1, LocalsSet, PositionSet DEF Done, OthersKeepTheirs

LEMMA LocalsDecided ==
  ASSUME TypeOK, NEW w \in Worker, DecideRead(w), req[w].app \in App
  PROVE  /\ OthersKeepTheirs(w)
         /\ pc'[w] \in {"takeSlot", "decide"}
         /\ req'[w].seen \in {"pending", "waitlisted"}
         /\ req'[w].outcome \in {"accepted", "waitlisted", "declined"}
         /\ req'[w].app \in App
  <1>1. PICK s \in {"pending", "waitlisted"}, o \in {"accepted", "waitlisted", "declined"},
             step \in {"takeSlot", "decide"} :
            /\ req' = [req EXCEPT ![w] = [@ EXCEPT !.seen = s, !.outcome = o]]
            /\ Goto(w, step)
    BY DEF DecideRead, DecidableFrom
  <1>2. req[w] \in Request
    BY DEF TypeOK
  <1>3. [req[w] EXCEPT !.seen = s, !.outcome = o] \in Request
    BY <1>2, RequestUpdates
  <1>4. /\ [req[w] EXCEPT !.seen = s, !.outcome = o].seen = s
        /\ [req[w] EXCEPT !.seen = s, !.outcome = o].outcome = o
        /\ [req[w] EXCEPT !.seen = s, !.outcome = o].app = req[w].app
    BY <1>2, DecisionUpdates
  <1>5. QED
    BY <1>1, <1>3, <1>4, LocalsSet, PositionSet DEF OthersKeepTheirs

LEMMA LocalsTaken ==
  ASSUME TypeOK, NEW w \in Worker, TakeSlot(w)
  PROVE  /\ OthersKeepTheirs(w)
         /\ pc'[w] = "decide"
         /\ req'[w].seen = req[w].seen /\ req'[w].app = req[w].app
         /\ req'[w].outcome \in {req[w].outcome, "waitlisted"}
  <1>1. req[w] \in Request
    BY DEF TypeOK
  <1>2. [req[w] EXCEPT !.outcome = "waitlisted"] \in Request
    BY <1>1, RequestUpdates
  <1>3. /\ [req[w] EXCEPT !.outcome = "waitlisted"].seen = req[w].seen
        /\ [req[w] EXCEPT !.outcome = "waitlisted"].outcome = "waitlisted"
        /\ [req[w] EXCEPT !.outcome = "waitlisted"].app = req[w].app
    BY <1>1, DecisionUpdates
  <1>4. CASE req' = [req EXCEPT ![w].outcome = "waitlisted"]
    BY <1>2, <1>3, <1>4, LocalsSet, PositionSet DEF OthersKeepTheirs, TakeSlot
  <1>5. CASE UNCHANGED req
    BY <1>5, PositionSet DEF OthersKeepTheirs, TakeSlot, TypeOK
  <1>6. QED
    BY <1>4, <1>5 DEF TakeSlot

LEMMA LocalsNext ==
  ASSUME TypeOK, NEW w \in Worker, NextAffected(w, req[w].rows)
  PROVE  OthersKeepTheirs(w) /\ pc'[w] \in {"commit", "declineAffected"}
  <1>1. req[w] \in Request /\ req[w].rows \in SUBSET App
    BY DEF TypeOK, Request
  <1>2. PICK a \in App \cup {0}, rows \in SUBSET App, step \in {"commit", "declineAffected"} :
            /\ req' = [req EXCEPT ![w] = [@ EXCEPT !.app = a, !.rows = rows]]
            /\ Goto(w, step)
    BY <1>1 DEF NextAffected
  <1>3. [req[w] EXCEPT !.app = a, !.rows = rows] \in Request
    BY <1>1, RequestUpdates
  <1>4. QED
    BY <1>2, <1>3, LocalsSet, PositionSet DEF OthersKeepTheirs

LEMMA EventTyped ==
  ASSUME NEW status
  PROVE  EventOf(status) \in EventTypes
  BY DEF EventOf

\* The counter of a typed shift row may be moved by one.
LEMMA SlotMoved ==
  ASSUME NEW row \in ShiftRow
  PROVE  /\ [row EXCEPT !.acceptedCount = @ + 1] \in ShiftRow
         /\ [row EXCEPT !.acceptedCount = @ + 1].acceptedCount = row.acceptedCount + 1
         /\ [row EXCEPT !.acceptedCount = @ - 1] \in ShiftRow
         /\ [row EXCEPT !.acceptedCount = @ - 1].acceptedCount = row.acceptedCount - 1
  BY DEF ShiftRow

\* One step of a worker, spelled out: every case split below goes by it.
StepOf(w) ==
    \/ Receive(w) \/ Refuse(w) \/ ApplyReadShift(w) \/ ApplyFindExisting(w)
    \/ InsertApplication(w) \/ DecideRead(w) \/ TakeSlot(w) \/ DecideWrite(w)
    \/ WithdrawRead(w) \/ WithdrawWrite(w) \/ FreeSlot(w) \/ FindWaitlisted(w)
    \/ ReclaimSlot(w) \/ Promote(w) \/ CancelRead(w) \/ CollectAffected(w)
    \/ CancelWrite(w) \/ DeclineAffected(w) \/ Commit(w) \/ Fail(w)

LEMMA NextSteps ==
  ASSUME Next
  PROVE  \E w \in Worker : StepOf(w)
  BY DEF Next, Statement, StepOf, InsertDuplicate, DecideStale, PromoteStale,
         CancelStale, DeadlockVictim, Lose

LEMMA LocalsStep ==
  ASSUME TypeOK, NEW w \in Worker, StepOf(w)
  PROVE  OthersKeepTheirs(w)
  <1>0. req[w] \in Request
    BY DEF TypeOK
  <1>1. CASE Receive(w)
    BY <1>1, LocalsReceived
  <1>2. CASE Done(w)
    BY <1>2, LocalsDone
  <1>3. CASE DecideRead(w)
    <2>1. PICK s \in AppStatus, o \in AppStatus, step \in {"takeSlot", "decide"} :
              /\ req' = [req EXCEPT ![w] = [@ EXCEPT !.seen = s, !.outcome = o]]
              /\ Goto(w, step)
      BY <1>3 DEF DecideRead, DecidableFrom
    <2>2. [req[w] EXCEPT !.seen = s, !.outcome = o] \in Request
      BY <1>0, RequestUpdates
    <2>3. QED
      BY <2>1, <2>2, LocalsSet, PositionSet DEF OthersKeepTheirs
  <1>4. CASE TakeSlot(w)
    BY <1>4, LocalsTaken
  <1>5. CASE WithdrawRead(w)
    <2>1. PICK s \in AppStatus : req' = [req EXCEPT ![w].seen = s]
      BY <1>5 DEF WithdrawRead
    <2>2. [req[w] EXCEPT !.seen = s] \in Request
      BY <1>0, RequestUpdates
    <2>3. QED
      BY <1>5, <2>1, <2>2, LocalsSet, PositionSet DEF OthersKeepTheirs, WithdrawRead
  <1>6. CASE FindWaitlisted(w)
    <2>1. CASE UNCHANGED req /\ Goto(w, "commit")
      BY <2>1, PositionSet DEF OthersKeepTheirs, TypeOK
    <2>2. CASE \E a \in App : req' = [req EXCEPT ![w] = [@ EXCEPT !.app = a, !.seen = "waitlisted"]]
                             /\ Goto(w, "reclaimSlot")
      <3>1. PICK a \in App : req' = [req EXCEPT ![w] = [@ EXCEPT !.app = a, !.seen = "waitlisted"]]
                             /\ Goto(w, "reclaimSlot")
        BY <2>2
      <3>2. [req[w] EXCEPT !.app = a, !.seen = "waitlisted"] \in Request
        BY <1>0, RequestUpdates
      <3>3. QED
        BY <3>1, <3>2, LocalsSet, PositionSet DEF OthersKeepTheirs
    <2>3. QED
      BY <1>6, <2>1, <2>2 DEF FindWaitlisted
  <1>7. CASE CollectAffected(w)
    <2>1. PICK rows \in SUBSET App : req' = [req EXCEPT ![w].rows = rows]
      BY <1>7 DEF CollectAffected
    <2>2. [req[w] EXCEPT !.rows = rows] \in Request
      BY <1>0, RequestUpdates
    <2>3. OthersKeepTheirs(w)!1 /\ \A v \in Worker : v # w => req'[v] = req[v]
      BY <2>1, <2>2, LocalsSet DEF OthersKeepTheirs
    <2>4. QED
      BY <1>7, <2>3, PositionSet DEF OthersKeepTheirs, CollectAffected
  <1>8. CASE CancelWrite(w) \/ DeclineAffected(w)
    BY <1>8, LocalsNext DEF CancelWrite, DeclineAffected
  <1>9. CASE UNCHANGED req /\ \E step \in ReadSteps \cup TxSteps : Goto(w, step)
    BY <1>9, PositionSet DEF OthersKeepTheirs, TypeOK
  <1>10. CASE ApplyReadShift(w) \/ ApplyFindExisting(w) \/ InsertApplication(w)
               \/ DecideWrite(w) \/ Promote(w) \/ CancelRead(w) \/ FreeSlot(w)
    BY <1>9, <1>10 DEF ApplyReadShift, ApplyFindExisting, InsertApplication,
                       DecideWrite, Promote, CancelRead, FreeSlot
  <1>11. CASE WithdrawWrite(w) \/ ReclaimSlot(w)
    BY <1>9, <1>11 DEF WithdrawWrite, ReclaimSlot
  <1>12. QED
    BY <1>1, <1>2, <1>3, <1>4, <1>5, <1>6, <1>7, <1>8, <1>10, <1>11
       DEF StepOf, Refuse, Commit, Fail

RowsTypeOK ==
    /\ shift \in ShiftRow /\ shiftW \in ShiftRow
    /\ shiftLock \in Worker \cup {NoWorker}
    /\ app \in [App -> AppRow] /\ appW \in [App -> AppRow]
    /\ appLock \in [App -> Worker \cup {NoWorker}]
    /\ applicant \in [App -> Person \cup {NoPerson}]

\* The statements that write a row, and what they write.
LEMMA RowWrites ==
  ASSUME TypeOK, NEW w \in Worker, NEW a, NEW status \in AppStatus, NEW event \in EventTypes,
         WriteApp(w, a, status, event)
  PROVE  /\ app' \in [App -> AppRow] /\ appW' \in [App -> AppRow]
         /\ appLock' \in [App -> Worker \cup {NoWorker}]
  <1>1. [status |-> status, event |-> event] \in AppRow
    BY DEF AppRow
  <1>2. QED
    BY <1>1 DEF TypeOK, WriteApp

LEMMA ShiftWrites ==
  ASSUME TypeOK, NEW w \in Worker, NEW row \in ShiftRow, WriteShift(w, row)
  PROVE  /\ shift' \in ShiftRow /\ shiftW' \in ShiftRow
         /\ shiftLock' \in Worker \cup {NoWorker}
  BY DEF TypeOK, WriteShift

LEMMA RowsStep ==
  ASSUME TypeOK, NEW w \in Worker, StepOf(w)
  PROVE  RowsTypeOK'
  <1>0. RowsTypeOK
    BY DEF TypeOK, RowsTypeOK
  <1> USE DEF RowsTypeOK
  <1>1. CASE UNCHANGED rowVars
    BY <1>0, <1>1 DEF rowVars
  <1>2. CASE CommitRows(w) \/ RollbackRows(w)
    BY <1>2, RowsTyped
  <1>3. CASE InsertApplication(w)
    <2>1. PICK a \in App : /\ WriteApp(w, a, "pending", "ApplicationSubmitted")
                           /\ applicant' = [applicant EXCEPT ![a] = req[w].person]
      BY <1>3 DEF InsertApplication, FreeIds
    <2>2. req[w].person \in Person \cup {NoPerson}
      BY DEF TypeOK, Request
    <2>3. applicant' \in [App -> Person \cup {NoPerson}]
      BY <1>0, <2>1, <2>2
    <2>4. QED
      BY <1>0, <1>3, <2>1, <2>3, RowWrites DEF InsertApplication
  <1>4. CASE TakeSlot(w)
    BY <1>0, <1>4, ShiftWrites, SlotMoved DEF TakeSlot
  <1>5. CASE DecideWrite(w)
    <2>1. req[w].outcome \in AppStatus
      BY DEF TypeOK, Request
    <2>2. QED
      BY <1>0, <1>5, <2>1, RowWrites, EventTyped DEF DecideWrite
  <1>6. CASE WithdrawWrite(w)
    BY <1>0, <1>6, RowWrites DEF WithdrawWrite
  <1>7. CASE FreeSlot(w)
    BY <1>0, <1>7, ShiftWrites, SlotMoved DEF FreeSlot
  <1>8. CASE ReclaimSlot(w)
    <2>1. ShiftSeenBy(w) \in ShiftRow
      BY <1>0 DEF ShiftSeenBy
    <2>2. QED
      BY <1>0, <1>8, <2>1, ShiftWrites, SlotMoved DEF ReclaimSlot
  <1>9. CASE Promote(w)
    BY <1>0, <1>9, RowWrites DEF Promote
  <1>10. CASE CancelWrite(w)
    <2>1. [status |-> "cancelled", acceptedCount |-> 0] \in ShiftRow
      BY DEF ShiftRow
    <2>2. QED
      BY <1>0, <1>10, <2>1, ShiftWrites DEF CancelWrite
  <1>11. CASE DeclineAffected(w)
    BY <1>0, <1>11, RowWrites DEF DeclineAffected
  <1>12. QED
    BY <1>1, <1>2, <1>3, <1>4, <1>5, <1>6, <1>7, <1>8, <1>9, <1>10, <1>11
       DEF StepOf, Receive, Refuse, ApplyReadShift, ApplyFindExisting, DecideRead,
           WithdrawRead, FindWaitlisted, CancelRead, CollectAffected, Commit, Fail

LEMMA TypeStep ==
  ASSUME TypeOK, NEW w \in Worker, StepOf(w)
  PROVE  TypeOK'
  BY LocalsStep, RowsStep DEF TypeOK, RowsTypeOK, OthersKeepTheirs

\* Every reachable state is well typed: TypeOK is inductive.
THEOREM TypeCorrect == Spec => []TypeOK
  <1>1. TypeOK /\ [Next]_vars => TypeOK'
    <2>1. ASSUME TypeOK, Next PROVE TypeOK'
      BY <2>1, NextSteps, TypeStep
    <2>2. ASSUME TypeOK, UNCHANGED vars PROVE TypeOK'
      BY <2>2 DEF vars, rowVars, TypeOK
    <2>3. QED
      BY <2>1, <2>2
  <1>2. QED
    BY <1>1, TypeInit, PTL DEF Spec

-----------------------------------------------------------------------------
(* The invariant. *)

LEMMA InvInit == Init => IInv
  <1> SUFFICES ASSUME Init PROVE IInv
    OBVIOUS
  <1>1. TypeOK
    BY TypeInit
  <1>2. OneVersion /\ NoWayBack /\ UniqueIndex /\ EventsFit
    BY DEF Init, OneVersion, NoWayBack, UniqueIndex, MaybeActive, Absent, EventsFit, EventFits
  <1>3. DecisionLocals
    BY DEF Init, DecisionLocals
  <1>4. SlotsWithinCapacity
    BY CapacityAssumption DEF Init, SlotsWithinCapacity
  <1>5. QED
    BY <1>1, <1>2, <1>3, <1>4 DEF IInv

\* An UPDATE of an application: it makes the row terminal, or finds it pending
\* or waitlisted; and it writes the event of the status beside it.
Updates(w) ==
    \E a \in App \cup {0}, s \in AppStatus \ {"absent"}, e \in EventTypes :
        /\ WriteApp(w, a, s, e)
        /\ EventFits([status |-> s, event |-> e])
        /\ s \in Terminal \/ app[a].status \in {"pending", "waitlisted"}
        /\ UNCHANGED applicant

LEMMA EventOfFits ==
  ASSUME NEW s \in {"accepted", "waitlisted", "declined"}
  PROVE  EventFits([status |-> s, event |-> EventOf(s)])
  <1>1. CASE s = "accepted"
    BY <1>1 DEF EventOf, EventFits
  <1>2. CASE s = "waitlisted"
    BY <1>2 DEF EventOf, EventFits
  <1>3. CASE s = "declined"
    BY <1>3 DEF EventOf, EventFits
  <1>4. QED
    BY <1>1, <1>2, <1>3

\* What a step can do to the application rows.
LEMMA AppEffects ==
  ASSUME IInv, NEW w \in Worker, StepOf(w)
  PROVE  \/ UNCHANGED <<app, appW, appLock, applicant>>
         \/ InsertApplication(w)
         \/ Updates(w)
         \/ CommitRows(w)
         \/ RollbackRows(w)
  <1>1. req[w].app \in App \cup {0}
    BY DEF IInv, TypeOK, Request
  <1>2. CASE DecideWrite(w)
    <2>1. /\ req[w].seen \in {"pending", "waitlisted"}
          /\ req[w].outcome \in {"accepted", "waitlisted", "declined"}
      BY <1>2 DEF IInv, DecisionLocals, DecideWrite
    <2>2. QED
      BY <1>1, <1>2, <2>1, EventTyped, EventOfFits DEF DecideWrite, Updates
  <1>3. CASE WithdrawWrite(w)
    <2>1. EventFits([status |-> "withdrawn", event |-> "ApplicationWithdrawn"])
      BY DEF EventFits
    <2>2. QED
      BY <1>1, <1>3, <2>1 DEF WithdrawWrite, Updates
  <1>4. CASE Promote(w)
    <2>1. EventFits([status |-> "accepted", event |-> "ApplicationAccepted"])
      BY DEF EventFits
    <2>2. QED
      BY <1>1, <1>4, <2>1 DEF Promote, Updates
  <1>5. CASE DeclineAffected(w)
    <2>1. EventFits([status |-> "declined", event |-> "ApplicationDeclined"])
      BY DEF EventFits
    <2>2. QED
      BY <1>1, <1>5, <2>1 DEF DeclineAffected, Updates
  <1>6. QED
    BY <1>2, <1>3, <1>4, <1>5
       DEF StepOf, rowVars, Receive, Refuse, ApplyReadShift, ApplyFindExisting,
           DecideRead, TakeSlot, WithdrawRead, FreeSlot, FindWaitlisted, ReclaimSlot,
           CancelRead, CollectAffected, CancelWrite, Commit, Fail

LEMMA NoWayBackStep ==
  ASSUME IInv, NEW w \in Worker, StepOf(w)
  PROVE  NoWayBack'
  <1> USE DEF IInv, TypeOK, NoWayBack
  <1>1. CASE UNCHANGED <<app, appW, appLock, applicant>>
    BY <1>1
  <1>2. CASE InsertApplication(w)
    BY <1>2 DEF InsertApplication, WriteApp, FreeIds
  <1>3. CASE Updates(w)
    BY <1>3 DEF Updates, WriteApp
  <1>4. CASE CommitRows(w)
    BY <1>4 DEF CommitRows, AppSeenBy
  <1>5. CASE RollbackRows(w)
    BY <1>5 DEF RollbackRows
  <1>6. QED
    BY <1>1, <1>2, <1>3, <1>4, <1>5, AppEffects

LEMMA UniqueIndexStep ==
  ASSUME IInv, NEW w \in Worker, StepOf(w)
  PROVE  UniqueIndex'
  <1> USE DEF IInv, TypeOK, UniqueIndex, MaybeActive
  <1>1. CASE UNCHANGED <<app, appW, appLock, applicant>>
    BY <1>1
  <1>2. CASE InsertApplication(w)
    <2>1. PICK a \in App :
              /\ appW' = [appW EXCEPT ![a] = [status |-> "pending",
                                             event |-> "ApplicationSubmitted"]]
              /\ applicant' = [applicant EXCEPT ![a] = req[w].person]
      BY <1>2 DEF InsertApplication, WriteApp, FreeIds
    <2>2. \A b \in App : applicant[b] = req[w].person => ~MaybeActive(b)
      BY <1>2 DEF InsertApplication, UniqueIndexAllows, IndexEntries
    <2>3. UNCHANGED app
      BY <1>2 DEF InsertApplication, WriteApp
    <2>4. QED
      BY <2>1, <2>2, <2>3
  <1>3. CASE Updates(w)
    BY <1>3 DEF Updates, WriteApp
  <1>4. CASE CommitRows(w)
    BY <1>4 DEF CommitRows, AppSeenBy
  <1>5. CASE RollbackRows(w)
    BY <1>5 DEF RollbackRows, NoWayBack
  <1>6. QED
    BY <1>1, <1>2, <1>3, <1>4, <1>5, AppEffects

LEMMA EventsFitStep ==
  ASSUME IInv, NEW w \in Worker, StepOf(w)
  PROVE  EventsFit'
  <1> USE DEF IInv, TypeOK, EventsFit
  <1>1. CASE UNCHANGED <<app, appW, appLock, applicant>>
    BY <1>1
  <1>2. CASE InsertApplication(w)
    <2>1. EventFits([status |-> "pending", event |-> "ApplicationSubmitted"])
      BY DEF EventFits
    <2>2. QED
      BY <1>2, <2>1 DEF InsertApplication, WriteApp, FreeIds
  <1>3. CASE Updates(w)
    BY <1>3 DEF Updates, WriteApp
  <1>4. CASE CommitRows(w)
    BY <1>4 DEF CommitRows, AppSeenBy
  <1>5. CASE RollbackRows(w)
    BY <1>5 DEF RollbackRows
  <1>6. QED
    BY <1>1, <1>2, <1>3, <1>4, <1>5, AppEffects

LEMMA OneVersionStep ==
  ASSUME IInv, NEW w \in Worker, StepOf(w)
  PROVE  OneVersion'
  <1> USE WorkerAssumption DEF IInv, TypeOK, OneVersion
  <1>1. \A a \in App : appLock'[a] = NoWorker => appW'[a] = app'[a]
    <2>1. CASE UNCHANGED <<app, appW, appLock, applicant>>
      BY <2>1
    <2>2. CASE InsertApplication(w)
      BY <2>2 DEF InsertApplication, WriteApp, FreeIds
    <2>3. CASE Updates(w)
      BY <2>3 DEF Updates, WriteApp
    <2>4. CASE CommitRows(w)
      BY <2>4 DEF CommitRows, AppSeenBy
    <2>5. CASE RollbackRows(w)
      BY <2>5 DEF RollbackRows
    <2>6. QED
      BY <2>1, <2>2, <2>3, <2>4, <2>5, AppEffects
  <1>2. shiftLock' = NoWorker => shiftW' = shift'
    <2>1. CASE UNCHANGED <<shift, shiftW, shiftLock>>
      BY <2>1
    <2>2. CASE CommitRows(w)
      BY <2>2 DEF CommitRows, ShiftSeenBy
    <2>3. CASE RollbackRows(w)
      BY <2>3 DEF RollbackRows
    <2>4. CASE shiftLock' = w
      BY <2>4
    <2>5. QED
      BY <2>1, <2>2, <2>3, <2>4
         DEF StepOf, rowVars, Receive, Refuse, ApplyReadShift, ApplyFindExisting,
             InsertApplication, DecideRead, TakeSlot, DecideWrite, WithdrawRead,
             WithdrawWrite, FreeSlot, FindWaitlisted, ReclaimSlot, Promote, CancelRead,
             CollectAffected, CancelWrite, DeclineAffected, Commit, Fail, WriteShift
  <1>3. QED
    BY <1>1, <1>2

LEMMA SlotsStep ==
  ASSUME IInv, NEW w \in Worker, StepOf(w)
  PROVE  SlotsWithinCapacity'
  <1> USE CapacityAssumption DEF SlotsWithinCapacity
  <1>0. /\ IInv!1 /\ SlotsWithinCapacity
        /\ shift \in ShiftRow /\ shiftW \in ShiftRow
    BY DEF IInv, TypeOK
  <1>1. CASE UNCHANGED <<shift, shiftW, shiftLock>>
    BY <1>0, <1>1
  <1>2. CASE CommitRows(w)
    BY <1>0, <1>2 DEF CommitRows, ShiftSeenBy
  <1>3. CASE RollbackRows(w)
    BY <1>0, <1>3 DEF RollbackRows
  <1>4. CASE TakeSlot(w)
    <2>1. CASE HasFreeSlot(shift)
      <3>1. /\ shiftW'.acceptedCount = shift.acceptedCount + 1
            /\ UNCHANGED shift
        BY <1>0, <1>4, <2>1, SlotMoved DEF TakeSlot, WriteShift
      <3>2. QED
        BY <1>0, <2>1, <3>1 DEF HasFreeSlot, ShiftRow
    <2>2. CASE ~HasFreeSlot(shift)
      BY <1>1, <1>4, <2>2 DEF TakeSlot
    <2>3. QED
      BY <2>1, <2>2
  <1>5. CASE FreeSlot(w)
    <2>1. CASE shift.acceptedCount > 0
      <3>1. /\ shiftW'.acceptedCount = shift.acceptedCount - 1
            /\ UNCHANGED shift
        BY <1>0, <1>5, <2>1, SlotMoved DEF FreeSlot, WriteShift
      <3>2. QED
        BY <1>0, <2>1, <3>1 DEF ShiftRow
    <2>2. CASE ~(shift.acceptedCount > 0)
      BY <1>1, <1>5, <2>2 DEF FreeSlot
    <2>3. QED
      BY <2>1, <2>2
  <1>6. CASE ReclaimSlot(w)
    <2> DEFINE seen == ShiftSeenBy(w)
    <2>1. /\ seen \in ShiftRow
          /\ seen.acceptedCount \in 0 .. Capacity
      BY <1>0 DEF ShiftSeenBy
    <2> HIDE DEF seen
    <2>2. CASE HasFreeSlot(seen)
      <3>1. /\ shiftW'.acceptedCount = seen.acceptedCount + 1
            /\ UNCHANGED shift
        BY <2>1, <1>6, <2>2, SlotMoved DEF ReclaimSlot, WriteShift, seen
      <3>2. QED
        BY <1>0, <2>1, <2>2, <3>1 DEF HasFreeSlot, ShiftRow
    <2>3. CASE ~HasFreeSlot(seen)
      BY <1>1, <1>6, <2>3 DEF ReclaimSlot, seen
    <2>4. QED
      BY <2>2, <2>3
  <1>7. CASE CancelWrite(w)
    BY <1>0, <1>7 DEF CancelWrite, WriteShift
  <1>8. QED
    BY <1>1, <1>2, <1>3, <1>4, <1>5, <1>6, <1>7
       DEF StepOf, rowVars, Receive, Refuse, ApplyReadShift, ApplyFindExisting,
           InsertApplication, DecideRead, DecideWrite, WithdrawRead, WithdrawWrite,
           FindWaitlisted, Promote, CancelRead, CollectAffected, DeclineAffected,
           Commit, Fail

LEMMA DecisionLocalsStep ==
  ASSUME IInv, NEW w \in Worker, StepOf(w)
  PROVE  DecisionLocals'
  <1>0. TypeOK /\ DecisionLocals
    BY DEF IInv
  <1>1. OthersKeepTheirs(w)
    BY <1>0, LocalsStep
  <1>2. /\ pc'[w] \in {"takeSlot", "decide"} =>
              /\ req'[w].seen \in {"pending", "waitlisted"}
              /\ req'[w].outcome \in {"accepted", "waitlisted", "declined"}
        /\ pc'[w] \in {"readApplication", "takeSlot", "decide"} => req'[w].app \in App
    <2>1. CASE Receive(w)
      BY <1>0, <2>1, LocalsReceived
    <2>2. CASE DecideRead(w)
      <3>1. req[w].app \in App
        BY <1>0, <2>2 DEF DecisionLocals, DecideRead
      <3>2. QED
        BY <1>0, <2>2, <3>1, LocalsDecided
    <2>3. CASE TakeSlot(w)
      <3>1. /\ req[w].seen \in {"pending", "waitlisted"} /\ req[w].app \in App
            /\ req[w].outcome \in {"accepted", "waitlisted", "declined"}
        BY <1>0, <2>3 DEF DecisionLocals, TakeSlot
      <3>2. QED
        BY <1>0, <2>3, <3>1, LocalsTaken
    <2>4. CASE pc'[w] \notin {"readApplication", "takeSlot", "decide"}
      BY <2>4
    <2>5. CASE CancelWrite(w) \/ DeclineAffected(w)
      BY <1>0, <2>4, <2>5, LocalsNext DEF CancelWrite, DeclineAffected
    <2>6. CASE Done(w)
      BY <1>0, <2>4, <2>6, LocalsDone
    <2>7. QED
      BY <1>0, <2>1, <2>2, <2>3, <2>4, <2>5, <2>6
         DEF StepOf, TypeOK, Goto, Refuse, ApplyReadShift, ApplyFindExisting,
             InsertApplication, DecideWrite, WithdrawRead, WithdrawWrite, FreeSlot,
             FindWaitlisted, ReclaimSlot, Promote, CancelRead, CollectAffected,
             Commit, Fail
  <1>3. QED
    BY <1>0, <1>1, <1>2 DEF DecisionLocals, OthersKeepTheirs

LEMMA InvStep ==
  ASSUME IInv, [Next]_vars
  PROVE  IInv'
  <1>1. CASE Next
    <2>1. PICK w \in Worker : StepOf(w)
      BY <1>1, NextSteps
    <2>2. TypeOK'
      BY <2>1, TypeStep DEF IInv
    <2>3. QED
      BY <2>1, <2>2, OneVersionStep, DecisionLocalsStep, NoWayBackStep, UniqueIndexStep,
         EventsFitStep, SlotsStep DEF IInv
  <1>2. CASE UNCHANGED vars
    BY <1>2 DEF vars, rowVars, IInv, TypeOK, OneVersion, DecisionLocals, NoWayBack,
                UniqueIndex, MaybeActive, EventsFit, SlotsWithinCapacity
  <1>3. QED
    BY <1>1, <1>2

LEMMA Invariance == Spec => []IInv
  BY InvInit, InvStep, PTL DEF Spec

-----------------------------------------------------------------------------
(* The promises that hold under every interleaving. *)

\* Shift invariant 3: neither a committed nor an uncommitted counter ever leaves
\* 0 .. capacity, for any number of concurrent decisions and withdrawals.
THEOREM CapacityRespected == Spec => []SlotsWithinCapacity
  <1>1. IInv => SlotsWithinCapacity
    BY DEF IInv
  <1>2. QED
    BY <1>1, Invariance, PTL

\* Application invariant 1: at most one live application per applicant.
THEOREM NoDoubleApplication == Spec => []OneActiveApplication
  <1>1. IInv => OneActiveApplication
    BY DEF IInv, UniqueIndex, MaybeActive, OneActiveApplication
  <1>2. QED
    BY <1>1, Invariance, PTL

\* The newest event of every application names its status.
THEOREM EventsFollowStatus == Spec => []EventMatchesStatus
  <1>1. IInv => EventMatchesStatus
    <2> SUFFICES ASSUME IInv, NEW a \in App
                 PROVE  EventMatchesStatus!(a)
      BY DEF EventMatchesStatus
    <2>1. app[a] \in AppRow /\ EventFits(app[a])
      BY DEF IInv, TypeOK, EventsFit
    <2>2. QED
      BY <2>1 DEF AppRow, EventFits
  <1>2. QED
    BY <1>1, Invariance, PTL

\* A declined or withdrawn application never becomes live again.
THEOREM NoRevival == Spec => TerminalStaysTerminal
  <1>1. ASSUME IInv, [Next]_vars
        PROVE  [\A a \in App : app[a].status \in Terminal => app'[a].status \in Terminal]_vars
    <2>1. CASE UNCHANGED vars
      BY <2>1
    <2>2. CASE Next
      <3>1. PICK w \in Worker : StepOf(w)
        BY <2>2, NextSteps
      <3>2. \/ UNCHANGED app
            \/ CommitRows(w)
        BY <1>1, <3>1, AppEffects DEF InsertApplication, Updates, WriteApp, RollbackRows
      <3>3. QED
        BY <1>1, <3>2 DEF CommitRows, AppSeenBy, IInv, TypeOK, NoWayBack
    <2>3. QED
      BY <1>1, <2>1, <2>2
  <1>2. QED
    BY <1>1, Invariance, PTL DEF Spec, TerminalStaysTerminal
-----------------------------------------------------------------------------
(* Slots: what a request holds at each of its statements. *)

Held(w) == {a \in App : appLock[a] = w}

\* Whoever writes a row locks it, and a locked row has been written.
LockedIsWritten == \A a \in App : appLock[a] # NoWorker => appW[a].status # "absent"

\* An acceptance with its slot, or another new status without one.
HoldsSlot(w) == shiftLock = w /\ shiftW = [shift EXCEPT !.acceptedCount = @ + 1]
Decided(w) ==
    \E a \in App :
        /\ Held(w) = {a} /\ app[a].status \in {"absent", "pending", "waitlisted"}
        /\ IF appW[a].status = "accepted" THEN HoldsSlot(w) ELSE shiftLock # w

\* A withdrawn row, and nothing else that is not a promotion with its slot.
Withdrew(w, b) == b \in Held(w) /\ appW[b].status = "withdrawn"
PromotedWithSlot(w) ==
    shiftLock = w /\ shiftW.acceptedCount >= shift.acceptedCount /\ shiftW.acceptedCount > 0
Withdrawn(w) ==
    \E b \in App : Withdrew(w, b) /\ \A a \in Held(w) \ {b} : PromotedWithSlot(w)

Cancelled(w) ==
    shiftLock = w /\ shiftW.status = "cancelled" /\ \A a \in Held(w) : appW[a].status = "declined"

\* What w holds, by the statement it has come to.
Account(w) ==
    /\ pc[w] \notin {"decide", "freeSlot", "findWaitlisted", "reclaimSlot", "promote", "declineAffected", "commit"} =>
         Held(w) = {} /\ shiftLock # w
    /\ pc[w] = "takeSlot" => req[w].outcome = "accepted"
    /\ pc[w] \in {"withdraw", "declineAffected"} => req[w].app \in App
    /\ pc[w] = "decide" =>
         Held(w) = {} /\ IF req[w].outcome = "accepted" THEN HoldsSlot(w) ELSE shiftLock # w
    /\ pc[w] \in {"freeSlot", "findWaitlisted", "reclaimSlot", "promote"} =>
         \E b \in App :
            /\ Held(w) = {b} /\ Withdrew(w, b)
            /\ pc[w] \in {"reclaimSlot", "promote"} => req[w].app \in App \ {b} /\ req[w].seen = "waitlisted"
    /\ pc[w] = "freeSlot" => shiftLock # w
    /\ pc[w] \in {"findWaitlisted", "reclaimSlot"} =>
         (shiftLock = w => shiftW.acceptedCount + 1 = shift.acceptedCount)
    /\ pc[w] = "promote" => PromotedWithSlot(w)
    /\ pc[w] = "declineAffected" => Cancelled(w)
    /\ pc[w] = "commit" => Decided(w) \/ Withdrawn(w) \/ Cancelled(w)

SlotsInv == IInv /\ LockedIsWritten /\ (\A w \in Worker : Account(w)) /\ SlotsAccountedUntilWithdrawal

LEMMA FreeRows ==
  ASSUME NEW w \in Worker, BlockedBy(w) = {}
  PROVE  /\ NeedsShift(w) => shiftLock \in {w, NoWorker}
         /\ \A a \in NeedsApps(w) : appLock[a] \in {w, NoWorker}
  BY DEF BlockedBy

\* A statement writes only rows that it locks or has locked.
ShiftEffect(w) ==
    \/ UNCHANGED <<shift, shiftW, shiftLock>>
    \/ shiftLock \in {w, NoWorker} /\ shiftLock' = w /\ shift' = shift
    \/ CommitRows(w)
    \/ RollbackRows(w)
AppsEffect(w) ==
    \/ UNCHANGED <<app, appW, appLock>>
    \/ \E a \in App, row \in AppRow :
          /\ appLock[a] \in {w, NoWorker} /\ row.status # "absent" /\ app' = app
          /\ appLock' = [appLock EXCEPT ![a] = w] /\ appW' = [appW EXCEPT ![a] = row]
    \/ CommitRows(w)
    \/ RollbackRows(w)

LEMMA ShiftEffects ==
  ASSUME SlotsInv, NEW w \in Worker, StepOf(w)
  PROVE  ShiftEffect(w)
  <1>1. CASE TakeSlot(w)
    BY <1>1, FreeRows DEF TakeSlot, WriteShift, NeedsShift, ShiftEffect
  <1>2. CASE FreeSlot(w)
    BY <1>2, FreeRows DEF FreeSlot, WriteShift, NeedsShift, ShiftEffect
  <1>3. CASE ReclaimSlot(w)
    BY <1>3, FreeRows DEF ReclaimSlot, WriteShift, NeedsShift, ShiftEffect
  <1>4. CASE CancelWrite(w)
    BY <1>4, FreeRows DEF CancelWrite, WriteShift, NeedsShift, ShiftEffect
  <1> QED
    BY <1>1, <1>2, <1>3, <1>4
       DEF ShiftEffect, StepOf, rowVars, Receive, Refuse, ApplyReadShift, ApplyFindExisting,
           InsertApplication, DecideRead, DecideWrite, WithdrawRead, WithdrawWrite,
           FindWaitlisted, Promote, CancelRead, CollectAffected, DeclineAffected, Commit, Fail

\* An update by id needs the row it names, and the row is the one it locks.
LEMMA AppWritten ==
  ASSUME TypeOK, NEW w \in Worker, NEW a \in App, NEW s \in AppStatus \ {"absent"}, NEW e \in EventTypes,
         WriteApp(w, a, s, e), appLock[a] \in {w, NoWorker}
  PROVE  AppsEffect(w)
  <1>1. [status |-> s, event |-> e] \in AppRow /\ [status |-> s, event |-> e].status # "absent"
    BY DEF AppRow
  <1> QED
    BY <1>1 DEF WriteApp, AppsEffect

LEMMA AppsEffects ==
  ASSUME SlotsInv, NEW w \in Worker, StepOf(w)
  PROVE  AppsEffect(w)
  <1>1. TypeOK /\ DecisionLocals /\ Account(w) /\ LockedIsWritten
    BY DEF SlotsInv, IInv
  <1>2. CASE InsertApplication(w)
    <2>1. PICK a \in FreeIds : WriteApp(w, a, "pending", "ApplicationSubmitted")
      BY <1>2 DEF InsertApplication
    <2>2. a \in App /\ appW[a].status = "absent"
      BY DEF FreeIds
    <2>3. appLock[a] = NoWorker
      BY <1>1, <2>2 DEF LockedIsWritten
    <2> QED
      BY <1>1, <2>1, <2>2, <2>3, AppWritten
  <1>3. CASE DecideWrite(w)
    <2>1. req[w].app \in App /\ req[w].outcome \in {"accepted", "waitlisted", "declined"}
      BY <1>1, <1>3 DEF DecisionLocals, DecideWrite
    <2>2. req[w].app \in NeedsApps(w)
      BY <1>3, <2>1 DEF DecideWrite, NeedsApps
    <2>3. appLock[req[w].app] \in {w, NoWorker}
      BY <1>3, <2>2, FreeRows DEF DecideWrite
    <2> QED
      BY <1>1, <1>3, <2>1, <2>3, AppWritten, EventTyped DEF DecideWrite
  <1>4. CASE Promote(w)
    <2>1. req[w].app \in App /\ req[w].seen = "waitlisted"
      BY <1>1, <1>4 DEF Account, Promote
    <2>2. req[w].app \in NeedsApps(w)
      BY <1>4, <2>1 DEF Promote, NeedsApps
    <2>3. appLock[req[w].app] \in {w, NoWorker}
      BY <1>4, <2>2, FreeRows DEF Promote
    <2> QED
      BY <1>1, <1>4, <2>1, <2>3, AppWritten DEF Promote
  <1>5. CASE WithdrawWrite(w)
    <2>1. CASE req[w].app \in App
      <3>1. req[w].app \in NeedsApps(w)
        BY <1>5, <2>1 DEF WithdrawWrite, NeedsApps
      <3>2. appLock[req[w].app] \in {w, NoWorker}
        BY <1>5, <3>1, FreeRows DEF WithdrawWrite
      <3> QED
        BY <1>1, <1>5, <2>1, <3>2, AppWritten DEF WithdrawWrite
    <2>2. CASE req[w].app \notin App
      BY <1>1, <1>5, <2>2 DEF WithdrawWrite, WriteApp, AppsEffect, TypeOK
    <2> QED
      BY <2>1, <2>2
  <1>6. CASE DeclineAffected(w)
    <2>1. CASE req[w].app \in App
      <3>1. req[w].app \in NeedsApps(w)
        BY <1>6, <2>1 DEF DeclineAffected, NeedsApps
      <3>2. appLock[req[w].app] \in {w, NoWorker}
        BY <1>6, <3>1, FreeRows DEF DeclineAffected
      <3> QED
        BY <1>1, <1>6, <2>1, <3>2, AppWritten DEF DeclineAffected
    <2>2. CASE req[w].app \notin App
      BY <1>1, <1>6, <2>2 DEF DeclineAffected, WriteApp, AppsEffect, TypeOK
    <2> QED
      BY <2>1, <2>2
  <1> QED
    BY <1>2, <1>3, <1>4, <1>5, <1>6
       DEF AppsEffect, StepOf, rowVars, Receive, Refuse, ApplyReadShift, ApplyFindExisting,
           DecideRead, TakeSlot, WithdrawRead, FreeSlot, FindWaitlisted, ReclaimSlot,
           CancelRead, CollectAffected, CancelWrite, Commit, Fail

\* Nobody touches what another request holds.
LEMMA OthersHold ==
  ASSUME SlotsInv, NEW w \in Worker, StepOf(w), NEW v \in Worker \ {w}
  PROVE  /\ shiftLock' = v <=> shiftLock = v
         /\ shiftLock = v => shift' = shift /\ shiftW' = shiftW
         /\ \A a \in App : appLock'[a] = v <=> appLock[a] = v
         /\ \A a \in App : appLock[a] = v => app'[a] = app[a] /\ appW'[a] = appW[a]
  <1>1. TypeOK /\ ShiftEffect(w) /\ AppsEffect(w) /\ v # w /\ v # NoWorker
    BY ShiftEffects, AppsEffects, WorkerAssumption DEF SlotsInv, IInv
  <1>2. CASE CommitRows(w)
    BY <1>1, <1>2 DEF CommitRows, ShiftSeenBy, AppSeenBy, TypeOK
  <1>3. CASE RollbackRows(w)
    BY <1>1, <1>3 DEF RollbackRows, TypeOK
  <1>4. CASE ~CommitRows(w) /\ ~RollbackRows(w)
    <2>1. /\ shiftLock' = v <=> shiftLock = v
          /\ shiftLock = v => shift' = shift /\ shiftW' = shiftW
      BY <1>1, <1>4 DEF ShiftEffect
    <2>2. /\ \A a \in App : appLock'[a] = v <=> appLock[a] = v
          /\ \A a \in App : appLock[a] = v => app'[a] = app[a] /\ appW'[a] = appW[a]
      BY <1>1, <1>4 DEF AppsEffect, TypeOK
    <2> QED
      BY <2>1, <2>2
  <1> QED
    BY <1>2, <1>3, <1>4

LEMMA AccountKept ==
  ASSUME SlotsInv, NEW w \in Worker, StepOf(w), NEW v \in Worker \ {w}
  PROVE  Account(v)'
  <1>1. Account(v) /\ TypeOK
    BY DEF SlotsInv, IInv
  <1>2. pc'[v] = pc[v] /\ req'[v] = req[v]
    BY <1>1, LocalsStep DEF OthersKeepTheirs
  <1>3. Held(v)' = Held(v) /\ \A a \in Held(v) : app'[a] = app[a] /\ appW'[a] = appW[a]
    BY OthersHold DEF Held
  <1>4. /\ shiftLock' = v <=> shiftLock = v
        /\ shiftLock = v => shift' = shift /\ shiftW' = shiftW
    BY OthersHold
  <1>5. /\ HoldsSlot(v)' <=> HoldsSlot(v)
        /\ PromotedWithSlot(v)' <=> PromotedWithSlot(v)
        /\ \A b : Withdrew(v, b)' <=> Withdrew(v, b)
    BY <1>3, <1>4 DEF HoldsSlot, PromotedWithSlot, Withdrew
  <1>6. Cancelled(v) => Cancelled(v)'
    BY <1>3, <1>4 DEF Cancelled
  <1>7. Withdrawn(v) => Withdrawn(v)'
    BY <1>3, <1>5 DEF Withdrawn
  <1>8. Decided(v) => Decided(v)'
    <2> SUFFICES ASSUME Decided(v) PROVE Decided(v)'
      OBVIOUS
    <2>1. PICK a \in App : /\ Held(v) = {a} /\ app[a].status \in {"absent", "pending", "waitlisted"}
                           /\ IF appW[a].status = "accepted" THEN HoldsSlot(v) ELSE shiftLock # v
      BY DEF Decided
    <2>2. app'[a] = app[a] /\ appW'[a] = appW[a]
      BY <1>3, <2>1
    <2> QED
      BY <1>3, <1>4, <1>5, <2>1, <2>2 DEF Decided
  <1> QED
    BY <1>1, <1>2, <1>3, <1>4, <1>5, <1>6, <1>7, <1>8 DEF Account

-----------------------------------------------------------------------------
(* Slots: what a statement makes of its own request's account. *)

Empty(w) == Held(w) = {} /\ shiftLock # w
Deciding == {"decide", "freeSlot", "findWaitlisted", "reclaimSlot", "promote", "declineAffected", "commit"}

LEMMA EndedIsEmpty ==
  ASSUME TypeOK, NEW w \in Worker, CommitRows(w) \/ RollbackRows(w)
  PROVE  Empty(w)'
  <1>1. \A a \in App : appLock'[a] # w
    <2>1. appLock' = [a \in App |-> IF appLock[a] = w THEN NoWorker ELSE appLock[a]]
      BY DEF CommitRows, RollbackRows
    <2> QED
      BY <2>1, WorkerAssumption
  <1>2. shiftLock' # w
    BY WorkerAssumption DEF CommitRows, RollbackRows, TypeOK
  <1> QED
    BY <1>1, <1>2 DEF Empty, Held

LEMMA EmptyAccount ==
  ASSUME NEW w \in Worker, Empty(w)', pc'[w] \notin Deciding \cup {"takeSlot", "withdraw"}
  PROVE  Account(w)'
  BY DEF Empty, Deciding, Account

\* What a write adds to what its transaction holds.
LEMMA HeldAfterWrite ==
  ASSUME TypeOK, NEW w \in Worker, NEW a \in App, NEW s, NEW e, WriteApp(w, a, s, e)
  PROVE  /\ Held(w)' = Held(w) \cup {a}
         /\ appW'[a].status = s /\ app' = app
         /\ \A b \in App : b # a => appW'[b] = appW[b]
  BY DEF TypeOK, WriteApp, Held

\* Statements that leave the rows alone.
LEMMA ReadsAccount ==
  ASSUME SlotsInv, NEW w \in Worker, UNCHANGED rowVars,
         \/ Receive(w) \/ Refuse(w) \/ ApplyReadShift(w) \/ ApplyFindExisting(w) \/ DecideRead(w)
         \/ WithdrawRead(w) \/ CancelRead(w) \/ CollectAffected(w)
  PROVE  Account(w)'
  <1>1. TypeOK /\ Account(w) /\ pc[w] \notin Deciding
    BY DEF SlotsInv, IInv, Receive, Refuse, ApplyReadShift, ApplyFindExisting, DecideRead, WithdrawRead,
           CancelRead, CollectAffected, Deciding
  <1>2. Empty(w)'
    BY <1>1 DEF Account, Deciding, Empty, Held, rowVars
  <1>3. CASE DecideRead(w)
    <2>1. PICK s \in AppStatus, o \in {"accepted", "waitlisted", "declined"} :
            /\ req' = [req EXCEPT ![w] = [@ EXCEPT !.seen = s, !.outcome = o]]
            /\ Goto(w, IF o = "accepted" THEN "takeSlot" ELSE "decide")
      BY <1>3 DEF DecideRead, DecidableFrom
    <2>2. req[w] \in Request
      BY <1>1 DEF TypeOK
    <2>3. req'[w].outcome = o
      BY <1>1, <2>1, <2>2, DecisionUpdates DEF TypeOK
    <2>4. pc'[w] = IF o = "accepted" THEN "takeSlot" ELSE "decide"
      BY <1>1, <2>1 DEF Goto, TypeOK
    <2> QED
      BY <1>2, <2>3, <2>4 DEF Account, Empty
  <1>4. CASE WithdrawRead(w)
    <2>1. req[w].app \in App /\ req[w] \in Request
      BY <1>1, <1>4 DEF SlotsInv, IInv, DecisionLocals, WithdrawRead, TypeOK
    <2>2. PICK s \in AppStatus : req' = [req EXCEPT ![w].seen = s]
      BY <1>4 DEF WithdrawRead
    <2>3. [req[w] EXCEPT !.seen = s].app = req[w].app
      BY <2>1 DEF Request
    <2>4. req'[w].app = req[w].app /\ pc'[w] = "withdraw"
      BY <1>1, <1>4, <2>2, <2>3 DEF WithdrawRead, Goto, TypeOK
    <2> QED
      BY <1>2, <2>1, <2>4 DEF Account, Empty
  <1>5. CASE ~DecideRead(w) /\ ~WithdrawRead(w)
    <2>1. pc'[w] \notin Deciding \cup {"takeSlot", "withdraw"}
      BY <1>1, <1>5, LocalsReceived, LocalsDone
         DEF Refuse, ApplyReadShift, ApplyFindExisting, CancelRead, CollectAffected, Goto, TypeOK, Deciding
    <2> QED
      BY <1>2, <2>1, EmptyAccount
  <1> QED
    BY <1>3, <1>4, <1>5

LEMMA InsertAccount ==
  ASSUME SlotsInv, NEW w \in Worker, InsertApplication(w)
  PROVE  Account(w)'
  <1>1. TypeOK /\ Empty(w) /\ NoWayBack
    BY DEF SlotsInv, IInv, Account, InsertApplication, Empty
  <1>2. PICK a \in App : WriteApp(w, a, "pending", "ApplicationSubmitted") /\ appW[a].status = "absent"
    BY DEF InsertApplication, FreeIds
  <1>3. Held(w)' = {a} /\ appW'[a].status = "pending" /\ app' = app /\ app[a].status = "absent"
    BY <1>1, <1>2, HeldAfterWrite DEF Empty, NoWayBack
  <1>4. pc'[w] = "commit" /\ shiftLock' = shiftLock
    BY <1>1 DEF InsertApplication, Goto, TypeOK
  <1>5. Decided(w)'
    BY <1>1, <1>3, <1>4 DEF Decided, Empty
  <1> QED
    BY <1>4, <1>5 DEF Account

LEMMA TakeSlotAccount ==
  ASSUME SlotsInv, NEW w \in Worker, TakeSlot(w)
  PROVE  Account(w)'
  <1>1. TypeOK /\ Empty(w) /\ req[w] \in Request
    BY DEF SlotsInv, IInv, Account, TakeSlot, Empty, TypeOK
  <1>2. pc'[w] = "decide" /\ Held(w)' = {}
    BY <1>1 DEF TakeSlot, Goto, TypeOK, Empty, Held
  <1>3. CASE HasFreeSlot(shift)
    <2>1. HoldsSlot(w)'
      BY <1>3 DEF TakeSlot, WriteShift, HoldsSlot
    <2>2. req'[w].outcome = "accepted"
      BY <1>3 DEF TakeSlot, SlotsInv, Account
    <2> QED
      BY <1>2, <2>1, <2>2 DEF Account
  <1>4. CASE ~HasFreeSlot(shift)
    <2>1. [req[w] EXCEPT !.outcome = "waitlisted"].outcome = "waitlisted"
      BY <1>1, DecisionUpdates
    <2>2. req'[w].outcome = "waitlisted" /\ shiftLock' = shiftLock
      BY <1>1, <1>4, <2>1 DEF TakeSlot, TypeOK
    <2> QED
      BY <1>1, <1>2, <2>2 DEF Account, Empty
  <1> QED
    BY <1>3, <1>4

LEMMA DecideAccount ==
  ASSUME SlotsInv, NEW w \in Worker, DecideWrite(w)
  PROVE  Account(w)'
  <1>1. /\ TypeOK /\ Account(w) /\ pc[w] = "decide" /\ req[w].app \in App
        /\ req[w].seen \in {"pending", "waitlisted"} /\ app[req[w].app].status = req[w].seen
    BY DEF SlotsInv, IInv, DecideWrite, DecisionLocals
  <1>2. PICK a \in App : a = req[w].app
    BY <1>1
  <1>3. /\ Held(w)' = {a} /\ appW'[a].status = req[w].outcome /\ app' = app
        /\ UNCHANGED <<shift, shiftW, shiftLock>> /\ pc'[w] = "commit"
    BY <1>1, <1>2, HeldAfterWrite DEF DecideWrite, Account, Goto, TypeOK
  <1>4. Decided(w)'
    BY <1>1, <1>2, <1>3 DEF Account, Decided, HoldsSlot
  <1> QED
    BY <1>3, <1>4 DEF Account

LEMMA WithdrawAccount ==
  ASSUME SlotsInv, NEW w \in Worker, WithdrawWrite(w), req[w].app \in App
  PROVE  Account(w)'
  <1>1. TypeOK /\ Empty(w)
    BY DEF SlotsInv, IInv, Account, WithdrawWrite, Empty
  <1>2. PICK b \in App : b = req[w].app
    OBVIOUS
  <1>3. /\ Held(w)' = {b} /\ appW'[b].status = "withdrawn" /\ shiftLock' = shiftLock
        /\ pc'[w] \in {"freeSlot", "commit"}
    BY <1>1, <1>2, HeldAfterWrite DEF WithdrawWrite, Goto, TypeOK, Empty
  <1>4. Withdrew(w, b)' /\ Withdrawn(w)'
    BY <1>3 DEF Withdrew, Withdrawn
  <1> QED
    BY <1>1, <1>3, <1>4 DEF Account, Empty

LEMMA FreeSlotAccount ==
  ASSUME SlotsInv, NEW w \in Worker, FreeSlot(w)
  PROVE  Account(w)'
  <1>1. TypeOK /\ Account(w) /\ shift \in ShiftRow
    BY DEF SlotsInv, IInv, TypeOK
  <1>2. PICK b \in App : Held(w) = {b} /\ Withdrew(w, b)
    BY <1>1 DEF Account, FreeSlot
  <1>3. pc'[w] = "findWaitlisted" /\ UNCHANGED <<app, appW, appLock>>
    BY <1>1 DEF FreeSlot, Goto, TypeOK
  <1>4. Held(w)' = {b} /\ Withdrew(w, b)'
    BY <1>2, <1>3 DEF Held, Withdrew
  <1>5. shiftLock' = w => shiftW'.acceptedCount + 1 = shift'.acceptedCount
    <2>1. CASE shift.acceptedCount > 0
      BY <1>1, <2>1, SlotMoved DEF FreeSlot, WriteShift, ShiftRow
    <2>2. CASE ~(shift.acceptedCount > 0)
      BY <1>1, <2>2 DEF FreeSlot, Account
    <2> QED
      BY <2>1, <2>2
  <1> QED
    BY <1>3, <1>4, <1>5 DEF Account

LEMMA FindAccount ==
  ASSUME SlotsInv, NEW w \in Worker, FindWaitlisted(w)
  PROVE  Account(w)'
  <1>1. TypeOK /\ Account(w) /\ UNCHANGED rowVars /\ pc[w] = "findWaitlisted"
    BY DEF SlotsInv, IInv, FindWaitlisted
  <1>2. PICK b \in App : Held(w) = {b} /\ Withdrew(w, b)
    BY <1>1 DEF Account
  <1>3. Held(w)' = {b} /\ Withdrew(w, b)' /\ UNCHANGED <<shift, shiftW, shiftLock>>
    BY <1>1, <1>2 DEF Held, Withdrew, rowVars
  <1>4. CASE Goto(w, "commit")
    <2>1. Withdrawn(w)' /\ pc'[w] = "commit"
      BY <1>1, <1>3, <1>4 DEF Withdrawn, Goto, TypeOK
    <2> QED
      BY <2>1 DEF Account
  <1>5. CASE \E a \in App : /\ AppSeenBy(w, a).status = "waitlisted" /\ Goto(w, "reclaimSlot")
                            /\ req' = [req EXCEPT ![w] = [@ EXCEPT !.app = a, !.seen = "waitlisted"]]
    <2>1. PICK a \in App : /\ AppSeenBy(w, a).status = "waitlisted" /\ Goto(w, "reclaimSlot")
                           /\ req' = [req EXCEPT ![w] = [@ EXCEPT !.app = a, !.seen = "waitlisted"]]
      BY <1>5
    <2>2. a # b
      BY <1>2, <2>1 DEF Withdrew, Held, AppSeenBy
    <2>3. req[w] \in Request
      BY <1>1 DEF TypeOK
    <2>4. [req[w] EXCEPT !.app = a, !.seen = "waitlisted"].app = a /\ [req[w] EXCEPT !.app = a, !.seen = "waitlisted"].seen = "waitlisted"
      BY <2>3 DEF Request
    <2>5. req'[w].app = a /\ req'[w].seen = "waitlisted" /\ pc'[w] = "reclaimSlot"
      BY <1>1, <2>1, <2>4 DEF TypeOK, Goto
    <2> QED
      BY <1>1, <1>3, <2>2, <2>5 DEF Account
  <1> QED
    BY <1>4, <1>5 DEF FindWaitlisted

LEMMA ReclaimAccount ==
  ASSUME SlotsInv, NEW w \in Worker, ReclaimSlot(w)
  PROVE  Account(w)'
  <1>1. /\ TypeOK /\ Account(w) /\ pc[w] = "reclaimSlot" /\ shift \in ShiftRow /\ shiftW \in ShiftRow
        /\ shift.acceptedCount \in 0..Capacity /\ shiftW.acceptedCount \in 0..Capacity
        /\ UNCHANGED <<app, appW, appLock, req>>
    BY DEF SlotsInv, IInv, TypeOK, ReclaimSlot, SlotsWithinCapacity
  <1>2. PICK b \in App : Held(w) = {b} /\ Withdrew(w, b) /\ req[w].app \in App \ {b} /\ req[w].seen = "waitlisted"
    BY <1>1 DEF Account
  <1>3. Held(w)' = {b} /\ Withdrew(w, b)' /\ req'[w] = req[w]
    BY <1>1, <1>2 DEF Held, Withdrew
  <1>4. CASE HasFreeSlot(ShiftSeenBy(w))
    <2> DEFINE seen == ShiftSeenBy(w)
    <2>1. seen \in ShiftRow /\ seen.acceptedCount \in Nat /\ seen.acceptedCount + 1 >= shift.acceptedCount
      BY <1>1, CapacityAssumption DEF ShiftSeenBy, Account
    <2>2. /\ shiftLock' = w /\ shift' = shift /\ shiftW' = [seen EXCEPT !.acceptedCount = @ + 1]
          /\ pc'[w] = "promote"
      BY <1>1, <1>4 DEF ReclaimSlot, WriteShift, Goto, TypeOK
    <2> HIDE DEF seen
    <2>3. shiftW'.acceptedCount = seen.acceptedCount + 1
      BY <2>1, <2>2, SlotMoved
    <2>4. PromotedWithSlot(w)'
      BY <2>1, <2>2, <2>3 DEF PromotedWithSlot
    <2> QED
      BY <1>2, <1>3, <2>2, <2>4 DEF Account
  <1>5. CASE ~HasFreeSlot(ShiftSeenBy(w))
    <2>1. pc'[w] = "commit" /\ UNCHANGED <<shift, shiftW, shiftLock>>
      BY <1>1, <1>5 DEF ReclaimSlot, Goto, TypeOK
    <2>2. Withdrawn(w)'
      BY <1>3 DEF Withdrawn
    <2> QED
      BY <2>1, <2>2 DEF Account
  <1> QED
    BY <1>4, <1>5

LEMMA PromoteAccount ==
  ASSUME SlotsInv, NEW w \in Worker, Promote(w)
  PROVE  Account(w)'
  <1>1. TypeOK /\ Account(w) /\ pc[w] = "promote" /\ UNCHANGED <<shift, shiftW, shiftLock>>
    BY DEF SlotsInv, IInv, Promote
  <1>2. PICK b \in App : Held(w) = {b} /\ Withdrew(w, b) /\ req[w].app \in App \ {b}
    BY <1>1 DEF Account
  <1>3. /\ Held(w)' = {b} \cup {req[w].app} /\ appW'[b] = appW[b] /\ pc'[w] = "commit"
    BY <1>1, <1>2, HeldAfterWrite DEF Promote, Goto, TypeOK
  <1>4. PromotedWithSlot(w)'
    BY <1>1 DEF Account, PromotedWithSlot
  <1>5. Withdrew(w, b)'
    BY <1>2, <1>3 DEF Withdrew
  <1>6. Withdrawn(w)'
    BY <1>4, <1>5 DEF Withdrawn
  <1> QED
    BY <1>3, <1>6 DEF Account

\* The loop over the affected applications.
LEMMA NextAccount ==
  ASSUME SlotsInv, NEW w \in Worker, NextAffected(w, req[w].rows), Cancelled(w)'
  PROVE  Account(w)'
  <1>1. TypeOK /\ req[w] \in Request /\ req[w].rows \subseteq App
    BY DEF SlotsInv, IInv, TypeOK, Request
  <1>2. CASE Goto(w, "commit")
    BY <1>1, <1>2 DEF Account, Goto, TypeOK
  <1>3. CASE \E a \in App : /\ req' = [req EXCEPT ![w] = [@ EXCEPT !.app = a, !.rows = req[w].rows \ {a}]]
                            /\ Goto(w, "declineAffected")
    <2>1. PICK a \in App : /\ req' = [req EXCEPT ![w] = [@ EXCEPT !.app = a, !.rows = req[w].rows \ {a}]]
                           /\ Goto(w, "declineAffected")
      BY <1>3
    <2>2. [req[w] EXCEPT !.app = a, !.rows = req[w].rows \ {a}].app = a
      BY <1>1 DEF Request
    <2>3. req'[w].app = a /\ pc'[w] = "declineAffected"
      BY <1>1, <2>1, <2>2 DEF TypeOK, Goto
    <2> QED
      BY <2>3 DEF Account
  <1> QED
    BY <1>1, <1>2, <1>3 DEF NextAffected

LEMMA CancelAccount ==
  ASSUME SlotsInv, NEW w \in Worker, CancelWrite(w)
  PROVE  Account(w)'
  <1>1. Account(w) /\ pc[w] = "cancelShift" /\ UNCHANGED <<app, appW, appLock>> /\ NextAffected(w, req[w].rows)
    BY DEF SlotsInv, CancelWrite
  <1>2. Held(w)' = {}
    BY <1>1 DEF Account, Held
  <1>3. Cancelled(w)'
    BY <1>2 DEF Cancelled, CancelWrite, WriteShift
  <1> QED
    BY <1>1, <1>3, NextAccount

LEMMA DeclineAccount ==
  ASSUME SlotsInv, NEW w \in Worker, DeclineAffected(w)
  PROVE  Account(w)'
  <1>1. /\ TypeOK /\ Account(w) /\ pc[w] = "declineAffected" /\ UNCHANGED <<shift, shiftW, shiftLock>>
        /\ NextAffected(w, req[w].rows) /\ WriteApp(w, req[w].app, "declined", "ApplicationDeclined")
    BY DEF SlotsInv, IInv, DeclineAffected
  <1>2. req[w].app \in App /\ Cancelled(w)
    BY <1>1 DEF Account
  <1>3. Held(w)' = Held(w) \cup {req[w].app} /\ \A b \in Held(w)' : appW'[b].status = "declined"
    BY <1>1, <1>2, HeldAfterWrite DEF Cancelled, Held
  <1>4. Cancelled(w)'
    BY <1>1, <1>2, <1>3 DEF Cancelled
  <1> QED
    BY <1>1, <1>4, NextAccount

LEMMA EndAccount ==
  ASSUME SlotsInv, NEW w \in Worker, Commit(w) \/ Fail(w)
  PROVE  Account(w)'
  <1>1. TypeOK /\ (CommitRows(w) \/ RollbackRows(w)) /\ Done(w)
    BY DEF SlotsInv, IInv, Commit, Fail
  <1>2. Empty(w)' /\ pc'[w] = "idle"
    BY <1>1, EndedIsEmpty, LocalsDone
  <1> QED
    BY <1>2 DEF Account, Empty

LEMMA AccountStep ==
  ASSUME SlotsInv, NEW w \in Worker, StepOf(w)
  PROVE  \A v \in Worker : Account(v)'
  <1>1. Account(w)'
    <2>1. CASE WithdrawWrite(w)
      <3>1. req[w].app \in App
        BY <2>1 DEF SlotsInv, Account, WithdrawWrite
      <3> QED
        BY <2>1, <3>1, WithdrawAccount
    <2>2. CASE \/ Receive(w) \/ Refuse(w) \/ ApplyReadShift(w) \/ ApplyFindExisting(w) \/ DecideRead(w)
               \/ WithdrawRead(w) \/ CancelRead(w) \/ CollectAffected(w)
      <3>1. UNCHANGED rowVars
        BY <2>2 DEF Receive, Refuse, ApplyReadShift, ApplyFindExisting, DecideRead, WithdrawRead, CancelRead, CollectAffected
      <3> QED
        BY <2>2, <3>1, ReadsAccount
    <2> QED
      BY <2>1, <2>2, InsertAccount, TakeSlotAccount, DecideAccount, FreeSlotAccount, FindAccount, ReclaimAccount,
         PromoteAccount, CancelAccount, DeclineAccount, EndAccount DEF StepOf
  <1>2. ASSUME NEW v \in Worker \ {w} PROVE Account(v)'
    BY AccountKept
  <1> QED
    BY <1>1, <1>2

-----------------------------------------------------------------------------
(* Slots: the counter and the accepted applications. *)

LEMMA LockedStep ==
  ASSUME SlotsInv, NEW w \in Worker, StepOf(w)
  PROVE  LockedIsWritten'
  <1>1. TypeOK /\ LockedIsWritten /\ AppsEffect(w)
    BY AppsEffects DEF SlotsInv, IInv
  <1>2. CASE CommitRows(w)
    BY <1>1, <1>2 DEF CommitRows, LockedIsWritten, TypeOK
  <1>3. CASE RollbackRows(w)
    BY <1>1, <1>3 DEF RollbackRows, LockedIsWritten, TypeOK
  <1>4. CASE ~CommitRows(w) /\ ~RollbackRows(w)
    BY <1>1, <1>4 DEF AppsEffect, LockedIsWritten, TypeOK
  <1> QED
    BY <1>2, <1>3, <1>4

LEMMA AcceptedIsFinite ==
  IsFiniteSet(Accepted) /\ Cardinality(Accepted) \in Nat
  <1>1. IsFiniteSet(App)
    BY FS_Interval, MaxAppsAssumption
  <1>2. IsFiniteSet(Accepted)
    BY <1>1, FS_Subset DEF Accepted
  <1> QED
    BY <1>2, FS_CardinalityType

\* What a commit shows to others, in terms of what was held.
LEMMA CommitShows ==
  ASSUME SlotsInv, NEW w \in Worker, CommitRows(w)
  PROVE  /\ \A a \in App : app'[a] = IF a \in Held(w) THEN appW[a] ELSE app[a]
         /\ shift' = IF shiftLock = w THEN shiftW ELSE shift
  BY DEF CommitRows, AppSeenBy, ShiftSeenBy, Held

LEMMA SlotsAccountedStep ==
  ASSUME SlotsInv, NEW w \in Worker, StepOf(w)
  PROVE  SlotsAccountedUntilWithdrawal'
  <1>1. TypeOK /\ Account(w) /\ SlotsAccountedUntilWithdrawal /\ shift \in ShiftRow
    BY DEF SlotsInv, IInv, TypeOK
  <1>2. CASE Commit(w)
    <2> SUFFICES ASSUME \A a \in App : app'[a].status # "withdrawn", shift'.status = "scheduled"
                 PROVE  shift'.acceptedCount = Cardinality(Accepted')
      BY DEF SlotsAccountedUntilWithdrawal, SlotsAccounted
    <2>1. Decided(w) \/ Withdrawn(w) \/ Cancelled(w)
      BY <1>1, <1>2 DEF Commit, Account
    <2>2. /\ \A a \in App : app'[a] = IF a \in Held(w) THEN appW[a] ELSE app[a]
          /\ shift' = IF shiftLock = w THEN shiftW ELSE shift
      BY <1>2, CommitShows DEF Commit
    <2>3. PICK a \in App :
            /\ Held(w) = {a} /\ app[a].status \in {"absent", "pending", "waitlisted"}
            /\ IF appW[a].status = "accepted" THEN HoldsSlot(w) ELSE shiftLock # w
      <3>1. ~Withdrawn(w)
        BY <2>2 DEF Withdrawn, Withdrew
      <3>2. ~Cancelled(w)
        BY <2>2 DEF Cancelled
      <3> QED
        BY <2>1, <3>1, <3>2 DEF Decided
    <2>4. app'[a] = appW[a] /\ \A b \in App : b # a => app'[b] = app[b]
      BY <2>2, <2>3
    <2>5. \A b \in App : app[b].status # "withdrawn"
      BY <2>3, <2>4
    <2>6. CASE appW[a].status = "accepted"
      <3>1. shift' = [shift EXCEPT !.acceptedCount = @ + 1]
        BY <2>2, <2>3, <2>6 DEF HoldsSlot
      <3>2. shift'.acceptedCount = shift.acceptedCount + 1 /\ shift.status = "scheduled"
        BY <1>1, <3>1, SlotMoved DEF ShiftRow
      <3>3. shift.acceptedCount = Cardinality(Accepted)
        BY <1>1, <2>5, <3>2 DEF SlotsAccountedUntilWithdrawal, SlotsAccounted
      <3>4. Accepted' = Accepted \cup {a} /\ a \notin Accepted
        BY <2>3, <2>4, <2>6 DEF Accepted
      <3>5. Cardinality(Accepted') = Cardinality(Accepted) + 1
        BY <3>4, AcceptedIsFinite, FS_AddElement
      <3> QED
        BY <3>2, <3>3, <3>5
    <2>7. CASE appW[a].status # "accepted"
      <3>1. shift' = shift
        BY <2>2, <2>3, <2>7
      <3>2. Accepted' = Accepted
        BY <2>3, <2>4, <2>7 DEF Accepted
      <3> QED
        BY <1>1, <2>5, <3>1, <3>2 DEF SlotsAccountedUntilWithdrawal, SlotsAccounted
    <2> QED
      BY <2>6, <2>7
  <1>3. CASE ~Commit(w)
    <2>1. UNCHANGED <<shift, app>>
      BY <1>3 DEF StepOf, rowVars, Receive, Refuse, ApplyReadShift, ApplyFindExisting,
           InsertApplication, DecideRead, TakeSlot, DecideWrite, WithdrawRead,
           WithdrawWrite, FreeSlot, FindWaitlisted, ReclaimSlot, Promote, CancelRead,
           CollectAffected, CancelWrite, DeclineAffected, Fail, WriteShift, WriteApp, RollbackRows
    <2> QED
      BY <1>1, <2>1 DEF SlotsAccountedUntilWithdrawal, SlotsAccounted, Accepted
  <1> QED
    BY <1>2, <1>3

LEMMA SlotsInit == Init => SlotsInv
  <1> SUFFICES ASSUME Init PROVE SlotsInv
    OBVIOUS
  <1>1. LockedIsWritten /\ \A w \in Worker : Account(w)
    BY WorkerAssumption DEF Init, LockedIsWritten, Account, Held
  <1>2. Accepted = {}
    BY DEF Init, Accepted, Absent
  <1>3. SlotsAccountedUntilWithdrawal
    BY <1>2, FS_EmptySet DEF Init, SlotsAccountedUntilWithdrawal, SlotsAccounted
  <1> QED
    BY <1>1, <1>3, InvInit DEF SlotsInv

LEMMA SlotsInvStep == SlotsInv /\ [Next]_vars => SlotsInv'
  <1> SUFFICES ASSUME SlotsInv, [Next]_vars PROVE SlotsInv'
    OBVIOUS
  <1>1. IInv'
    BY InvStep DEF SlotsInv
  <1>2. CASE Next
    <2>1. PICK w \in Worker : StepOf(w)
      BY <1>2, NextSteps
    <2> QED
      BY <1>1, <2>1, LockedStep, AccountStep, SlotsAccountedStep DEF SlotsInv
  <1>3. CASE UNCHANGED vars
    BY <1>1, <1>3 DEF vars, rowVars, SlotsInv, LockedIsWritten, Account, Held, Withdrew, Decided, Withdrawn, Cancelled,
         HoldsSlot, PromotedWithSlot, SlotsAccountedUntilWithdrawal, SlotsAccounted, Accepted
  <1> QED
    BY <1>2, <1>3

\* The counter of a scheduled shift counts its accepted applications until a
\* withdrawal is committed, under every interleaving.
THEOREM SlotsCounted == Spec => []SlotsAccountedUntilWithdrawal
  <1>1. SlotsInv => SlotsAccountedUntilWithdrawal
    BY DEF SlotsInv
  <1> QED
    BY <1>1, SlotsInit, SlotsInvStep, PTL DEF Spec

\* An application becomes accepted only in a commit that leaves a slot taken
\* and frees none.
THEOREM AcceptanceIsCounted == Spec => AcceptanceTakesSlot
  <1> DEFINE Taken == (\E a \in App : app[a].status # "accepted" /\ app'[a].status = "accepted")
                         => /\ shift'.acceptedCount >= shift.acceptedCount
                            /\ shift'.acceptedCount > 0
  <1>1. SlotsInv /\ [Next]_vars => [Taken]_vars
    <2> SUFFICES ASSUME SlotsInv, Next, NEW a \in App, app[a].status # "accepted", app'[a].status = "accepted"
                 PROVE  shift'.acceptedCount >= shift.acceptedCount /\ shift'.acceptedCount > 0
      BY DEF Taken
    <2>1. PICK w \in Worker : StepOf(w)
      BY NextSteps
    <2>2. Commit(w)
      BY <2>1 DEF StepOf, rowVars, Receive, Refuse, ApplyReadShift, ApplyFindExisting,
           InsertApplication, DecideRead, TakeSlot, DecideWrite, WithdrawRead,
           WithdrawWrite, FreeSlot, FindWaitlisted, ReclaimSlot, Promote, CancelRead,
           CollectAffected, CancelWrite, DeclineAffected, Fail, WriteShift, WriteApp, RollbackRows
    <2>3. /\ a \in Held(w) /\ appW[a].status = "accepted"
          /\ shift' = IF shiftLock = w THEN shiftW ELSE shift
      BY <2>2, CommitShows DEF Commit
    <2>4. /\ Decided(w) \/ Withdrawn(w) \/ Cancelled(w)
          /\ shift \in ShiftRow /\ shift.acceptedCount \in Nat
      BY <2>2, CapacityAssumption DEF Commit, SlotsInv, IInv, TypeOK, SlotsWithinCapacity, Account
    <2>5. CASE Decided(w)
      <3>1. HoldsSlot(w)
        BY <2>3, <2>5 DEF Decided
      <3>2. shift' = [shift EXCEPT !.acceptedCount = @ + 1]
        BY <2>3, <3>1 DEF HoldsSlot
      <3> QED
        BY <2>4, <3>2, SlotMoved
    <2>6. CASE Withdrawn(w)
      <3>1. PromotedWithSlot(w)
        BY <2>3, <2>6 DEF Withdrawn, Withdrew
      <3> QED
        BY <2>3, <3>1 DEF PromotedWithSlot
    <2>7. CASE Cancelled(w)
      BY <2>3, <2>7 DEF Cancelled
    <2> QED
      BY <2>4, <2>5, <2>6, <2>7
  <1> QED
    BY <1>1, SlotsInit, SlotsInvStep, PTL DEF Spec, AcceptanceTakesSlot
-----------------------------------------------------------------------------
(* Requests that do not overlap: what each of them will commit.            *)

OneRequest == \A v, w \in Worker : v = w

\* Between requests: the counter counts, a cancelled shift has no live
\* application, and the rows have been inserted in the order of their ids.
Orderly ==
    /\ shift.acceptedCount = Cardinality(Accepted)
    /\ shift.status = "cancelled" => \A a \in App : app[a].status \notin Active
    /\ \A a, b \in App : b < a /\ app[a].status # "absent" => app[b].status # "absent"

Live == {a \in App : app[a].status \in Active}
FreesSlot(w) == shiftLock = w /\ shiftW = [shift EXCEPT !.acceptedCount = @ - 1]
EarliestWaitlisted(a) ==
    app[a].status = "waitlisted" /\ \A b \in App : app[b].status = "waitlisted" => a <= b
Closing(w) ==
    /\ shift.status = "scheduled" /\ shiftLock = w
    /\ shiftW = [status |-> "cancelled", acceptedCount |-> 0]

\* What the transaction of w amounts to at its COMMIT.
Submits(w) ==
    /\ shift.status = "scheduled" /\ shiftLock # w
    /\ \E a \in App :
          /\ Held(w) = {a} /\ appW[a].status = "pending" /\ app[a].status = "absent"
          /\ \A b \in App : b < a => app[b].status # "absent"
          /\ applicant[a] \in Person
          /\ \A b \in App \ {a} : applicant[b] = applicant[a] => app[b].status \notin Active
Accepts(w) ==
    /\ HoldsSlot(w) /\ shift.acceptedCount < Capacity
    /\ \E a \in App :
          /\ Held(w) = {a} /\ appW[a].status = "accepted" /\ app[a].status = "pending"
          /\ applicant[a] \in Trained
Moves(w) ==
    /\ shiftLock # w
    /\ \E a \in App :
          /\ Held(w) = {a} /\ app[a].status \in {"pending", "waitlisted"}
          /\ \/ appW[a].status = "waitlisted" /\ app[a].status = "pending"
             \/ appW[a].status \in Terminal
Resigns(w) ==
    /\ FreesSlot(w) /\ \A a \in App : app[a].status # "waitlisted"
    /\ \E b \in App : Held(w) = {b} /\ Withdrew(w, b) /\ app[b].status = "accepted"
PassesSlot(w) ==
    /\ shiftLock = w /\ shiftW = shift
    /\ \E a, b \in App :
          /\ Held(w) = {a, b} /\ Withdrew(w, b) /\ app[b].status = "accepted"
          /\ EarliestWaitlisted(a) /\ appW[a].status = "accepted"
Closes(w) ==
    /\ Closing(w) /\ Held(w) = Live /\ \A a \in Live : appW[a].status = "declined"

\* What w has read still holds when it writes.
Serial(w) ==
    /\ pc[w] \in {"findExisting", "insert", "collect", "cancelShift"} => shift.status = "scheduled"
    /\ pc[w] \in {"readShift", "findExisting", "insert"} => req[w].person \in Person
    /\ pc[w] = "insert" => \A b \in App : applicant[b] = req[w].person => app[b].status \notin Active
    /\ pc[w] \in {"takeSlot", "decide"} =>
         /\ app[req[w].app].status = req[w].seen
         /\ req[w].outcome \in {"accepted", "waitlisted"} => req[w].seen = "pending"
         /\ req[w].outcome = "accepted" => applicant[req[w].app] \in Trained
    /\ pc[w] = "decide" /\ req[w].outcome = "accepted" => shift.acceptedCount < Capacity
    /\ pc[w] = "withdraw" => app[req[w].app].status = req[w].seen /\ req[w].seen \in Active
    /\ pc[w] \in {"freeSlot", "findWaitlisted", "reclaimSlot", "promote"} =>
         \A b \in Held(w) : app[b].status = "accepted"
    /\ pc[w] \in {"findWaitlisted", "reclaimSlot"} => FreesSlot(w)
    /\ pc[w] = "promote" => shiftLock = w /\ shiftW = shift
    /\ pc[w] \in {"reclaimSlot", "promote"} => EarliestWaitlisted(req[w].app)
    /\ pc[w] = "cancelShift" => req[w].rows = Live
    /\ pc[w] = "declineAffected" =>
         Closing(w) /\ Held(w) \cup req[w].rows \cup {req[w].app} = Live
    /\ pc[w] = "commit" =>
         Submits(w) \/ Accepts(w) \/ Moves(w) \/ Resigns(w) \/ PassesSlot(w) \/ Closes(w)

SerialInv == SlotsInv /\ Orderly /\ \A w \in Worker : Serial(w)

\* With no other request under way, nothing is locked but what w holds.
LEMMA Alone ==
  ASSUME OneRequest, SlotsInv, NEW w \in Worker
  PROVE  /\ \A a \in App \ Held(w) : appW[a] = app[a]
         /\ shiftLock # w => shiftW = shift
  BY DEF OneRequest, SlotsInv, IInv, TypeOK, OneVersion, Held

LEMMA NotCommitting ==
  ASSUME NEW w \in Worker, StepOf(w), ~Commit(w)
  PROVE  UNCHANGED <<shift, app>>
  BY DEF StepOf, rowVars, Receive, Refuse, ApplyReadShift, ApplyFindExisting,
           InsertApplication, DecideRead, TakeSlot, DecideWrite, WithdrawRead,
           WithdrawWrite, FreeSlot, FindWaitlisted, ReclaimSlot, Promote, CancelRead,
           CollectAffected, CancelWrite, DeclineAffected, Fail, WriteShift, WriteApp, RollbackRows

\* A request that is at none of these statements has nothing to keep.
LEMMA RestingIsSerial ==
  ASSUME NEW w \in Worker, pc'[w] \in {"idle", "readApplication", "readForCancel"}
  PROVE  Serial(w)'
  BY DEF Serial

LEMMA ReceiveSerial ==
  ASSUME SlotsInv, NEW w \in Worker, Receive(w)
  PROVE  Serial(w)'
  <1>1. TypeOK
    BY DEF SlotsInv, IInv
  <1>2. CASE \E p \in Person :
                /\ req' = [req EXCEPT ![w] = [NoRequest EXCEPT !.op = "apply", !.person = p]]
                /\ Goto(w, "readShift")
    <2>1. PICK p \in Person :
                /\ req' = [req EXCEPT ![w] = [NoRequest EXCEPT !.op = "apply", !.person = p]]
                /\ Goto(w, "readShift")
      BY <1>2
    <2>2. [NoRequest EXCEPT !.op = "apply", !.person = p].person = p
      BY DEF NoRequest
    <2>3. pc'[w] = "readShift" /\ req'[w].person = p
      BY <1>1, <2>1, <2>2 DEF Goto, TypeOK
    <2> QED
      BY <2>3 DEF Serial
  <1>3. CASE Goto(w, "readApplication") \/ Goto(w, "readForCancel")
    <2>1. pc'[w] \in {"readApplication", "readForCancel"}
      BY <1>1, <1>3 DEF Goto, TypeOK
    <2> QED
      BY <2>1, RestingIsSerial
  <1> QED
    BY <1>2, <1>3 DEF Receive

LEMMA ApplyReadShiftSerial ==
  ASSUME SlotsInv, NEW w \in Worker, Serial(w), ApplyReadShift(w)
  PROVE  Serial(w)'
  <1>1. TypeOK /\ pc[w] = "readShift" /\ UNCHANGED <<rowVars, req>> /\ shift.status = "scheduled"
    BY DEF SlotsInv, IInv, ApplyReadShift
  <1>2. pc'[w] = "findExisting" /\ shift' = shift
    BY <1>1 DEF ApplyReadShift, Goto, TypeOK, rowVars
  <1> QED
    BY <1>1, <1>2 DEF Serial

LEMMA ApplyFindExistingSerial ==
  ASSUME SlotsInv, NEW w \in Worker, Serial(w), ApplyFindExisting(w)
  PROVE  Serial(w)'
  <1>1. /\ TypeOK /\ pc[w] = "findExisting" /\ UNCHANGED <<rowVars, req>>
        /\ \A b \in App : applicant[b] = req[w].person => app[b].status \notin Active
    BY DEF SlotsInv, IInv, ApplyFindExisting
  <1>2. pc'[w] = "insert" /\ UNCHANGED <<shift, app, applicant>>
    BY <1>1 DEF ApplyFindExisting, Goto, TypeOK, rowVars
  <1> QED
    BY <1>1, <1>2 DEF Serial

LEMMA InsertSerial ==
  ASSUME OneRequest, SlotsInv, Orderly, NEW w \in Worker, Serial(w), InsertApplication(w)
  PROVE  Serial(w)'
  <1>1. TypeOK /\ Empty(w) /\ NoWayBack /\ pc[w] = "insert" /\ \A a \in App : appW[a] = app[a]
    BY Alone DEF SlotsInv, IInv, Account, InsertApplication, Empty
  <1>2. PICK a \in FreeIds : /\ WriteApp(w, a, "pending", "ApplicationSubmitted")
                             /\ applicant' = [applicant EXCEPT ![a] = req[w].person]
                             /\ \A b \in FreeIds : a <= b
    BY DEF InsertApplication
  <1>3. a \in App /\ app[a].status = "absent" /\ \A b \in App : app[b].status # "absent" => b < a
    BY <1>1, <1>2 DEF FreeIds
  <1>4. ASSUME NEW b \in App, b < a PROVE app[b].status # "absent"
    <2>1. b \notin FreeIds
      BY <1>2, <1>3, <1>4, MaxAppsAssumption
    <2>2. PICK c \in App : app[c].status # "absent" /\ ~(c < b)
      BY <1>1, <2>1 DEF FreeIds
    <2>3. b = c \/ b < c
      BY <2>2
    <2> QED
      BY <2>2, <2>3 DEF Orderly
  <1>5. /\ Held(w)' = {a} /\ appW'[a].status = "pending" /\ app' = app
        /\ UNCHANGED <<shift, shiftLock>> /\ pc'[w] = "commit"
    BY <1>1, <1>2, <1>3, HeldAfterWrite DEF Empty, InsertApplication, Goto, TypeOK
  <1>6. applicant'[a] = req[w].person /\ \A b \in App \ {a} : applicant'[b] = applicant[b]
    BY <1>1, <1>2, <1>3 DEF TypeOK
  <1>7. Submits(w)'
    <2>1. shift'.status = "scheduled" /\ shiftLock' # w
      BY <1>1, <1>5 DEF Empty, Serial
    <2>2. applicant'[a] \in Person /\ \A b \in App \ {a} : applicant'[b] = applicant'[a] => app'[b].status \notin Active
      BY <1>1, <1>5, <1>6 DEF Serial
    <2> QED
      BY <1>3, <1>4, <1>5, <2>1, <2>2 DEF Submits
  <1> QED
    BY <1>5, <1>7 DEF Serial

LEMMA DecideReadSerial ==
  ASSUME SlotsInv, NEW w \in Worker, DecideRead(w)
  PROVE  Serial(w)'
  <1>1. TypeOK /\ req[w].app \in App /\ UNCHANGED rowVars /\ req[w] \in Request /\ app[req[w].app].status \in AppStatus
    BY DEF SlotsInv, IInv, DecisionLocals, DecideRead, TypeOK, AppRow
  <1>2. PICK a \in App : a = req[w].app
    BY <1>1
  <1>3. PICK o \in {"accepted", "waitlisted", "declined"} :
          /\ o \in {"accepted", "waitlisted"} => app[a].status = "pending"
          /\ o = "accepted" => applicant[a] \in Trained
          /\ req' = [req EXCEPT ![w] = [@ EXCEPT !.seen = app[a].status, !.outcome = o]]
          /\ Goto(w, IF o = "accepted" THEN "takeSlot" ELSE "decide")
    <2>1. CASE req[w].op = "decline"
      BY <1>2, <2>1 DEF DecideRead
    <2>2. CASE req[w].op = "accept" /\ applicant[a] \in Trained
      BY <1>2, <2>2 DEF DecideRead, DecidableFrom
    <2>3. CASE req[w].op # "decline" /\ ~(req[w].op = "accept" /\ applicant[a] \in Trained)
      BY <1>2, <2>3 DEF DecideRead, DecidableFrom
    <2> QED
      BY <2>1, <2>2, <2>3
  <1>4. /\ req'[w].seen = app[a].status /\ req'[w].outcome = o /\ req'[w].app = a
        /\ pc'[w] = IF o = "accepted" THEN "takeSlot" ELSE "decide"
    BY <1>1, <1>2, <1>3, DecisionUpdates DEF TypeOK, Goto
  <1>5. app' = app /\ applicant' = applicant
    BY <1>1 DEF rowVars
  <1> QED
    BY <1>3, <1>4, <1>5 DEF Serial

LEMMA TakeSlotSerial ==
  ASSUME SlotsInv, NEW w \in Worker, Serial(w), TakeSlot(w)
  PROVE  Serial(w)'
  <1>1. TypeOK /\ req[w] \in Request /\ pc[w] = "takeSlot" /\ UNCHANGED <<shift, app, applicant>> /\ pc'[w] = "decide"
        /\ req[w].outcome = "accepted"
    BY DEF SlotsInv, IInv, Account, TakeSlot, TypeOK, WriteShift, Goto
  <1>2. CASE HasFreeSlot(shift)
    <2>1. req' = req /\ shift.acceptedCount < Capacity
      BY <1>2 DEF TakeSlot, HasFreeSlot
    <2> QED
      BY <1>1, <2>1 DEF Serial
  <1>3. CASE ~HasFreeSlot(shift)
    <2>1. LET r == [req[w] EXCEPT !.outcome = "waitlisted"]
          IN  r.seen = req[w].seen /\ r.outcome = "waitlisted" /\ r.app = req[w].app
      BY <1>1, DecisionUpdates
    <2>2. req'[w].seen = req[w].seen /\ req'[w].outcome = "waitlisted" /\ req'[w].app = req[w].app
      BY <1>1, <1>3, <2>1 DEF TakeSlot, TypeOK
    <2> QED
      BY <1>1, <2>2 DEF Serial
  <1> QED
    BY <1>2, <1>3

LEMMA DecideSerial ==
  ASSUME SlotsInv, NEW w \in Worker, Serial(w), DecideWrite(w)
  PROVE  Serial(w)'
  <1>1. /\ TypeOK /\ Account(w) /\ pc[w] = "decide" /\ req[w].app \in App
        /\ req[w].seen \in {"pending", "waitlisted"} /\ app[req[w].app].status = req[w].seen
        /\ req[w].outcome \in {"accepted", "waitlisted", "declined"}
    BY DEF SlotsInv, IInv, DecideWrite, DecisionLocals
  <1>2. PICK a \in App : a = req[w].app
    BY <1>1
  <1>3. /\ Held(w)' = {a} /\ appW'[a].status = req[w].outcome /\ app' = app
        /\ UNCHANGED <<shift, shiftW, shiftLock, applicant>> /\ pc'[w] = "commit"
    BY <1>1, <1>2, HeldAfterWrite DEF DecideWrite, Account, Goto, TypeOK
  <1>4. CASE req[w].outcome = "accepted"
    <2>1. Accepts(w)'
      BY <1>1, <1>2, <1>3, <1>4 DEF Account, Accepts, HoldsSlot, Serial
    <2> QED
      BY <1>3, <2>1 DEF Serial
  <1>5. CASE req[w].outcome # "accepted"
    <2>1. Moves(w)'
      BY <1>1, <1>2, <1>3, <1>5 DEF Account, Moves, Serial
    <2> QED
      BY <1>3, <2>1 DEF Serial
  <1> QED
    BY <1>4, <1>5

LEMMA WithdrawReadSerial ==
  ASSUME SlotsInv, NEW w \in Worker, WithdrawRead(w)
  PROVE  Serial(w)'
  <1>1. /\ TypeOK /\ req[w].app \in App /\ UNCHANGED rowVars /\ req[w] \in Request
        /\ app[req[w].app].status \in Active
    BY DEF SlotsInv, IInv, DecisionLocals, WithdrawRead, TypeOK
  <1>2. PICK a \in App, s \in Active : a = req[w].app /\ s = app[a].status
    BY <1>1
  <1>3. LET r == [req[w] EXCEPT !.seen = s] IN r.seen = s /\ r.app = req[w].app
    BY <1>1 DEF Request
  <1>4. req'[w].seen = s /\ req'[w].app = a /\ pc'[w] = "withdraw"
    BY <1>1, <1>2, <1>3 DEF WithdrawRead, TypeOK, Goto
  <1>5. app' = app
    BY <1>1 DEF rowVars
  <1> QED
    BY <1>2, <1>4, <1>5 DEF Serial

LEMMA WithdrawSerial ==
  ASSUME SlotsInv, NEW w \in Worker, Serial(w), WithdrawWrite(w)
  PROVE  Serial(w)'
  <1>1. /\ TypeOK /\ Empty(w) /\ req[w].app \in App /\ app[req[w].app].status = req[w].seen
        /\ req[w].seen \in Active /\ pc[w] = "withdraw"
    BY DEF SlotsInv, IInv, Account, WithdrawWrite, Empty, Serial
  <1>2. PICK b \in App : b = req[w].app
    BY <1>1
  <1>3. /\ Held(w)' = {b} /\ appW'[b].status = "withdrawn" /\ app' = app /\ UNCHANGED <<shift, shiftLock>>
        /\ pc'[w] = IF req[w].seen = "accepted" THEN "freeSlot" ELSE "commit"
    BY <1>1, <1>2, HeldAfterWrite DEF WithdrawWrite, Goto, TypeOK, Empty
  <1>4. CASE req[w].seen = "accepted"
    BY <1>1, <1>2, <1>3, <1>4 DEF Serial
  <1>5. CASE req[w].seen # "accepted"
    <2>1. Moves(w)'
      BY <1>1, <1>2, <1>3, <1>5 DEF Moves, Empty
    <2> QED
      BY <1>3, <1>5, <2>1 DEF Serial
  <1> QED
    BY <1>4, <1>5

\* The withdrawn application was accepted, so it has a slot to free.
LEMMA AcceptedHasSlot ==
  ASSUME SlotsInv, Orderly, NEW b \in App, app[b].status = "accepted"
  PROVE  shift.acceptedCount > 0 /\ shift.status = "scheduled"
  <1>1. Accepted # {}
    BY DEF Accepted
  <1>2. Cardinality(Accepted) # 0
    BY <1>1, AcceptedIsFinite, FS_EmptySet
  <1>3. shift.acceptedCount > 0
    BY <1>2, AcceptedIsFinite DEF Orderly
  <1>4. shift \in ShiftRow
    BY DEF SlotsInv, IInv, TypeOK
  <1>5. shift.status = "scheduled"
    BY <1>4 DEF Orderly, ShiftRow
  <1> QED
    BY <1>3, <1>5

LEMMA FreeSlotSerial ==
  ASSUME SlotsInv, Orderly, NEW w \in Worker, Serial(w), FreeSlot(w)
  PROVE  Serial(w)'
  <1>1. TypeOK /\ Account(w) /\ pc[w] = "freeSlot"
    BY DEF SlotsInv, IInv, FreeSlot
  <1>2. PICK b \in App : Held(w) = {b}
    BY <1>1 DEF Account
  <1>3. app[b].status = "accepted"
    BY <1>1, <1>2 DEF Serial
  <1>4. shift.acceptedCount > 0
    BY <1>3, AcceptedHasSlot
  <1>5. FreesSlot(w)' /\ UNCHANGED <<shift, app, appLock>> /\ pc'[w] = "findWaitlisted"
    BY <1>1, <1>4 DEF FreeSlot, WriteShift, FreesSlot, Goto, TypeOK
  <1>6. Held(w)' = {b}
    BY <1>2, <1>5 DEF Held
  <1> QED
    BY <1>3, <1>5, <1>6 DEF Serial

LEMMA FindSerial ==
  ASSUME OneRequest, SlotsInv, NEW w \in Worker, Serial(w), FindWaitlisted(w)
  PROVE  Serial(w)'
  <1>1. TypeOK /\ Account(w) /\ UNCHANGED rowVars /\ pc[w] = "findWaitlisted" /\ FreesSlot(w) /\ req[w] \in Request
    BY DEF SlotsInv, IInv, FindWaitlisted, Serial, TypeOK
  <1>2. PICK b \in App : Held(w) = {b} /\ Withdrew(w, b)
    BY <1>1 DEF Account
  <1>3. app[b].status = "accepted"
    BY <1>1, <1>2 DEF Serial
  <1>4. \A a \in App : AppSeenBy(w, a).status = "waitlisted" <=> app[a].status = "waitlisted"
    BY <1>2, <1>3 DEF AppSeenBy, Held, Withdrew
  <1>5. /\ Held(w)' = {b} /\ Withdrew(w, b)' /\ FreesSlot(w)'
        /\ UNCHANGED <<shift, shiftW, shiftLock, app>>
    BY <1>1, <1>2 DEF Held, Withdrew, FreesSlot, rowVars
  <1>6. CASE Goto(w, "commit") /\ {a \in App : AppSeenBy(w, a).status = "waitlisted"} = {}
    <2>1. Resigns(w)' /\ pc'[w] = "commit"
      BY <1>1, <1>3, <1>4, <1>5, <1>6 DEF Resigns, Goto, TypeOK
    <2> QED
      BY <2>1 DEF Serial
  <1>7. CASE \E a \in App :
               /\ AppSeenBy(w, a).status = "waitlisted" /\ Goto(w, "reclaimSlot")
               /\ IsEarliest(a, {c \in App : AppSeenBy(w, c).status = "waitlisted"})
               /\ req' = [req EXCEPT ![w] = [@ EXCEPT !.app = a, !.seen = "waitlisted"]]
    <2>1. PICK a \in App :
               /\ AppSeenBy(w, a).status = "waitlisted" /\ Goto(w, "reclaimSlot")
               /\ IsEarliest(a, {c \in App : AppSeenBy(w, c).status = "waitlisted"})
               /\ req' = [req EXCEPT ![w] = [@ EXCEPT !.app = a, !.seen = "waitlisted"]]
      BY <1>7
    <2>2. EarliestWaitlisted(a)
      BY <1>4, <2>1 DEF EarliestWaitlisted, IsEarliest
    <2>3. [req[w] EXCEPT !.app = a, !.seen = "waitlisted"].app = a
      BY <1>1 DEF Request
    <2>4. req'[w].app = a /\ pc'[w] = "reclaimSlot"
      BY <1>1, <2>1, <2>3 DEF TypeOK, Goto
    <2>5. EarliestWaitlisted(req[w].app)'
      BY <1>5, <2>2, <2>4 DEF EarliestWaitlisted
    <2> QED
      BY <1>3, <1>5, <2>4, <2>5 DEF Serial
  <1> QED
    BY <1>6, <1>7 DEF FindWaitlisted

LEMMA ReclaimSerial ==
  ASSUME SlotsInv, NEW w \in Worker, Serial(w), ReclaimSlot(w)
  PROVE  Serial(w)'
  <1>1. /\ TypeOK /\ Account(w) /\ pc[w] = "reclaimSlot" /\ shift \in ShiftRow /\ FreesSlot(w)
        /\ shift.acceptedCount \in 0..Capacity /\ EarliestWaitlisted(req[w].app)
        /\ UNCHANGED <<app, appW, appLock, req>>
    BY DEF SlotsInv, IInv, TypeOK, ReclaimSlot, SlotsWithinCapacity, Serial
  <1>2. ShiftSeenBy(w) = shiftW /\ shiftW = [shift EXCEPT !.acceptedCount = @ - 1]
    BY <1>1 DEF FreesSlot, ShiftSeenBy
  <1>3. shiftW \in ShiftRow /\ shiftW.acceptedCount = shift.acceptedCount - 1 /\ shiftW.status = shift.status
    BY <1>1, <1>2, SlotMoved DEF ShiftRow
  <1>4. HasFreeSlot(ShiftSeenBy(w))
    BY <1>1, <1>2, <1>3, CapacityAssumption DEF HasFreeSlot
  <1>5. /\ shiftLock' = w /\ shift' = shift /\ shiftW' = [shiftW EXCEPT !.acceptedCount = @ + 1]
        /\ pc'[w] = "promote"
    BY <1>1, <1>2, <1>4 DEF ReclaimSlot, WriteShift, Goto, TypeOK
  <1>6. shiftW' = shift
    <2>1. /\ shiftW' \in ShiftRow /\ shiftW'.acceptedCount = shiftW.acceptedCount + 1
          /\ shiftW'.status = shiftW.status
      BY <1>3, <1>5, SlotMoved DEF ShiftRow
    <2>2. shiftW'.acceptedCount = shift.acceptedCount /\ shiftW'.status = shift.status
      BY <1>1, <1>3, <2>1
    <2> QED
      BY <1>1, <2>1, <2>2 DEF ShiftRow
  <1>7. Held(w)' = Held(w) /\ EarliestWaitlisted(req[w].app)'
    BY <1>1 DEF Held, EarliestWaitlisted
  <1> QED
    BY <1>1, <1>5, <1>6, <1>7 DEF Serial

LEMMA PromoteSerial ==
  ASSUME SlotsInv, NEW w \in Worker, Serial(w), Promote(w)
  PROVE  Serial(w)'
  <1>1. /\ TypeOK /\ Account(w) /\ pc[w] = "promote" /\ UNCHANGED <<shift, shiftW, shiftLock>>
        /\ EarliestWaitlisted(req[w].app) /\ shiftLock = w /\ shiftW = shift
    BY DEF SlotsInv, IInv, Promote, Serial
  <1>2. PICK b \in App : Held(w) = {b} /\ Withdrew(w, b) /\ req[w].app \in App \ {b}
    BY <1>1 DEF Account
  <1>3. PICK a \in App : a = req[w].app /\ a # b
    BY <1>2
  <1>4. app[b].status = "accepted"
    BY <1>1, <1>2 DEF Serial
  <1>5. /\ Held(w)' = {a, b} /\ appW'[b] = appW[b] /\ appW'[a].status = "accepted" /\ app' = app /\ pc'[w] = "commit"
    BY <1>1, <1>2, <1>3, HeldAfterWrite DEF Promote, Goto, TypeOK
  <1>6. EarliestWaitlisted(a)' /\ Withdrew(w, b)'
    BY <1>1, <1>2, <1>3, <1>5 DEF EarliestWaitlisted, Withdrew
  <1>7. PassesSlot(w)'
    BY <1>1, <1>4, <1>5, <1>6 DEF PassesSlot
  <1> QED
    BY <1>5, <1>7 DEF Serial

\* The loop over the affected applications reaches every live one.
LEMMA NextSerial ==
  ASSUME SlotsInv, NEW w \in Worker, NextAffected(w, req[w].rows), Closing(w)',
         Held(w)' \cup req[w].rows = Live', \A a \in Held(w)' : appW'[a].status = "declined"
  PROVE  Serial(w)'
  <1>1. TypeOK /\ req[w] \in Request /\ req[w].rows \subseteq App
    BY DEF SlotsInv, IInv, TypeOK, Request
  <1>2. CASE req[w].rows = {} /\ Goto(w, "commit")
    <2>1. Closes(w)' /\ pc'[w] = "commit"
      BY <1>1, <1>2 DEF Closes, Goto, TypeOK
    <2> QED
      BY <2>1 DEF Serial
  <1>3. CASE \E a \in req[w].rows :
               /\ req' = [req EXCEPT ![w] = [@ EXCEPT !.app = a, !.rows = req[w].rows \ {a}]]
               /\ Goto(w, "declineAffected")
    <2>1. PICK a \in req[w].rows :
               /\ req' = [req EXCEPT ![w] = [@ EXCEPT !.app = a, !.rows = req[w].rows \ {a}]]
               /\ Goto(w, "declineAffected")
      BY <1>3
    <2>2. LET r == [req[w] EXCEPT !.app = a, !.rows = req[w].rows \ {a}]
          IN  r.app = a /\ r.rows = req[w].rows \ {a}
      BY <1>1 DEF Request
    <2>3. req'[w].app = a /\ req'[w].rows = req[w].rows \ {a} /\ pc'[w] = "declineAffected"
      BY <1>1, <2>1, <2>2 DEF TypeOK, Goto
    <2> QED
      BY <2>3 DEF Serial
  <1> QED
    BY <1>1, <1>2, <1>3 DEF NextAffected

LEMMA CancelReadSerial ==
  ASSUME SlotsInv, NEW w \in Worker, CancelRead(w)
  PROVE  Serial(w)'
  <1>1. TypeOK
    BY DEF SlotsInv, IInv
  <1>2. pc'[w] = "collect" /\ shift'.status = "scheduled"
    BY <1>1 DEF CancelRead, Goto, TypeOK, rowVars
  <1> QED
    BY <1>2 DEF Serial

LEMMA CollectSerial ==
  ASSUME SlotsInv, NEW w \in Worker, Serial(w), CollectAffected(w)
  PROVE  Serial(w)'
  <1>1. TypeOK /\ req[w] \in Request
    BY DEF SlotsInv, IInv, TypeOK
  <1>2. LET r == [req[w] EXCEPT !.rows = Live] IN r.rows = Live
    BY <1>1 DEF Request
  <1>3. req' = [req EXCEPT ![w] = [@ EXCEPT !.rows = Live]]
    BY DEF CollectAffected, Live
  <1>4. req'[w].rows = Live /\ Live' = Live /\ pc'[w] = "cancelShift" /\ shift'.status = "scheduled"
    BY <1>1, <1>2, <1>3 DEF CollectAffected, Goto, TypeOK, rowVars, Live, Serial
  <1> QED
    BY <1>4 DEF Serial

LEMMA CancelSerial ==
  ASSUME SlotsInv, NEW w \in Worker, Serial(w), CancelWrite(w)
  PROVE  Serial(w)'
  <1>1. /\ TypeOK /\ Account(w) /\ pc[w] = "cancelShift" /\ UNCHANGED <<app, appW, appLock>>
        /\ NextAffected(w, req[w].rows) /\ req[w].rows = Live
    BY DEF SlotsInv, IInv, CancelWrite, Serial
  <1>2. Held(w)' = {} /\ Live' = Live
    BY <1>1 DEF Account, Held, Live
  <1>3. Closing(w)'
    BY DEF Closing, CancelWrite, WriteShift
  <1> QED
    BY <1>1, <1>2, <1>3, NextSerial

LEMMA DeclineSerial ==
  ASSUME SlotsInv, NEW w \in Worker, Serial(w), DeclineAffected(w)
  PROVE  Serial(w)'
  <1>1. /\ TypeOK /\ Account(w) /\ pc[w] = "declineAffected" /\ UNCHANGED <<shift, shiftW, shiftLock>>
        /\ NextAffected(w, req[w].rows) /\ WriteApp(w, req[w].app, "declined", "ApplicationDeclined")
        /\ Closing(w) /\ Held(w) \cup req[w].rows \cup {req[w].app} = Live
    BY DEF SlotsInv, IInv, DeclineAffected, Serial
  <1>2. req[w].app \in App /\ Cancelled(w)
    BY <1>1 DEF Account
  <1>3. Held(w)' = Held(w) \cup {req[w].app} /\ app' = app /\ \A b \in Held(w)' : appW'[b].status = "declined"
    BY <1>1, <1>2, HeldAfterWrite DEF Cancelled, Held
  <1>4. Closing(w)' /\ Held(w)' \cup req[w].rows = Live'
    BY <1>1, <1>3 DEF Closing, Live
  <1> QED
    BY <1>1, <1>3, <1>4, NextSerial

LEMMA SerialStep ==
  ASSUME OneRequest, SlotsInv, Orderly, NEW w \in Worker, Serial(w), StepOf(w)
  PROVE  Serial(w)'
  <1>1. ASSUME Refuse(w) \/ Commit(w) \/ Fail(w) PROVE Serial(w)'
    <2>1. TypeOK /\ Done(w)
      BY <1>1 DEF SlotsInv, IInv, Refuse, Commit, Fail
    <2> QED
      BY <2>1, LocalsDone, RestingIsSerial
  <1> QED
    BY <1>1, ReceiveSerial, ApplyReadShiftSerial, ApplyFindExistingSerial, InsertSerial, DecideReadSerial,
       TakeSlotSerial, DecideSerial, WithdrawReadSerial, WithdrawSerial, FreeSlotSerial, FindSerial,
       ReclaimSerial, PromoteSerial, CancelReadSerial, CollectSerial, CancelSerial, DeclineSerial DEF StepOf

-----------------------------------------------------------------------------
(* Requests that do not overlap: what each COMMIT leaves. *)

\* The committed rows change as one of the use cases says, in one step.
Submitted(a) ==
    /\ shift.status = "scheduled" /\ app[a].status = "absent" /\ shift' = shift
    /\ \A b \in App : b < a => app[b].status # "absent"
    /\ applicant[a] \in Person
    /\ \A b \in App \ {a} : applicant[b] = applicant[a] => app[b].status \notin Active
    /\ app'[a].status = "pending" /\ \A b \in App \ {a} : app'[b] = app[b]
AcceptedOne(a) ==
    /\ app[a].status = "pending" /\ applicant[a] \in Trained /\ shift.acceptedCount < Capacity
    /\ shift'.acceptedCount = shift.acceptedCount + 1 /\ shift'.status = shift.status
    /\ app'[a].status = "accepted" /\ \A b \in App \ {a} : app'[b] = app[b]
Moved(a) ==
    /\ shift' = shift /\ app[a].status \in {"pending", "waitlisted"}
    /\ \/ app'[a].status = "waitlisted" /\ app[a].status = "pending"
       \/ app'[a].status \in Terminal
    /\ \A b \in App \ {a} : app'[b] = app[b]
Resigned(b) ==
    /\ app[b].status = "accepted" /\ \A a \in App : app[a].status # "waitlisted"
    /\ shift'.acceptedCount = shift.acceptedCount - 1 /\ shift'.status = shift.status
    /\ app'[b].status = "withdrawn" /\ \A a \in App \ {b} : app'[a] = app[a]
Passed(a, b) ==
    /\ shift' = shift /\ app[b].status = "accepted" /\ EarliestWaitlisted(a)
    /\ app'[b].status = "withdrawn" /\ app'[a].status = "accepted"
    /\ \A c \in App \ {a, b} : app'[c] = app[c]
Closed ==
    /\ shift.status = "scheduled" /\ shift'.status = "cancelled" /\ shift'.acceptedCount = 0
    /\ \A a \in Live : app'[a].status = "declined"
    /\ \A a \in App \ Live : app'[a] = app[a]

LEMMA CommitKinds ==
  ASSUME SlotsInv, NEW w \in Worker, Serial(w), Commit(w)
  PROVE  /\ applicant' = applicant
         /\ \/ \E a \in App : Submitted(a)
            \/ \E a \in App : AcceptedOne(a)
            \/ \E a \in App : Moved(a)
            \/ \E b \in App : Resigned(b)
            \/ \E a, b \in App : Passed(a, b)
            \/ Closed
  <1>1. /\ \A a \in App : app'[a] = IF a \in Held(w) THEN appW[a] ELSE app[a]
        /\ shift' = IF shiftLock = w THEN shiftW ELSE shift
        /\ applicant' = applicant
    BY CommitShows DEF Commit, CommitRows
  <1>2. shift \in ShiftRow /\ TypeOK
    BY DEF SlotsInv, IInv, TypeOK
  <1>3. Submits(w) \/ Accepts(w) \/ Moves(w) \/ Resigns(w) \/ PassesSlot(w) \/ Closes(w)
    BY DEF Serial, Commit
  <1>4. CASE Submits(w)
    BY <1>1, <1>4 DEF Submits, Submitted
  <1>5. CASE Accepts(w)
    <2>1. shift'.acceptedCount = shift.acceptedCount + 1 /\ shift'.status = shift.status
      BY <1>1, <1>2, <1>5, SlotMoved DEF Accepts, HoldsSlot, ShiftRow
    <2> QED
      BY <1>1, <1>5, <2>1 DEF Accepts, AcceptedOne
  <1>6. CASE Moves(w)
    BY <1>1, <1>6 DEF Moves, Moved
  <1>7. CASE Resigns(w)
    <2>1. shift'.acceptedCount = shift.acceptedCount - 1 /\ shift'.status = shift.status
      BY <1>1, <1>2, <1>7, SlotMoved DEF Resigns, FreesSlot, ShiftRow
    <2> QED
      BY <1>1, <1>7, <2>1 DEF Resigns, Resigned, Withdrew
  <1>8. CASE PassesSlot(w)
    BY <1>1, <1>8 DEF PassesSlot, Passed, Withdrew
  <1>9. CASE Closes(w)
    BY <1>1, <1>9 DEF Closes, Closing, Closed, Live
  <1> QED
    BY <1>1, <1>3, <1>4, <1>5, <1>6, <1>7, <1>8, <1>9

\* The rows keep their order when no row is inserted.
LEMMA OrderKept ==
  ASSUME Orderly, \A a \in App : app'[a].status = "absent" <=> app[a].status = "absent"
  PROVE  \A a, b \in App : b < a /\ app'[a].status # "absent" => app'[b].status # "absent"
  BY DEF Orderly

\* The accepted applications after each kind of commit.
LEMMA AcceptedMoves ==
  ASSUME SlotsInv
  PROVE  /\ \A a \in App : Submitted(a) \/ Moved(a) => Accepted' = Accepted
         /\ \A a \in App : AcceptedOne(a) => Cardinality(Accepted') = Cardinality(Accepted) + 1
         /\ \A b \in App : Resigned(b) => Cardinality(Accepted') = Cardinality(Accepted) - 1
         /\ \A a, b \in App : Passed(a, b) => Cardinality(Accepted') = Cardinality(Accepted)
         /\ Closed => Cardinality(Accepted') = 0
  <1>1. ASSUME NEW a \in App, Submitted(a) \/ Moved(a) PROVE Accepted' = Accepted
    BY <1>1 DEF Accepted, Submitted, Moved
  <1>2. ASSUME NEW a \in App, AcceptedOne(a) PROVE Cardinality(Accepted') = Cardinality(Accepted) + 1
    <2>1. Accepted' = Accepted \cup {a} /\ a \notin Accepted
      BY <1>2 DEF Accepted, AcceptedOne
    <2> QED
      BY <2>1, AcceptedIsFinite, FS_AddElement
  <1>3. ASSUME NEW b \in App, Resigned(b) PROVE Cardinality(Accepted') = Cardinality(Accepted) - 1
    <2>1. Accepted' = Accepted \ {b} /\ b \in Accepted
      BY <1>3 DEF Accepted, Resigned
    <2> QED
      BY <2>1, AcceptedIsFinite, FS_RemoveElement
  <1>4. ASSUME NEW a \in App, NEW b \in App, Passed(a, b) PROVE Cardinality(Accepted') = Cardinality(Accepted)
    <2> DEFINE Rest == Accepted \ {b}
    <2>1. Accepted' = Rest \cup {a} /\ b \in Accepted /\ a \notin Rest
      BY <1>4 DEF Accepted, Passed, EarliestWaitlisted
    <2>2. IsFiniteSet(Rest) /\ Cardinality(Rest) = Cardinality(Accepted) - 1
      BY <2>1, AcceptedIsFinite, FS_RemoveElement
    <2> HIDE DEF Rest
    <2>3. Cardinality(Rest \cup {a}) = Cardinality(Rest) + 1
      BY <2>1, <2>2, FS_AddElement
    <2> QED
      BY <2>1, <2>2, <2>3, AcceptedIsFinite
  <1>5. ASSUME Closed PROVE Cardinality(Accepted') = 0
    <2>1. Accepted' = {}
      BY <1>5 DEF Accepted, Closed, Live
    <2> QED
      BY <2>1, FS_EmptySet
  <1> QED
    BY <1>1, <1>2, <1>3, <1>4, <1>5

LEMMA OrderlyStep ==
  ASSUME SlotsInv, Orderly, NEW w \in Worker, Serial(w), StepOf(w)
  PROVE  Orderly'
  <1>1. CASE ~Commit(w)
    BY <1>1, NotCommitting DEF Orderly, Accepted
  <1>2. CASE Commit(w)
    <2>0. /\ shift.acceptedCount = Cardinality(Accepted)
          /\ shift \in ShiftRow
          /\ \A a \in App : app[a].status \in Active => shift.status = "scheduled"
      BY DEF SlotsInv, IInv, TypeOK, Orderly, ShiftRow
    <2>1. CASE \E a \in App : Submitted(a)
      <3>1. PICK a \in App : Submitted(a)
        BY <2>1
      <3>2. shift' = shift /\ shift.status = "scheduled" /\ Accepted' = Accepted
        BY <3>1, AcceptedMoves DEF Submitted
      <3>3. ASSUME NEW c \in App, NEW b \in App, b < c, app'[c].status # "absent"
            PROVE  app'[b].status # "absent"
        <4>1. CASE c = a
          BY <3>1, <3>3, <4>1 DEF Submitted
        <4>2. CASE c # a
          BY <3>1, <3>3, <4>2 DEF Submitted, Orderly
        <4> QED
          BY <4>1, <4>2
      <3> QED
        BY <2>0, <3>2, <3>3 DEF Orderly
    <2>2. CASE \E a \in App : AcceptedOne(a)
      <3>1. PICK a \in App : AcceptedOne(a)
        BY <2>2
      <3>2. shift'.acceptedCount = Cardinality(Accepted') /\ shift'.status = "scheduled"
        BY <2>0, <3>1, AcceptedMoves DEF AcceptedOne
      <3>3. \A b \in App : app'[b].status = "absent" <=> app[b].status = "absent"
        BY <3>1 DEF AcceptedOne
      <3> QED
        BY <3>2, <3>3, OrderKept DEF Orderly
    <2>3. CASE \E a \in App : Moved(a)
      <3>1. PICK a \in App : Moved(a)
        BY <2>3
      <3>2. shift' = shift /\ shift.status = "scheduled" /\ Accepted' = Accepted
        BY <2>0, <3>1, AcceptedMoves DEF Moved
      <3>3. \A b \in App : app'[b].status = "absent" <=> app[b].status = "absent"
        BY <3>1 DEF Moved
      <3> QED
        BY <2>0, <3>2, <3>3, OrderKept DEF Orderly
    <2>4. CASE \E b \in App : Resigned(b)
      <3>1. PICK b \in App : Resigned(b)
        BY <2>4
      <3>2. shift'.acceptedCount = Cardinality(Accepted') /\ shift'.status = "scheduled"
        BY <2>0, <3>1, AcceptedMoves DEF Resigned
      <3>3. \A c \in App : app'[c].status = "absent" <=> app[c].status = "absent"
        BY <3>1 DEF Resigned
      <3> QED
        BY <3>2, <3>3, OrderKept DEF Orderly
    <2>5. CASE \E a, b \in App : Passed(a, b)
      <3>1. PICK a \in App, b \in App : Passed(a, b)
        BY <2>5
      <3>2. shift' = shift /\ shift.status = "scheduled" /\ Cardinality(Accepted') = Cardinality(Accepted)
        BY <2>0, <3>1, AcceptedMoves DEF Passed
      <3>3. \A c \in App : app'[c].status = "absent" <=> app[c].status = "absent"
        BY <3>1 DEF Passed, EarliestWaitlisted
      <3> QED
        BY <2>0, <3>2, <3>3, OrderKept DEF Orderly
    <2>6. CASE Closed
      <3>1. shift'.acceptedCount = Cardinality(Accepted')
        BY <2>6, AcceptedMoves DEF Closed
      <3>2. \A a \in App : app'[a].status \notin Active
        BY <2>6 DEF Closed, Live
      <3>3. \A c \in App : app'[c].status = "absent" <=> app[c].status = "absent"
        BY <2>6 DEF Closed, Live
      <3> QED
        BY <3>1, <3>2, <3>3, OrderKept DEF Orderly
    <2> QED
      BY <1>2, <2>1, <2>2, <2>3, <2>4, <2>5, <2>6, CommitKinds
  <1> QED
    BY <1>1, <1>2

LEMMA SerialInit == Init => SerialInv
  <1> SUFFICES ASSUME Init PROVE SerialInv
    OBVIOUS
  <1>1. \A w \in Worker : Serial(w)
    BY DEF Init, Serial
  <1>2. Accepted = {}
    BY DEF Init, Accepted, Absent
  <1>3. Orderly
    BY <1>2, FS_EmptySet DEF Init, Orderly, Absent
  <1> QED
    BY <1>1, <1>3, SlotsInit DEF SerialInv

LEMMA SerialInvStep ==
  ASSUME OneRequest, SerialInv, [Next]_vars
  PROVE  SerialInv'
  <1>1. SlotsInv'
    BY SlotsInvStep DEF SerialInv
  <1>2. CASE Next
    <2>1. PICK w \in Worker : StepOf(w)
      BY <1>2, NextSteps
    <2>2. Orderly' /\ Serial(w)'
      BY <2>1, OrderlyStep, SerialStep DEF SerialInv
    <2>3. \A v \in Worker : v = w
      BY DEF OneRequest
    <2> QED
      BY <1>1, <2>2, <2>3 DEF SerialInv
  <1>3. CASE UNCHANGED vars
    <2>1. Orderly'
      BY <1>3 DEF SerialInv, Orderly, Accepted, vars, rowVars
    <2>2. ASSUME NEW w \in Worker PROVE Serial(w)'
      <3>1. Serial(w)
        BY DEF SerialInv
      <3> QED
        BY <1>3, <3>1 DEF Serial, Held, Live, Withdrew, HoldsSlot, FreesSlot, EarliestWaitlisted, Closing, Submits,
           Accepts, Moves, Resigns, PassesSlot, Closes, vars, rowVars
    <2> QED
      BY <1>1, <2>1, <2>2 DEF SerialInv
  <1> QED
    BY <1>2, <1>3

-----------------------------------------------------------------------------
(* Requests that do not overlap implement SlotBooking. *)

Status == [a \in App |-> app[a].status]
Owner == [a \in App |-> IF app[a].status = "absent" THEN NoPerson ELSE applicant[a]]

LEMMA BookingInit == Init => Booking!Init
  BY DEF Init, Booking!Init, Absent

\* Only a COMMIT is seen: every other step is a stutter of the abstract system.
LEMMA BookingStutter ==
  ASSUME SlotsInv, NEW w \in Worker, StepOf(w), ~Commit(w)
  PROVE  UNCHANGED Booking!vars
  <1>1. UNCHANGED <<shift, app>> /\ TypeOK
    BY NotCommitting DEF SlotsInv, IInv
  <1>2. ASSUME NEW a \in App, app[a].status # "absent" PROVE applicant'[a] = applicant[a]
    <2>1. appW[a].status # "absent"
      BY <1>2 DEF SlotsInv, IInv, NoWayBack
    <2>2. CASE InsertApplication(w)
      BY <1>1, <2>1, <2>2 DEF InsertApplication, FreeIds, TypeOK
    <2>3. CASE RollbackRows(w)
      BY <1>2, <2>3 DEF RollbackRows
    <2>4. CASE applicant' = applicant
      BY <2>4
    <2> QED
      BY <2>2, <2>3, <2>4
         DEF StepOf, rowVars, Receive, Refuse, ApplyReadShift, ApplyFindExisting, DecideRead, TakeSlot, DecideWrite,
             WithdrawRead, WithdrawWrite, FreeSlot, FindWaitlisted, ReclaimSlot, Promote, CancelRead,
             CollectAffected, CancelWrite, DeclineAffected, Fail
  <1>3. Owner' = Owner
    BY <1>1, <1>2 DEF Owner
  <1>4. Status' = Status
    BY <1>1 DEF Status
  <1> QED
    BY <1>1, <1>3, <1>4 DEF Booking!vars, Owner, Status

LEMMA StatusOf ==
  /\ \A a \in App : Status[a] = app[a].status
  /\ \A a \in App : Status'[a] = app'[a].status
  BY DEF Status

\* One, or two, rows take another status.
LEMMA StatusMoves ==
  ASSUME NEW a \in App, NEW b \in App, NEW s, NEW t,
         app'[a].status = s, \A c \in App \ {a, b} : app'[c] = app[c]
  PROVE  /\ b = a => Status' = [Status EXCEPT ![a] = s]
         /\ b # a /\ app'[b].status = t => Status' = [Status EXCEPT ![b] = t, ![a] = s]
  BY DEF Status

LEMMA OwnersKept ==
  ASSUME applicant' = applicant,
         \A a \in App : app'[a].status = "absent" <=> app[a].status = "absent"
  PROVE  Owner' = Owner
  BY DEF Owner

LEMMA SubmitsBooking ==
  ASSUME TypeOK, applicant' = applicant, NEW a \in App, Submitted(a),
         NEW p \in Person, p = applicant[a]
  PROVE  Booking!Submit(p)
  <1> USE DEF Submitted
  <1>1. Status' = [Status EXCEPT ![a] = "pending"]
    BY StatusMoves
  <1>2. Owner' = [Owner EXCEPT ![a] = p]
    BY DEF Owner
  <1>3. \A b \in App : Owner[b] = p => Status[b] \notin Booking!Live
    BY PersonAssumption DEF Owner, Status, Booking!Live
  <1>4. a \in Booking!Having("absent")
    BY DEF Booking!Having
  <1>5. \A b \in App : b < a => Status[b] # "absent"
    BY DEF Status
  <1> QED
    BY <1>1, <1>2, <1>3, <1>4, <1>5 DEF Booking!Submit, Booking!Move, Owner, Status

LEMMA AcceptsBooking ==
  ASSUME TypeOK, applicant' = applicant, NEW a \in App, AcceptedOne(a)
  PROVE  Booking!Accept(a)
  <1> USE DEF AcceptedOne
  <1>1. Status' = [Status EXCEPT ![a] = "accepted"]
    BY StatusMoves
  <1>2. Owner' = Owner /\ Owner[a] \in Trained /\ Status[a] = "pending"
    BY OwnersKept DEF Owner, Status
  <1> QED
    BY <1>1, <1>2 DEF Booking!Accept, Booking!Move, Owner, Status

LEMMA MovesBooking ==
  ASSUME SlotsInv, applicant' = applicant, NEW a \in App, Moved(a)
  PROVE  Booking!Waitlist(a) \/ Booking!Decline(a) \/ Booking!Withdraw(a)
  <1> USE DEF Moved
  <1>1. Owner' = Owner
    BY OwnersKept
  <1>2. CASE app'[a].status = "waitlisted" /\ app[a].status = "pending"
    <2>1. Status' = [Status EXCEPT ![a] = "waitlisted"] /\ Status[a] = "pending"
      BY <1>2, StatusMoves DEF Status
    <2>2. Booking!Waitlist(a)
      BY <1>1, <2>1 DEF Booking!Waitlist, Booking!Move, Owner, Status
    <2> QED
      BY <2>2
  <1>3. CASE app'[a].status = "declined"
    <2>1. Status' = [Status EXCEPT ![a] = "declined"] /\ Status[a] \in {"pending", "waitlisted"}
      BY <1>3, StatusMoves DEF Status
    <2>2. Booking!Decline(a)
      BY <1>1, <2>1 DEF Booking!Decline, Booking!Move, Owner, Status
    <2> QED
      BY <2>2
  <1>4. CASE app'[a].status = "withdrawn"
    <2>1. Status' = [Status EXCEPT ![a] = "withdrawn"] /\ Status[a] \in {"pending", "waitlisted"}
      BY <1>4, StatusMoves DEF Status
    <2>2. Booking!Withdraw(a)
      BY <1>1, <2>1 DEF Booking!Withdraw, Booking!Move, Booking!Live, Owner, Status
    <2> QED
      BY <2>2
  <1> QED
    BY <1>2, <1>3, <1>4

LEMMA ResignsBooking ==
  ASSUME TypeOK, applicant' = applicant, NEW b \in App, Resigned(b)
  PROVE  Booking!Withdraw(b)
  <1> USE DEF Resigned
  <1>1. Status' = [Status EXCEPT ![b] = "withdrawn"] /\ Status[b] = "accepted"
    BY StatusMoves DEF Status
  <1>2. Owner' = Owner
    BY OwnersKept
  <1>3. Booking!Having("waitlisted") = {}
    BY DEF Booking!Having
  <1> QED
    BY <1>1, <1>2, <1>3 DEF Booking!Withdraw, Booking!Move, Booking!Live, Owner, Status

\* The application FindWaitlisted picks is the one the abstract system picks.
LEMMA EarliestIsMin ==
  ASSUME NEW a \in App, EarliestWaitlisted(a)
  PROVE  Booking!Min(Booking!Having("waitlisted")) = a
  <1> DEFINE W == Booking!Having("waitlisted")
  <1>1. W \subseteq App /\ a \in W /\ \A b \in W : a =< b
    BY DEF Booking!Having, EarliestWaitlisted
  <1> HIDE DEF W
  <1>2. App \subseteq Int
    BY MaxAppsAssumption
  <1>3. \A x \in W : (\A y \in W : x =< y) <=> x = a
    BY <1>1, <1>2
  <1>4. Booking!Min(W) = a
    BY <1>1, <1>3 DEF Booking!Min
  <1> QED
    BY <1>4 DEF W

LEMMA PassesBooking ==
  ASSUME TypeOK, applicant' = applicant, NEW a \in App, NEW b \in App, Passed(a, b)
  PROVE  Booking!Withdraw(b)
  <1> USE DEF Passed
  <1>1. Status' = [Status EXCEPT ![b] = "withdrawn", ![a] = "accepted"] /\ Status[b] = "accepted"
    BY StatusMoves DEF Status, EarliestWaitlisted
  <1>2. Owner' = Owner
    BY OwnersKept DEF EarliestWaitlisted
  <1>3. Booking!Having("waitlisted") # {} /\ Booking!Min(Booking!Having("waitlisted")) = a
    BY EarliestIsMin DEF Booking!Having, EarliestWaitlisted
  <1> QED
    BY <1>1, <1>2, <1>3 DEF Booking!Withdraw, Booking!Live, Owner, Status

LEMMA ClosesBooking ==
  ASSUME TypeOK, applicant' = applicant, Closed
  PROVE  Booking!Cancel
  <1> USE DEF Closed, Live
  <1>1. Status' = [a \in App |-> IF Status[a] \in Booking!Live THEN "declined" ELSE Status[a]]
    BY DEF Status, Booking!Live
  <1>2. Owner' = Owner
    BY OwnersKept
  <1> QED
    BY <1>1, <1>2 DEF Booking!Cancel, Owner, Status

LEMMA BookingStep ==
  ASSUME OneRequest, SerialInv, [Next]_vars
  PROVE  [Booking!Next]_Booking!vars
  <1>1. CASE UNCHANGED vars
    BY <1>1 DEF vars, rowVars, Booking!vars
  <1>2. CASE Next
    <2>1. PICK w \in Worker : StepOf(w)
      BY <1>2, NextSteps
    <2>2. CASE ~Commit(w)
      BY <2>1, <2>2, BookingStutter DEF SerialInv
    <2>3. CASE Commit(w)
      <3>1. SlotsInv /\ TypeOK /\ Serial(w)
        BY DEF SerialInv, SlotsInv, IInv
      <3>2. /\ applicant' = applicant
            /\ \/ \E a \in App : Submitted(a)
               \/ \E a \in App : AcceptedOne(a)
               \/ \E a \in App : Moved(a)
               \/ \E b \in App : Resigned(b)
               \/ \E a, b \in App : Passed(a, b)
               \/ Closed
        BY <2>3, <3>1, CommitKinds
      <3>3. ASSUME NEW a \in App, Submitted(a) PROVE \E p \in Person : Booking!Submit(p)
        <4>1. PICK p \in Person : p = applicant[a]
          BY <3>3 DEF Submitted
        <4> QED
          BY <3>1, <3>2, <3>3, <4>1, SubmitsBooking
      <3>4. ASSUME NEW a \in App, AcceptedOne(a) \/ Moved(a) \/ Resigned(a)
            PROVE  Booking!Accept(a) \/ Booking!Waitlist(a) \/ Booking!Decline(a) \/ Booking!Withdraw(a)
        BY <3>1, <3>2, <3>4, AcceptsBooking, MovesBooking, ResignsBooking
      <3>5. ASSUME NEW a \in App, NEW b \in App, Passed(a, b) PROVE Booking!Withdraw(b)
        BY <3>1, <3>2, <3>5, PassesBooking
      <3>6. Closed => Booking!Cancel
        BY <3>1, <3>2, ClosesBooking
      <3> QED
        BY <3>2, <3>3, <3>4, <3>5, <3>6 DEF Booking!Next
    <2> QED
      BY <2>2, <2>3
  <1> QED
    BY <1>1, <1>2

\* While requests do not overlap the counter of a scheduled shift counts its
\* accepted applications, withdrawals and promotions included.
THEOREM SlotsCountedSerially ==
  ASSUME OneRequest
  PROVE  Spec => []SlotsAccounted
  <1>1. SerialInv => SlotsAccounted
    BY DEF SerialInv, Orderly, SlotsAccounted
  <1>2. SerialInv /\ [Next]_vars => SerialInv'
    BY SerialInvStep
  <1> QED
    BY <1>1, <1>2, SerialInit, PTL DEF Spec

\* Requests that do not overlap implement the atomic use cases of SlotBooking:
\* every COMMIT is one of its steps, and every other statement a stutter.
THEOREM ImplementsBooking ==
  ASSUME OneRequest
  PROVE  Spec => BookingSpec
  <1>1. SerialInv /\ [Next]_vars => SerialInv'
    BY SerialInvStep
  <1>2. SerialInv /\ [Next]_vars => [Booking!Next]_Booking!vars
    BY BookingStep
  <1> QED
    BY <1>1, <1>2, SerialInit, BookingInit, PTL DEF Spec, BookingSpec, Booking!Spec
=============================================================================
