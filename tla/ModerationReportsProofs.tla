----------------------- MODULE ModerationReportsProofs -----------------------
(***************************************************************************)
(* Theorems about the reports, for any persons, policy facts, posts, ids   *)
(* and number of overlapping requests.  Ids are generated and never equal  *)
(* one of the words the columns use for a missing or erased person, which  *)
(* is the hypothesis Identifiers.                                          *)
(***************************************************************************)
EXTENDS ModerationReports, TLAPS

Identifiers ==
    /\ Nobody \notin Person /\ Nobody \notin ReportId
    /\ Reporter \subseteq Person

LastEvent == {"ReportFiled", "ReportResolved", "ReportDismissed"}

\* TypeOK with its witness: the filed ids are the domain of the table.  The
\* list of the sweep holds what a holder can be.
Typed ==
    /\ Filed \subseteq ReportId
    /\ reports \in [Filed -> Row]
    /\ last \in [Filed -> LastEvent]
    /\ DOMAIN swept \subseteq Filed /\ clobbered \subseteq Filed
    /\ \A r \in DOMAIN swept : swept[r] \in Person \cup {Nobody, Anonymous}
    /\ job \in [Worker -> Job \cup {Idle}]
    /\ \A w \in Worker : job[w] # Idle => job[w].report \in Filed

IInv == Typed /\ HolderMatchesStatus /\ OutcomeAnnounced

-----------------------------------------------------------------------------
(* The steps, by what they do to the table. *)

\* FileReport adds one open row that nobody holds, and keeps the others.
LEMMA Filing ==
  ASSUME Identifiers, Typed, FileRequest
  PROVE  \E r \in ReportId \ Filed :
           /\ Filed' = Filed \cup {r} /\ DOMAIN last' = Filed \cup {r}
           /\ reports'[r] \in Row /\ reports'[r].status = "open" /\ reports'[r].holder = Nobody
           /\ last'[r] = "ReportFiled"
           /\ \A x \in Filed : reports'[x] = reports[x] /\ last'[x] = last[x]
           /\ reports' \in [Filed \cup {r} -> Row] /\ last' \in [Filed \cup {r} -> LastEvent]
           /\ UNCHANGED <<job, swept, clobbered>>
  <1>1. PICK r \in ReportId, c \in Reporter, entity \in Reportable : FileReport(r, c, entity)
    BY DEF FileRequest
  <1> DEFINE row == [status |-> "open", scope |-> ScopeOf(entity),
                     reporter |-> c, holder |-> Nobody, age |-> "recent"]
  <1>2. row \in Row
    BY DEF Row, ScopeOf, ReportStatus, OldAge, Identifiers
  <1>3. /\ reports' = [x \in Filed \cup {r} |-> IF x \in Filed THEN reports[x] ELSE row]
        /\ last' = [x \in Filed \cup {r} |-> IF x \in Filed THEN last[x] ELSE "ReportFiled"]
        /\ r \in ReportId \ Filed
        /\ UNCHANGED <<job, swept, clobbered>>
    BY <1>1 DEF FileReport, Filed, Typed, Inserted
  <1> HIDE DEF row
  <1>4. row.status = "open" /\ row.holder = Nobody
    BY DEF row
  <1>5. Filed' = Filed \cup {r} /\ DOMAIN last' = Filed \cup {r}
    BY <1>3 DEF Filed
  <1>6. /\ reports'[r] = row /\ last'[r] = "ReportFiled"
        /\ \A x \in Filed : reports'[x] = reports[x] /\ last'[x] = last[x]
    BY <1>3
  <1>7. reports' \in [Filed \cup {r} -> Row] /\ last' \in [Filed \cup {r} -> LastEvent]
    BY <1>2, <1>3 DEF Typed, LastEvent
  <1> QED
    BY <1>2, <1>3, <1>4, <1>5, <1>6, <1>7

\* A read only takes up a request, about a report it may still change.
LEMMA Reading ==
  ASSUME Typed, NEW w \in Worker, ReportRequest(w)
  PROVE  \E c \in Person, r \in Filed, op \in {"claim", "release", "resolve", "dismiss"} :
           /\ reports[r].status \notin Terminal
           /\ job' = [job EXCEPT ![w] = [op |-> op, caller |-> c, report |-> r]]
           /\ UNCHANGED <<reports, last, swept, clobbered>>
  <1>1. PICK c \in Person, r \in Filed :
           \/ ReadToClaim(w, c, r) \/ ReadToRelease(w, c, r)
           \/ ReadToResolve(w, c, r) \/ ReadToDismiss(w, c, r)
    BY DEF ReportRequest
  <1>2. \E op \in {"claim", "release", "resolve", "dismiss"}, to \in ReportStatus :
           /\ <<reports[r].status, to>> \in LegalTransitions
           /\ job' = [job EXCEPT ![w] = [op |-> op, caller |-> c, report |-> r]]
           /\ UNCHANGED <<reports, last, swept, clobbered>>
    BY <1>1 DEF ReadToClaim, ReadToRelease, ReadToResolve, ReadToDismiss, Read, ReportStatus
  <1> QED
    BY <1>2 DEF LegalTransitions, Terminal

\* The rows an update can produce.
LEMMA StatusUpdate ==
  ASSUME NEW row \in Row, NEW s \in ReportStatus
  PROVE  [row EXCEPT !.status = s] \in Row /\ [row EXCEPT !.status = s].status = s
  BY DEF Row

LEMMA HolderUpdate ==
  ASSUME NEW row \in Row, NEW s \in ReportStatus, NEW h \in Person \cup {Nobody, Anonymous}
  PROVE  /\ [row EXCEPT !.status = s, !.holder = h] \in Row
         /\ [row EXCEPT !.status = s, !.holder = h].status = s
         /\ [row EXCEPT !.status = s, !.holder = h].holder = h
  BY DEF Row

LEMMA PersonsUpdate ==
  ASSUME NEW row \in Row, NEW h \in Person \cup {Nobody, Anonymous}
  PROVE  /\ [row EXCEPT !.reporter = Anonymous, !.holder = h] \in Row
         /\ [row EXCEPT !.reporter = Anonymous, !.holder = h].status = row.status
         /\ [row EXCEPT !.reporter = Anonymous, !.holder = h].holder = h
  BY DEF Row

LEMMA AgeUpdate ==
  ASSUME NEW row \in Row
  PROVE  /\ [row EXCEPT !.age = "old"] \in Row
         /\ [row EXCEPT !.age = "old"].status = row.status
         /\ [row EXCEPT !.age = "old"].holder = row.holder
  BY DEF Row, OldAge

\* The table with one row replaced.
LEMMA TableSet ==
  ASSUME Typed, NEW r \in Filed, NEW row \in Row, reports' = [reports EXCEPT ![r] = row]
  PROVE  /\ Filed' = Filed /\ reports' \in [Filed -> Row]
         /\ reports'[r] = row
         /\ \A x \in Filed : x # r => reports'[x] = reports[x]
  BY DEF Typed, Filed

LEMMA TypedRow ==
  ASSUME Typed, NEW r \in Filed
  PROVE  /\ reports[r] \in Row /\ reports[r].holder \in Person \cup {Nobody, Anonymous}
         /\ reports[r].status \in ReportStatus
  BY DEF Typed, Row

\* A write is of the row its request is about, and ends the request.
LEMMA Writes ==
  ASSUME Typed, NEW w \in Worker, NEW op \in {"claim", "release", "resolve", "dismiss"}, Writing(w, op)
  PROVE  /\ job[w] # Idle /\ job[w].report \in Filed /\ job[w].caller \in Person
         /\ job' = [job EXCEPT ![w] = Idle]
         /\ UNCHANGED <<swept, clobbered>>
  BY DEF Typed, Writing, Idle, Job

\* What the four writes do to the table.
LEMMA Claiming ==
  ASSUME Typed, NEW w \in Worker, Claim(w)
  PROVE  LET r == job[w].report IN
         /\ Filed' = Filed /\ reports' \in [Filed -> Row] /\ last' = last
         /\ reports'[r].status = "reviewing" /\ reports'[r].holder \in Person
         /\ \A x \in Filed : x # r => reports'[x] = reports[x]
  <1> DEFINE r == job[w].report
             caller == job[w].caller
             row == [reports[r] EXCEPT !.status = "reviewing", !.holder = caller]
  <1>1. Writing(w, "claim") /\ reports' = [reports EXCEPT ![r] = row] /\ last' = last
    BY DEF Claim
  <1>2. r \in Filed /\ caller \in Person
    BY <1>1, Writes
  <1>3. reports[r] \in Row
    BY <1>2, TypedRow
  <1>4. row \in Row /\ row.status = "reviewing" /\ row.holder = caller
    <2> HIDE DEF caller, r
    <2> QED
      BY <1>2, <1>3, HolderUpdate DEF ReportStatus
  <1> HIDE DEF row, r
  <1>5. /\ Filed' = Filed /\ reports' \in [Filed -> Row]
        /\ reports'[r] = row
        /\ \A x \in Filed : x # r => reports'[x] = reports[x]
    BY <1>1, <1>2, <1>4, TableSet
  <1> QED
    BY <1>1, <1>2, <1>4, <1>5 DEF r

LEMMA Releasing ==
  ASSUME Typed, NEW w \in Worker, Release(w)
  PROVE  LET r == job[w].report IN
         /\ Filed' = Filed /\ reports' \in [Filed -> Row] /\ last' = last
         /\ reports'[r].status = "open" /\ reports'[r].holder = Nobody
         /\ \A x \in Filed : x # r => reports'[x] = reports[x]
  <1> DEFINE r == job[w].report
             row == [reports[r] EXCEPT !.status = "open", !.holder = Nobody]
  <1>1. Writing(w, "release") /\ reports' = [reports EXCEPT ![r] = row] /\ last' = last
    BY DEF Release
  <1>2. r \in Filed
    BY <1>1, Writes
  <1>3. reports[r] \in Row
    BY <1>2, TypedRow
  <1>4. row \in Row /\ row.status = "open" /\ row.holder = Nobody
    BY <1>3, HolderUpdate DEF ReportStatus
  <1> HIDE DEF row, r
  <1>5. /\ Filed' = Filed /\ reports' \in [Filed -> Row]
        /\ reports'[r] = row
        /\ \A x \in Filed : x # r => reports'[x] = reports[x]
    BY <1>1, <1>2, <1>4, TableSet
  <1> QED
    BY <1>1, <1>4, <1>5 DEF r

\* Resolve and Dismiss set the status and the last event together.
LEMMA Ending ==
  ASSUME Typed, NEW w \in Worker, Resolve(w) \/ Dismiss(w)
  PROVE  LET r == job[w].report IN
         /\ Filed' = Filed /\ reports' \in [Filed -> Row] /\ last' \in [Filed -> LastEvent]
         /\ \/ reports'[r].status = "resolved" /\ last'[r] = "ReportResolved"
            \/ reports'[r].status = "dismissed" /\ last'[r] = "ReportDismissed"
         /\ \A x \in Filed : x # r => reports'[x] = reports[x] /\ last'[x] = last[x]
  <1> DEFINE r == job[w].report
  <1>1. PICK end \in {<<"resolved", "ReportResolved">>, <<"dismissed", "ReportDismissed">>} :
           /\ reports' = [reports EXCEPT ![r] = [reports[r] EXCEPT !.status = end[1]]]
           /\ last' = [last EXCEPT ![r] = end[2]]
    BY DEF Resolve, Dismiss
  <1>2. r \in Filed
    BY Writes DEF Resolve, Dismiss
  <1>3. reports[r] \in Row /\ end[1] \in ReportStatus
    BY <1>2, TypedRow DEF ReportStatus
  <1> DEFINE row == [reports[r] EXCEPT !.status = end[1]]
  <1>4. row \in Row /\ row.status = end[1]
    BY <1>3, StatusUpdate
  <1> HIDE DEF row, r
  <1>5. /\ Filed' = Filed /\ reports' \in [Filed -> Row]
        /\ reports'[r] = row
        /\ \A x \in Filed : x # r => reports'[x] = reports[x]
    BY <1>1, <1>2, <1>4, TableSet DEF row
  <1>6. /\ last' \in [Filed -> LastEvent] /\ last'[r] = end[2]
        /\ \A x \in Filed : x # r => last'[x] = last[x]
    BY <1>1, <1>2 DEF Typed, LastEvent
  <1> QED
    BY <1>4, <1>5, <1>6 DEF r

\* The sweep replaces the persons of one row, and remembers when it was late.
LEMMA Sweeping ==
  ASSUME Typed, NEW r \in DOMAIN swept, SweepReport(r)
  PROVE  /\ Filed' = Filed /\ reports' \in [Filed -> Row] /\ last' = last /\ job' = job
         /\ reports'[r].status = reports[r].status
         /\ reports'[r].holder = AnonymousUnlessNobody(swept[r])
         /\ \A x \in Filed : x # r => reports'[x] = reports[x]
         /\ r \in clobbered' \/ reports[r].holder = swept[r]
         /\ clobbered \subseteq clobbered' /\ clobbered' \subseteq Filed
         /\ DOMAIN swept' \subseteq DOMAIN swept
         /\ \A x \in DOMAIN swept' : swept'[x] = swept[x]
  <1> DEFINE holder == AnonymousUnlessNobody(swept[r])
             row == [reports[r] EXCEPT !.reporter = Anonymous, !.holder = holder]
  <1>1. reports' = [reports EXCEPT ![r] = row] /\ last' = last /\ job' = job
    BY DEF SweepReport
  <1>2. r \in Filed /\ reports[r] \in Row
    BY TypedRow DEF Typed
  <1>3. holder \in Person \cup {Nobody, Anonymous}
    BY DEF AnonymousUnlessNobody
  <1>4. row \in Row /\ row.status = reports[r].status /\ row.holder = holder
    <2> HIDE DEF holder
    <2> QED
      BY <1>2, <1>3, PersonsUpdate
  <1> HIDE DEF row, holder
  <1>5. /\ Filed' = Filed /\ reports' \in [Filed -> Row]
        /\ reports'[r] = row
        /\ \A x \in Filed : x # r => reports'[x] = reports[x]
    BY <1>1, <1>2, <1>4, TableSet
  <1>6. /\ r \in clobbered' \/ reports[r].holder = swept[r]
        /\ clobbered \subseteq clobbered' /\ clobbered' \subseteq Filed
        /\ DOMAIN swept' \subseteq DOMAIN swept
        /\ \A x \in DOMAIN swept' : swept'[x] = swept[x]
    BY <1>2 DEF SweepReport, Typed
  <1> QED
    BY <1>1, <1>4, <1>5, <1>6 DEF holder

LEMMA Ageing ==
  ASSUME Typed, NEW r \in Filed, GrowOld(r)
  PROVE  /\ Filed' = Filed /\ reports' \in [Filed -> Row]
         /\ \A x \in Filed : /\ reports'[x].status = reports[x].status
                             /\ reports'[x].holder = reports[x].holder
         /\ UNCHANGED <<last, job, swept, clobbered>>
  <1> DEFINE row == [reports[r] EXCEPT !.age = "old"]
  <1>1. reports' = [reports EXCEPT ![r] = row] /\ UNCHANGED <<last, job, swept, clobbered>>
    BY DEF GrowOld
  <1>2. reports[r] \in Row
    BY TypedRow
  <1>3. row \in Row /\ row.status = reports[r].status /\ row.holder = reports[r].holder
    BY <1>2, AgeUpdate
  <1> HIDE DEF row
  <1> QED
    BY <1>1, <1>3, TableSet

-----------------------------------------------------------------------------
(* Type correctness. *)

LEMMA TypedInit == Init => Typed
  BY DEF Init, Typed, Filed, Idle

LEMMA TypedStep ==
  ASSUME Identifiers, Typed, [Next]_vars
  PROVE  Typed'
  <1>1. CASE FileRequest
    BY <1>1, Filing DEF Typed
  <1>2. ASSUME NEW w \in Worker, ReportRequest(w) PROVE Typed'
    BY <1>2, Reading DEF Typed, Filed, Job, Idle
  <1>3. ASSUME NEW w \in Worker, Claim(w) PROVE Typed'
    <2>1. Writing(w, "claim")
      BY <1>3 DEF Claim
    <2> QED
      BY <1>3, <2>1, Claiming, Writes DEF Typed, Idle
  <1>4. ASSUME NEW w \in Worker, Release(w) PROVE Typed'
    <2>1. Writing(w, "release")
      BY <1>4 DEF Release
    <2> QED
      BY <1>4, <2>1, Releasing, Writes DEF Typed, Idle
  <1>5. ASSUME NEW w \in Worker, Resolve(w) \/ Dismiss(w) PROVE Typed'
    <2>1. Writing(w, "resolve") \/ Writing(w, "dismiss")
      BY <1>5 DEF Resolve, Dismiss
    <2> QED
      BY <1>5, <2>1, Ending, Writes DEF Typed, Idle
  <1>6. ASSUME NEW w \in Worker, Abandon(w) PROVE Typed'
    BY <1>6 DEF Typed, Abandon, Filed, Idle
  <1>7. ASSUME NEW r \in Filed, GrowOld(r) PROVE Typed'
    BY <1>7, Ageing DEF Typed
  <1>8. CASE SweepRead
    BY <1>8, TypedRow DEF Typed, SweepRead, Filed
  <1>9. ASSUME NEW r \in DOMAIN swept, SweepReport(r) PROVE Typed'
    BY <1>9, Sweeping DEF Typed
  <1>10. CASE SweepDies
    BY <1>10 DEF Typed, SweepDies, Filed
  <1>11. CASE UNCHANGED vars
    BY <1>11 DEF Typed, vars, Filed
  <1> QED
    BY <1>1, <1>2, <1>3, <1>4, <1>5, <1>6, <1>7, <1>8, <1>9, <1>10, <1>11 DEF Next

LEMMA TypedSuffices == Typed => TypeOK
  BY DEF Typed, TypeOK, LastEvent

\* The rows are what the schema allows, for ever: a holder, a reporter and a
\* request under way are persons, and what the sweep has to do is about rows
\* that are filed.
THEOREM TypeCorrect ==
  ASSUME Identifiers
  PROVE  Spec => []TypeOK
  <1>1. Typed /\ [Next]_vars => Typed'
    BY TypedStep
  <1> QED
    BY <1>1, TypedInit, TypedSuffices, PTL DEF Spec

-----------------------------------------------------------------------------
(* Who holds a report, and what was said about it. *)

LEMMA InvInit == Init => IInv
  BY TypedInit DEF IInv, Init, HolderMatchesStatus, OutcomeAnnounced, Filed

LEMMA HolderStep ==
  ASSUME Identifiers, IInv, [Next]_vars
  PROVE  HolderMatchesStatus'
  <1> USE DEF IInv, HolderMatchesStatus
  <1>1. CASE FileRequest
    BY <1>1, Filing
  <1>2. ASSUME NEW w \in Worker, ReportRequest(w) PROVE HolderMatchesStatus'
    BY <1>2, Reading DEF Filed
  <1>3. ASSUME NEW w \in Worker, Claim(w) PROVE HolderMatchesStatus'
    <2>1. UNCHANGED clobbered
      BY <1>3 DEF Claim, Writing
    <2> QED
      BY <1>3, <2>1, Claiming DEF Identifiers
  <1>4. ASSUME NEW w \in Worker, Release(w) PROVE HolderMatchesStatus'
    <2>1. UNCHANGED clobbered
      BY <1>4 DEF Release, Writing
    <2> QED
      BY <1>4, <2>1, Releasing
  <1>5. ASSUME NEW w \in Worker, Resolve(w) \/ Dismiss(w) PROVE HolderMatchesStatus'
    <2>1. UNCHANGED clobbered
      BY <1>5 DEF Resolve, Dismiss, Writing
    <2> QED
      BY <1>5, <2>1, Ending
  <1>6. ASSUME NEW w \in Worker, Abandon(w) PROVE HolderMatchesStatus'
    BY <1>6 DEF Abandon, Filed
  <1>7. ASSUME NEW r \in Filed, GrowOld(r) PROVE HolderMatchesStatus'
    BY <1>7, Ageing
  <1>8. CASE SweepRead
    BY <1>8 DEF SweepRead, Filed
  <1>9. ASSUME NEW r \in DOMAIN swept, SweepReport(r) PROVE HolderMatchesStatus'
    <2>1. Anonymous # Nobody
      BY DEF Anonymous, Nobody
    <2> QED
      BY <1>9, <2>1, Sweeping DEF AnonymousUnlessNobody
  <1>10. CASE SweepDies
    BY <1>10 DEF SweepDies, Filed
  <1>11. CASE UNCHANGED vars
    BY <1>11 DEF vars, Filed
  <1> QED
    BY <1>1, <1>2, <1>3, <1>4, <1>5, <1>6, <1>7, <1>8, <1>9, <1>10, <1>11 DEF Next

LEMMA OutcomeStep ==
  ASSUME Identifiers, IInv, [Next]_vars
  PROVE  OutcomeAnnounced'
  <1> USE DEF IInv, OutcomeAnnounced
  <1>1. CASE FileRequest
    BY <1>1, Filing
  <1>2. ASSUME NEW w \in Worker, ReportRequest(w) PROVE OutcomeAnnounced'
    BY <1>2, Reading DEF Filed
  <1>3. ASSUME NEW w \in Worker, Claim(w) PROVE OutcomeAnnounced'
    BY <1>3, Claiming
  <1>4. ASSUME NEW w \in Worker, Release(w) PROVE OutcomeAnnounced'
    BY <1>4, Releasing
  <1>5. ASSUME NEW w \in Worker, Resolve(w) \/ Dismiss(w) PROVE OutcomeAnnounced'
    BY <1>5, Ending
  <1>6. ASSUME NEW w \in Worker, Abandon(w) PROVE OutcomeAnnounced'
    BY <1>6 DEF Abandon, Filed
  <1>7. ASSUME NEW r \in Filed, GrowOld(r) PROVE OutcomeAnnounced'
    BY <1>7, Ageing
  <1>8. CASE SweepRead
    BY <1>8 DEF SweepRead, Filed
  <1>9. ASSUME NEW r \in DOMAIN swept, SweepReport(r) PROVE OutcomeAnnounced'
    BY <1>9, Sweeping
  <1>10. CASE SweepDies
    BY <1>10 DEF SweepDies, Filed
  <1>11. CASE UNCHANGED vars
    BY <1>11 DEF vars, Filed
  <1> QED
    BY <1>1, <1>2, <1>3, <1>4, <1>5, <1>6, <1>7, <1>8, <1>9, <1>10, <1>11 DEF Next

LEMMA InvStep ==
  ASSUME Identifiers
  PROVE  IInv /\ [Next]_vars => IInv'
  BY TypedStep, HolderStep, OutcomeStep DEF IInv

LEMMA Invariance ==
  ASSUME Identifiers
  PROVE  Spec => []IInv
  BY InvInit, InvStep, PTL DEF Spec

\* An open report has no holder and a reviewed one has somebody, unless the
\* sweep wrote a holder it had read before.
THEOREM HoldersMatch ==
  ASSUME Identifiers
  PROVE  Spec => []HolderMatchesStatus
  <1>1. IInv => HolderMatchesStatus
    BY DEF IInv
  <1> QED
    BY <1>1, Invariance, PTL

\* The last event about a terminal report is that of its status.
THEOREM OutcomesAnnounced ==
  ASSUME Identifiers
  PROVE  Spec => []OutcomeAnnounced
  <1>1. IInv => OutcomeAnnounced
    BY DEF IInv
  <1> QED
    BY <1>1, Invariance, PTL

-----------------------------------------------------------------------------
(* A settled report stays as it is. *)

\* The write of a request leaves the reports of nobody's request alone.
LEMMA SettledFrame ==
  ASSUME Identifiers, Typed, [Next]_vars, NEW r \in Filed, Settled(r)
  PROVE  Settled(r)' /\ reports'[r].status = reports[r].status
  <1> SUFFICES /\ reports'[r].status = reports[r].status
               /\ \A w \in Worker : job'[w].report # r
    BY DEF Settled
  <1> USE DEF Settled
  <1>0. Idle.report # r
    BY DEF Identifiers, Typed, Idle
  <1>1. CASE FileRequest
    BY <1>1, Filing
  <1>2. ASSUME NEW w \in Worker, ReportRequest(w)
        PROVE  reports'[r].status = reports[r].status /\ \A v \in Worker : job'[v].report # r
    BY <1>2, Reading DEF Typed
  <1>3. ASSUME NEW w \in Worker, Claim(w) \/ Release(w) \/ Resolve(w) \/ Dismiss(w)
        PROVE  reports'[r].status = reports[r].status /\ \A v \in Worker : job'[v].report # r
    <2>1. reports'[r] = reports[r]
      BY <1>3, Claiming, Releasing, Ending
    <2>2. job' = [job EXCEPT ![w] = Idle]
      BY <1>3 DEF Claim, Release, Resolve, Dismiss, Writing
    <2> QED
      BY <1>0, <2>1, <2>2 DEF Typed
  <1>4. ASSUME NEW w \in Worker, Abandon(w)
        PROVE  reports'[r].status = reports[r].status /\ \A v \in Worker : job'[v].report # r
    BY <1>0, <1>4 DEF Abandon, Typed
  <1>5. ASSUME NEW x \in Filed, GrowOld(x)
        PROVE  reports'[r].status = reports[r].status /\ \A v \in Worker : job'[v].report # r
    BY <1>5, Ageing
  <1>6. ASSUME NEW x \in DOMAIN swept, SweepReport(x)
        PROVE  reports'[r].status = reports[r].status /\ \A v \in Worker : job'[v].report # r
    BY <1>6, Sweeping
  <1>7. CASE SweepRead \/ SweepDies \/ UNCHANGED vars
    BY <1>7 DEF SweepRead, SweepDies, vars
  <1> QED
    BY <1>1, <1>2, <1>3, <1>4, <1>5, <1>6, <1>7 DEF Next

\* From the moment a report is terminal and no request about it is under way,
\* nothing takes it back and nothing is even attempted on it.
THEOREM SettledStays ==
  ASSUME Identifiers
  PROVE  Spec => SettledForGood
  <1>1. IInv /\ [Next]_vars =>
          [\A r \in Filed : Settled(r) => Settled(r)' /\ reports'[r].status = reports[r].status]_vars
    BY SettledFrame DEF IInv
  <1> QED
    BY <1>1, Invariance, PTL DEF Spec, SettledForGood
=============================================================================
