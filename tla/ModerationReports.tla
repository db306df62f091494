------------------------- MODULE ModerationReports -------------------------
(***************************************************************************)
(* Reports of the moderation module: filing, claiming, releasing,          *)
(* resolving, dismissing, and the retention sweep that anonymizes old      *)
(* rows.  A use case reads the report, decides from what it read whether   *)
(* the transition is legal and the caller authorized, and updates the row  *)
(* by its id in a transaction of its own: two requests may do so at once,  *)
(* and the sweep writes rows from a list it read before.                   *)
(*                                                                         *)
(* Transactions write one row of `report` and insert events: each is one   *)
(* step.  Of the events of a report only the last one is kept.             *)
(***************************************************************************)
EXTENDS Naturals, Authz, Tables

CONSTANTS
    Person, Status,      \* persons, and [Person -> account status]
    Facts,               \* [Person -> set of Authz facts], their active roles
    Reporter,            \* bound: the persons who file reports
    Post, PostScope,     \* posts that can be reported, [Post -> scope]
    ReportId,            \* bound: ids of reports
    Worker               \* requests that may overlap

VARIABLES
    reports,   \* [filed ids -> Row]
    last,      \* [filed ids -> type of the last event published about it]
    job,       \* [Worker -> Job], requests between their read and their write
    swept,     \* rows the sweep still has to update: id -> the holder it read
    clobbered  \* history: reports whose holder changed after the sweep read it

vars == <<reports, last, job, swept, clobbered>>

Nobody == "nobody"
Anonymous == "anonymous"   \* any anon_<ulid> token
OldAge == {"recent", "old"}

ReportStatus == {"open", "reviewing", "resolved", "dismissed"}
Row == [status : ReportStatus, scope : {Global} \cup {PostScope[p] : p \in Post},
        reporter : Person \cup {Anonymous}, holder : Person \cup {Nobody, Anonymous},
        age : OldAge]

Idle == [op |-> "idle", caller |-> Nobody, report |-> Nobody]
Job == [op : {"claim", "release", "resolve", "dismiss"}, caller : Person, report : ReportId]

TypeOK ==
    /\ \E filed \in SUBSET ReportId :
         /\ reports \in [filed -> Row]
         /\ last \in [filed -> {"ReportFiled", "ReportResolved", "ReportDismissed"}]
         /\ DOMAIN swept \subseteq filed /\ clobbered \subseteq filed
    /\ job \in [Worker -> Job \cup {Idle}]

Init ==
    /\ reports = <<>> /\ last = <<>>
    /\ job = [w \in Worker |-> Idle]
    /\ swept = <<>> /\ clobbered = {}

Subject(p) == [id |-> p, status |-> Status[p]]
Filed == DOMAIN reports
-----------------------------------------------------------------------------
\* Mutant: a resolved report may be taken up again.
ReopenableTransitions ==
    {<<"open", "reviewing">>, <<"open", "dismissed">>, <<"reviewing", "resolved">>,
     <<"reviewing", "dismissed">>, <<"reviewing", "open">>, <<"resolved", "open">>}

LegalTransitions ==
    {<<"open", "reviewing">>, <<"open", "dismissed">>, <<"reviewing", "resolved">>,
     <<"reviewing", "dismissed">>, <<"reviewing", "open">>}
Terminal == {"resolved", "dismissed"}

\* What a report is about fixes its scope: a post's own, or org for a person.
Reportable == Person \cup Post
ScopeOf(entity) == IF entity \in Post THEN PostScope[entity] ELSE Global

\* No reading of it can become stale before the insert: one step.
FileReport(r, reporter, entity) ==
    /\ r \notin Filed /\ entity # reporter
    /\ reports' = Inserted(reports, r, [status |-> "open", scope |-> ScopeOf(entity),
                                       reporter |-> reporter, holder |-> Nobody, age |-> "recent"])
    /\ last' = Inserted(last, r, "ReportFiled")
    /\ UNCHANGED <<job, swept, clobbered>>

\* The part before the transaction of each use case on a filed report.
Read(w, op, c, r, to, action, resource) ==
    /\ job[w] = Idle
    /\ <<reports[r].status, to>> \in LegalTransitions
    /\ Can(Subject(c), action, resource, Facts[c])
    /\ job' = [job EXCEPT ![w] = [op |-> op, caller |-> c, report |-> r]]
    /\ UNCHANGED <<reports, last, swept, clobbered>>

ReadToClaim(w, c, r) ==
    Read(w, "claim", c, r, "reviewing", "report.claim", InScope(reports[r].scope))
ReadToRelease(w, c, r) ==
    Read(w, "release", c, r, "open", "report.release_claim", OwnedBy(reports[r].holder))
ReadToResolve(w, c, r) ==
    Read(w, "resolve", c, r, "resolved", "report.resolve", OwnedBy(reports[r].holder))

\* A fast dismissal needs authority over the scope, a later one the claim.
ReadToDismiss(w, c, r) ==
    IF reports[r].status = "open"
    THEN Read(w, "dismiss", c, r, "dismissed", "report.claim", InScope(reports[r].scope))
    ELSE Read(w, "dismiss", c, r, "dismissed", "report.resolve", OwnedBy(reports[r].holder))

Writing(w, op) ==
    /\ job[w].op = op
    /\ job' = [job EXCEPT ![w] = Idle]
    /\ UNCHANGED <<swept, clobbered>>

\* The updates: by id, whatever the row holds by now.
Claim(w) == LET r == job[w].report IN
    /\ Writing(w, "claim")
    /\ reports' = [reports EXCEPT ![r] = [@ EXCEPT !.status = "reviewing", !.holder = job[w].caller]]
    /\ UNCHANGED last

\* Mutant: a release that forgets to take the holder off.
ReleaseStatusOnly(w) == LET r == job[w].report IN
    /\ Writing(w, "release")
    /\ reports' = [reports EXCEPT ![r].status = "open"]
    /\ UNCHANGED last

Release(w) == LET r == job[w].report IN
    /\ Writing(w, "release")
    /\ reports' = [reports EXCEPT ![r] = [@ EXCEPT !.status = "open", !.holder = Nobody]]
    /\ UNCHANGED last

Resolve(w) == LET r == job[w].report IN
    /\ Writing(w, "resolve")
    /\ reports' = [reports EXCEPT ![r].status = "resolved"]
    /\ last' = [last EXCEPT ![r] = "ReportResolved"]

\* Mutant: a dismissal that publishes nothing.
DismissSilently(w) == LET r == job[w].report IN
    /\ Writing(w, "dismiss")
    /\ reports' = [reports EXCEPT ![r].status = "dismissed"]
    /\ UNCHANGED last

Dismiss(w) == LET r == job[w].report IN
    /\ Writing(w, "dismiss")
    /\ reports' = [reports EXCEPT ![r].status = "dismissed"]
    /\ last' = [last EXCEPT ![r] = "ReportDismissed"]

\* The request fails or its process dies before the commit.
Abandon(w) ==
    /\ job[w] # Idle
    /\ job' = [job EXCEPT ![w] = Idle]
    /\ UNCHANGED <<reports, last, swept, clobbered>>
-----------------------------------------------------------------------------
\* The cutoff of the retention policy passes a report.
GrowOld(r) ==
    /\ reports[r].age = "recent"
    /\ reports' = [reports EXCEPT ![r].age = "old"]
    /\ UNCHANGED <<last, job, swept, clobbered>>

\* sweepModerationLogs: the list of old reports not yet anonymized, read once.
SweepRead ==
    /\ swept = <<>>
    /\ LET stale == {r \in Filed : reports[r].age = "old" /\ reports[r].reporter # Anonymous}
       IN stale # {} /\ swept' = [r \in stale |-> reports[r].holder]
    /\ UNCHANGED <<reports, last, job, clobbered>>

AnonymousUnlessNobody(holder) == IF holder = Nobody THEN Nobody ELSE Anonymous

\* Each row is then updated from the list, not from what it holds now.
SweepReport(r) ==
    /\ reports' = [reports EXCEPT ![r] = [@ EXCEPT !.reporter = Anonymous,
                                                    !.holder = AnonymousUnlessNobody(swept[r])]]
    /\ clobbered' = IF reports[r].holder = swept[r] THEN clobbered ELSE clobbered \cup {r}
    /\ swept' = [other \in DOMAIN swept \ {r} |-> swept[other]]
    /\ UNCHANGED <<last, job>>

SweepDies == swept # <<>> /\ swept' = <<>> /\ UNCHANGED <<reports, last, job, clobbered>>
-----------------------------------------------------------------------------
\* The mutations of the router, for a caller with a registered person.
FileRequest ==
    \E r \in ReportId, c \in Reporter, entity \in Reportable : FileReport(r, c, entity)
ReportRequest(w) ==
    \E c \in Person, r \in Filed :
        \/ ReadToClaim(w, c, r) \/ ReadToRelease(w, c, r)
        \/ ReadToResolve(w, c, r) \/ ReadToDismiss(w, c, r)

Next ==
    \/ FileRequest
    \/ \E w \in Worker :
         \/ ReportRequest(w)
         \/ Claim(w) \/ Release(w) \/ Resolve(w) \/ Dismiss(w) \/ Abandon(w)
    \/ \E r \in Filed : GrowOld(r)
    \/ SweepRead \/ (\E r \in DOMAIN swept : SweepReport(r)) \/ SweepDies

Spec == Init /\ [][Next]_vars
-----------------------------------------------------------------------------
\* A report that is being reviewed has somebody who reviews it, who alone can
\* release or resolve it, and an open one has nobody, however claims and
\* releases overlap.  Only the sweep breaks it, writing a holder it read
\* before the claim or the release.
HolderMatchesStatus ==
    \A r \in Filed \ clobbered :
        /\ reports[r].status = "open" => reports[r].holder = Nobody
        /\ reports[r].status = "reviewing" => reports[r].holder # Nobody

\* Consumers of the events are told how a report ended: the last event about
\* a terminal report is that of its status, also when two moderators ended it
\* differently at once.
OutcomeAnnounced ==
    \A r \in Filed :
        /\ reports[r].status = "resolved" => last[r] = "ReportResolved"
        /\ reports[r].status = "dismissed" => last[r] = "ReportDismissed"

\* reportStateMachine.ts: "resolved and dismissed are terminal ... never a
\* transition out of either".  Each use case asks it before its transaction
\* only, and a claim that asked before the report ended takes it back.
TerminalIsFinal ==
    [][\A r \in Filed : reports[r].status \in Terminal => reports'[r].status = reports[r].status]_vars

\* What is left of it: once a report is terminal and no request that read it
\* before is under way any more, nothing takes it back, and nothing is even
\* attempted on it.
Settled(r) == reports[r].status \in Terminal /\ \A w \in Worker : job[w].report # r
SettledForGood ==
    [][\A r \in Filed : Settled(r) => Settled(r)' /\ reports'[r].status = reports[r].status]_vars
=============================================================================
