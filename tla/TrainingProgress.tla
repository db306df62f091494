-------------------------- MODULE TrainingProgress --------------------------
(***************************************************************************)
(* One learner's way through a published course: EnrollInCourse,           *)
(* RecordProgress and SubmitQuizAttempt of the training module, with the   *)
(* completion of modules and of the course that both may trigger, while an *)
(* author adds modules.  Requests overlap: a player sends a heartbeat      *)
(* every few seconds, from as many tabs as the learner has open.           *)
(*                                                                         *)
(* Reads before the transaction are steps of their own, and so is each     *)
(* statement of it (ReadCommitted).  Inserted rows that are never updated  *)
(* (quiz attempts, certificates, events) are counted per kind in `log`;    *)
(* those of an open transaction are in `inserted`.                         *)
(*                                                                         *)
(* watchProgressPercent and resumePositionSeconds are one level: 0 for     *)
(* neither, 1 for some progress, 2 for at least 90 percent watched.        *)
(***************************************************************************)
EXTENDS Naturals, FiniteSets

CONSTANTS
    Worker, NoWorker,
    Module, NoModule,    \* modules of the course, and "no module"
    Required,            \* modules with isRequired
    Prerequisite,        \* [Module -> SUBSET Module]: dependsOn
    Quiz,                \* modules with a quiz
    MaxAttempts,         \* of each quiz
    Reported,            \* bound: the levels that heartbeats report
    CertificateEnabled,  \* course.passingCertificateEnabled
    Many                 \* bound: up to how many `log` counts rows of a kind

Enrollment == "enrollment"

ASSUME WorkerAssumption == NoWorker \notin Worker /\ IsFiniteSet(Worker)
ASSUME ModuleAssumption ==
    /\ NoModule \notin Module /\ Enrollment \notin Module /\ IsFiniteSet(Module)
    /\ Required \subseteq Module /\ Quiz \subseteq Module
    /\ Prerequisite \in [Module -> SUBSET Module]
ASSUME CountAssumption ==
    /\ Reported \subseteq 0 .. 2
    /\ MaxAttempts \in Nat \ {0} /\ CertificateEnabled \in BOOLEAN
ASSUME ManyAssumption ==
    Many \in [{"ModuleCompleted", "QuizAttempt", "QuizPass", "CourseCompleted", "Certificate"}
                  -> Nat \ {0}]

Row == Module \cup {Enrollment}

VARIABLES
    course,               \* the modules added so far
    overlapped,           \* history: quizzes submitted twice at once
    db, working, lock,    \* the enrolment and its progress rows
    log, inserted,        \* rows inserted: committed, and by each worker
    pc, req               \* each worker's position and local variables

RC == INSTANCE ReadCommitted
tables == <<db, working, lock>>
locals == <<pc, req>>
vars == <<course, overlapped, tables, log, inserted, locals>>

Level == 0 .. 2
Progress == [status : {"absent", "not_started", "in_progress", "completed", "active"},
             level : Level]
Absent == [status |-> "absent", level |-> 0]

Fact == ({"ModuleCompleted", "QuizAttempt", "QuizPass"} \X Module)
          \cup ({"CourseCompleted", "Certificate"} \X {NoModule})
CourseCompleted == <<"CourseCompleted", NoModule>>
Certificate == <<"Certificate", NoModule>>
ModuleCompleted(m) == <<"ModuleCompleted", m>>

Operation == {"enroll", "heartbeat", "passQuiz", "failQuiz"}
ReadSteps == {"readCourse", "readProgress", "checkPrerequisites", "countAttempts"}
TxSteps == {"insertEnrollment", "beat", "insertAttempt", "evaluate", "checkQuiz",
            "completeModule", "readEnrollment", "countModules", "completeCourse",
            "commit"}
Request == [op : Operation \cup {"none"}, module : Module \cup {NoModule},
            level : Level, seen : Progress, rows : SUBSET Module]
NoRequest == [op |-> "none", module |-> NoModule, level |-> 0, seen |-> Absent,
              rows |-> {}]

TypeOK ==
    /\ course \in SUBSET Module /\ overlapped \in SUBSET Module
    /\ db \in [Row -> Progress] /\ working \in [Row -> Progress]
    /\ lock \in [Row -> Worker \cup {NoWorker}]
    /\ log \in [Fact -> Nat] /\ \A f \in Fact : log[f] <= Many[f[1]]
    /\ inserted \in [Worker -> SUBSET Fact]
    /\ pc \in [Worker -> {"idle"} \cup ReadSteps \cup TxSteps]
    /\ req \in [Worker -> Request]

Init ==
    /\ course = {} /\ overlapped = {}
    /\ db = [r \in Row |-> Absent] /\ working = db
    /\ lock = [r \in Row |-> NoWorker]
    /\ log = [f \in Fact |-> 0]
    /\ inserted = [w \in Worker |-> {}]
    /\ pc = [w \in Worker |-> "idle"]
    /\ req = [w \in Worker |-> NoRequest]

-----------------------------------------------------------------------------
(* Steps of a request. *)

At(w, step) == pc[w] = step
Goto(w, step) == pc' = [pc EXCEPT ![w] = step]
\* Locals but the module are not used any more.
Forget(w) == req' = [req EXCEPT ![w] = [NoRequest EXCEPT !.module = req[w].module]]
Insert(w, facts) == inserted' = [inserted EXCEPT ![w] = @ \cup facts]
\* At least one row of kind f, as w sees it.
Exists(w, f) == log[f] > 0 \/ f \in inserted[w]

Done(w) ==
    /\ Goto(w, "idle")
    /\ req' = [req EXCEPT ![w] = NoRequest]
    /\ inserted' = [inserted EXCEPT ![w] = {}]

Commit(w) ==
    /\ At(w, "commit")
    /\ RC!CommitRows(w)
    /\ log' = [f \in Fact |-> IF f \in inserted[w] /\ log[f] < Many[f[1]]
                              THEN log[f] + 1 ELSE log[f]]
    /\ Done(w)
    /\ UNCHANGED <<course, overlapped>>

\* The request throws: its transaction, if any, is rolled back.
Fail(w) ==
    /\ RC!RollbackRows(w)
    /\ Done(w)
    /\ UNCHANGED <<course, overlapped, log>>

\* Invalid input, a caller who is not the learner, a module that is not there;
\* or a transaction lost at any statement.
Refuse(w) == pc[w] \in ReadSteps /\ Fail(w)
Lose(w) == pc[w] \in TxSteps /\ Fail(w)

-----------------------------------------------------------------------------
(* Requests, and an author who adds modules to the course. *)

\* AddModule does not look at the course's status or at enrolments.
AddModule(m) ==
    /\ m \notin course
    /\ Prerequisite[m] \subseteq course
    /\ course' = course \cup {m}
    /\ UNCHANGED <<overlapped, tables, log, inserted, locals>>

Receive(w, op, m, level) ==
    /\ At(w, "idle")
    /\ req' = [req EXCEPT ![w] = [op |-> op, module |-> m, level |-> level,
                                 seen |-> Absent, rows |-> {}]]
    /\ Goto(w, CASE op = "enroll" -> "readCourse"
                 [] op = "heartbeat" -> "readProgress"
                 [] OTHER -> "countAttempts")
    /\ UNCHANGED <<course, overlapped, tables, log, inserted>>

\* A learner enrols once (bound: no second enrolment after a completed one).
RequestEnrollment(w) ==
    /\ db[Enrollment] = Absent
    /\ Receive(w, "enroll", NoModule, 0)

Heartbeat(w, m) ==
    /\ db[Enrollment] # Absent /\ m \in course
    /\ \E level \in Reported : Receive(w, "heartbeat", m, level)

SubmitQuiz(w, m) ==
    /\ db[Enrollment] # Absent /\ m \in course \cap Quiz
    /\ \E op \in {"passQuiz", "failQuiz"} : Receive(w, op, m, 0)

-----------------------------------------------------------------------------
(* EnrollInCourse *)

ReadCourse(w) ==
    /\ At(w, "readCourse")
    /\ course # {} /\ db[Enrollment] = Absent
    /\ req' = [req EXCEPT ![w].rows = course]
    /\ Goto(w, "insertEnrollment")
    /\ UNCHANGED <<course, overlapped, tables, log, inserted>>

InsertEnrollment(w) ==
    /\ At(w, "insertEnrollment")
    /\ RC!Available(w, Enrollment)
    /\ db[Enrollment] = Absent
    /\ RC!Write(w, req[w].rows \cup {Enrollment},
                [r \in Row |-> [status |-> IF r = Enrollment THEN "active" ELSE "not_started",
                                level |-> 0]])
    /\ Goto(w, "commit")
    /\ Forget(w)
    /\ UNCHANGED <<course, overlapped, log, inserted>>

\* uq_enrollment_active_person_course: the INSERT waits for one under way.
InsertDuplicate(w) ==
    /\ At(w, "insertEnrollment")
    /\ RC!Available(w, Enrollment)
    /\ db[Enrollment] # Absent
    /\ Fail(w)

-----------------------------------------------------------------------------
(* RecordProgress *)

\* Faulty variant: prerequisites are looked at only for a module in progress.
ReadProgressUnchecked(w) ==
    LET seen == db[req[w].module]
    IN  /\ At(w, "readProgress")
        /\ seen.status # "absent"
        /\ IF seen.status = "completed" THEN Forget(w)
           ELSE req' = [req EXCEPT ![w].seen = seen]
        /\ Goto(w, IF seen.status = "completed" THEN "evaluate"
                   ELSE IF req[w].level > seen.level /\ seen.status = "in_progress"
                        THEN "checkPrerequisites" ELSE "beat")
        /\ UNCHANGED <<course, overlapped, tables, log, inserted>>

\* A module added after the enrolment has no row: findUniqueOrThrow throws.
ReadProgress(w) ==
    LET seen == db[req[w].module]
    IN  /\ At(w, "readProgress")
        /\ seen.status # "absent"
        /\ IF seen.status = "completed" THEN Forget(w)
           ELSE req' = [req EXCEPT ![w].seen = seen]
        /\ Goto(w, IF seen.status = "completed" THEN "evaluate"
                   ELSE IF req[w].level > seen.level /\ seen.status = "not_started"
                        THEN "checkPrerequisites" ELSE "beat")
        /\ UNCHANGED <<course, overlapped, tables, log, inserted>>

CheckPrerequisites(w) ==
    /\ At(w, "checkPrerequisites")
    /\ \A p \in Prerequisite[req[w].module] : db[p].status = "completed"
    /\ Goto(w, "beat")
    /\ UNCHANGED <<course, overlapped, tables, log, inserted, req>>

\* Faulty variant: what was watched is added up.
BeatAdds(w) ==
    LET m == req[w].module
        level == req[w].level + req[w].seen.level
    IN  /\ At(w, "beat")
        /\ RC!Available(w, m)
        /\ RC!Write(w, {m}, [r \in Row |->
               [status |-> IF level > 0 THEN "in_progress" ELSE "not_started",
                level |-> level]])
        /\ Goto(w, "evaluate")
        /\ Forget(w)
        /\ UNCHANGED <<course, overlapped, log, inserted>>

\* The level is the larger one of the input and of the row read before the
\* transaction; the UPDATE is by id, whatever the row says by now.
Beat(w) ==
    LET m == req[w].module
        seen == req[w].seen
        level == IF req[w].level > seen.level THEN req[w].level ELSE seen.level
    IN  /\ At(w, "beat")
        /\ RC!Available(w, m)
        /\ RC!Write(w, {m}, [r \in Row |->
               [status |-> IF level > 0 THEN "in_progress" ELSE "not_started",
                level |-> level]])
        /\ Goto(w, "evaluate")
        /\ Forget(w)
        /\ UNCHANGED <<course, overlapped, log, inserted>>

-----------------------------------------------------------------------------
(* SubmitQuizAttempt *)

\* Faulty variant: one attempt too many.
HasAttemptLeftOffByOne(m) == log[<<"QuizAttempt", m>>] <= MaxAttempts

HasAttemptLeft(m) == log[<<"QuizAttempt", m>>] < MaxAttempts

\* v counted the attempts at quiz m, and its own is not committed.
Submitting(v, m) ==
    \/ At(v, "insertAttempt") /\ req[v].module = m
    \/ <<"QuizAttempt", m>> \in inserted[v]

\* existingAttempts, read before the transaction that inserts the attempt.
CountAttempts(w) ==
    LET m == req[w].module
    IN  /\ At(w, "countAttempts")
        /\ HasAttemptLeft(m)
        /\ Goto(w, "insertAttempt")
        /\ overlapped' = IF \E v \in Worker : Submitting(v, m)
                         THEN overlapped \cup {m} ELSE overlapped
        /\ UNCHANGED <<course, tables, log, inserted, req>>

InsertAttempt(w) ==
    LET m == req[w].module
    IN  /\ At(w, "insertAttempt")
        /\ \/ /\ req[w].op = "passQuiz"
              /\ Insert(w, {<<"QuizAttempt", m>>, <<"QuizPass", m>>})
              /\ Goto(w, "evaluate")
           \/ /\ req[w].op = "failQuiz"
              /\ Insert(w, {<<"QuizAttempt", m>>})
              /\ Goto(w, "commit")
        /\ Forget(w)
        /\ UNCHANGED <<course, overlapped, tables, log>>

-----------------------------------------------------------------------------
(* evaluateModuleAndCourseCompletion, inside the caller's transaction *)

\* Faulty variant: nothing more is done for a module that is completed.
EvaluateOpenModule(w) ==
    LET progress == RC!Sees(w, req[w].module)
    IN  /\ At(w, "evaluate")
        /\ progress.status # "absent"
        /\ Goto(w, IF progress.status # "completed" /\ progress.level = 2
                   THEN "checkQuiz" ELSE "commit")
        /\ UNCHANGED <<course, overlapped, tables, log, inserted, req>>

Evaluate(w) ==
    LET progress == RC!Sees(w, req[w].module)
    IN  /\ At(w, "evaluate")
        /\ progress.status # "absent"
        /\ Goto(w, IF progress.status = "completed" THEN "readEnrollment"
                   ELSE IF progress.level = 2 THEN "checkQuiz" ELSE "commit")
        /\ UNCHANGED <<course, overlapped, tables, log, inserted, req>>

\* findUniqueOrThrow: the attempt at a module without a row is rolled back.
EvaluateWithoutRow(w) ==
    /\ At(w, "evaluate")
    /\ RC!Sees(w, req[w].module).status = "absent"
    /\ Fail(w)

\* Faulty variant: any attempt counts, passed or not.
CheckAnyAttempt(w) ==
    LET m == req[w].module
        quizPassed == m \in Quiz => Exists(w, <<"QuizAttempt", m>>)
    IN  /\ At(w, "checkQuiz")
        /\ Goto(w, IF quizPassed THEN "completeModule" ELSE "commit")
        /\ UNCHANGED <<course, overlapped, tables, log, inserted, req>>

CheckQuiz(w) ==
    LET m == req[w].module
        quizPassed == m \in Quiz => Exists(w, <<"QuizPass", m>>)
    IN  /\ At(w, "checkQuiz")
        /\ Goto(w, IF quizPassed THEN "completeModule" ELSE "commit")
        /\ UNCHANGED <<course, overlapped, tables, log, inserted, req>>

CompleteModule(w) ==
    LET m == req[w].module
    IN  /\ At(w, "completeModule")
        /\ RC!Available(w, m)
        /\ RC!Write(w, {m}, [r \in Row |-> [RC!Sees(w, r) EXCEPT !.status = "completed"]])
        /\ Insert(w, {ModuleCompleted(m)})
        /\ Goto(w, "readEnrollment")
        /\ UNCHANGED <<course, overlapped, log, req>>

ReadEnrollment(w) ==
    /\ At(w, "readEnrollment")
    /\ Goto(w, IF RC!Sees(w, Enrollment).status = "completed" THEN "commit" ELSE "countModules")
    /\ UNCHANGED <<course, overlapped, tables, log, inserted, req>>

\* Faulty variant: all required modules but one will do.
CourseReadyOffByOne(w) ==
    LET required == course \cap Required
        completed == {m \in required : RC!Sees(w, m).status = "completed"}
    IN  required # {} /\ Cardinality(completed) + 1 >= Cardinality(required)

\* isCourseReadyToComplete
CourseReady(w) ==
    LET required == course \cap Required
        completed == {m \in required : RC!Sees(w, m).status = "completed"}
    IN  required # {} /\ Cardinality(completed) >= Cardinality(required)

CountModules(w) ==
    /\ At(w, "countModules")
    /\ Goto(w, IF CourseReady(w) THEN "completeCourse" ELSE "commit")
    /\ UNCHANGED <<course, overlapped, tables, log, inserted, req>>

\* Faulty variant: the certificate is unique by its number only.
NoCertificateYetUnchecked(w) == TRUE

\* certificate_person_id_course_id_enrollment_id_key lets the row in.
NoCertificateYet(w) == ~Exists(w, Certificate)

\* The enrolment is updated by id, then the events and the certificate follow.
CompleteCourse(w) ==
    /\ At(w, "completeCourse")
    /\ RC!Available(w, Enrollment)
    /\ CertificateEnabled => NoCertificateYet(w)
    /\ RC!Write(w, {Enrollment}, [r \in Row |-> [RC!Sees(w, r) EXCEPT !.status = "completed"]])
    /\ Insert(w, {CourseCompleted} \cup IF CertificateEnabled THEN {Certificate} ELSE {})
    /\ Goto(w, "commit")
    /\ UNCHANGED <<course, overlapped, log, req>>

\* P2002 on the certificate: the whole transaction is rolled back, with the
\* progress or the attempt that it began with.
CertificateExists(w) ==
    /\ At(w, "completeCourse")
    /\ RC!Available(w, Enrollment)
    /\ CertificateEnabled /\ ~NoCertificateYet(w)
    /\ Fail(w)

Statement(w) ==
    \/ ReadCourse(w) \/ InsertEnrollment(w) \/ InsertDuplicate(w)
    \/ ReadProgress(w) \/ CheckPrerequisites(w) \/ Beat(w)
    \/ CountAttempts(w) \/ InsertAttempt(w)
    \/ Evaluate(w) \/ EvaluateWithoutRow(w) \/ CheckQuiz(w) \/ CompleteModule(w)
    \/ ReadEnrollment(w) \/ CountModules(w) \/ CompleteCourse(w) \/ CertificateExists(w)
    \/ Commit(w)

Next ==
    \/ \E m \in Module : AddModule(m)
    \/ \E w \in Worker :
          \/ RequestEnrollment(w)
          \/ \E m \in Module : Heartbeat(w, m) \/ SubmitQuiz(w, m)
          \/ Statement(w) \/ Refuse(w) \/ Lose(w)

\* A transaction lost, or a request refused that the tables allow.  What a
\* statement does as well (the COMMIT of nothing) is that statement.
Disturbed(w) ==
    \/ Lose(w) /\ ~Statement(w)
    \/ Refuse(w) /\ ENABLED Statement(w)

\* A request that has begun goes on to its end, and the player of each module
\* sends a heartbeat again and again while the learner has it open.  Assumed
\* of the environment: from some time on no request is disturbed.
Fairness ==
    /\ \A w \in Worker : WF_vars(Statement(w)) /\ WF_vars(Refuse(w))
    /\ \A m \in Module : SF_vars(\E w \in Worker : Heartbeat(w, m))
    /\ <>[][\A w \in Worker : ~Disturbed(w)]_vars

Spec == Init /\ [][Next]_vars
FairSpec == Spec /\ Fairness

-----------------------------------------------------------------------------
(* Properties. *)

\* A learner gets at most one certificate for an enrolment, exactly when it is
\* completed, and CourseCompleted is published once with it, though any request
\* may find the course complete while another one is completing it.
CertificateMatchesEnrollment ==
    CertificateEnabled =>
        /\ log[Certificate] = log[CourseCompleted]
        /\ log[CourseCompleted] = IF db[Enrollment].status = "completed" THEN 1 ELSE 0

\* A completed course had every required module that the learner was enrolled
\* in completed, and ModuleCompleted published for it, before or with it.
CourseCompletedAfterModules ==
    db[Enrollment].status = "completed" =>
        \A m \in Required : db[m] # Absent => log[ModuleCompleted(m)] > 0

\* Nobody starts a module before all its prerequisites have been completed.
PrerequisitesFirst ==
    \A m \in Module : db[m].status \in {"in_progress", "completed"} =>
        \A p \in Prerequisite[m] : log[ModuleCompleted(p)] > 0

\* A module with a quiz is completed only by somebody who passed the quiz.
QuizBeforeCompletion ==
    \A m \in Quiz : log[ModuleCompleted(m)] > 0 => log[<<"QuizPass", m>>] > 0

\* At most MaxAttempts attempts at a quiz, as submitQuizAttempt.ts promises, as
\* long as no two submissions of it were between their count and their COMMIT
\* at once.  Once they were, the promise is broken (README), and what remains
\* is that the requests under way at a time bound the excess.
AttemptsBounded ==
    \A m \in Quiz :
        /\ m \notin overlapped => log[<<"QuizAttempt", m>>] <= MaxAttempts
        /\ log[<<"QuizAttempt", m>>] < MaxAttempts + Cardinality(Worker)

\* recordProgress.ts: "both fields are only ever moved forward".
WatchedOnlyForward == [][\A m \in Module : db'[m].level >= db[m].level]_vars

\* Every required module is watched, and its quiz passed.
Earned ==
    /\ course \cap Required # {}
    /\ \A m \in course \cap Required :
          db[m].level = 2 /\ (m \in Quiz => log[<<"QuizPass", m>>] > 0)

\* A learner who has done everything gets the course completed in the end, also
\* when the last two modules were finished at once and neither transaction saw
\* the other: a later heartbeat evaluates the course again.
EarnedCourseCompletes == <>[]Earned => <>(db[Enrollment].status = "completed")
=============================================================================
