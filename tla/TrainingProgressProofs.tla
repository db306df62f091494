----------------------- MODULE TrainingProgressProofs -----------------------
(***************************************************************************)
(* Theorems about TrainingProgress, for any finite number of workers and   *)
(* modules, any prerequisites, quizzes and limit of attempts.              *)
(*                                                                         *)
(* The argument: what a request knows when it writes (Knows) was true when *)
(* it read it and cannot become false again, because the published facts   *)
(* and the committed rows only grow (Forward); and a row that an open      *)
(* transaction has written already agrees with the facts that will be      *)
(* committed together with it (the conjuncts about `working`).             *)
(***************************************************************************)
EXTENDS TrainingProgress, FiniteSetTheorems, TLAPS

Present(r) == db[r].status # "absent"
Begun(row) == row.status \in {"in_progress", "completed"}
Published(f) == log[f] > 0
PrerequisitesDone(m) == \A p \in Prerequisite[m] : Published(ModuleCompleted(p))

\* A transaction that may have written or inserted something.
HasWritten == {"evaluate", "checkQuiz", "completeModule", "readEnrollment", "countModules",
               "completeCourse", "commit"}
\* The steps of a request about a module, but the COMMIT.
AboutModule == (ReadSteps \ {"readCourse"}) \cup {"beat", "insertAttempt"} \cup (HasWritten \ {"commit"})

\* All modules that count for the learner are completed, as w sees them.
ModulesDone(w) == \A m \in Required : Present(m) => Exists(w, ModuleCompleted(m))

\* What a request has found out by the step it is at.
Knows(w) == LET m == req[w].module IN
    /\ pc[w] \in AboutModule => m \in Module /\ Present(Enrollment)
    /\ pc[w] = "insertEnrollment" => req[w].rows \subseteq course
    /\ pc[w] \in {"checkPrerequisites", "beat", "checkQuiz", "completeModule"} => Present(m)
    /\ pc[w] = "beat" /\ (req[w].level > 0 \/ req[w].seen.level > 0) => PrerequisitesDone(m)
    /\ pc[w] \in {"checkQuiz", "completeModule"} => PrerequisitesDone(m)
    /\ pc[w] = "completeModule" /\ m \in Quiz => Exists(w, <<"QuizPass", m>>)
    /\ pc[w] = "completeCourse" => ModulesDone(w)

\* Only transactions hold locks and uncommitted rows, and they are at a step
\* after their first write.
Versions ==
    /\ \A r \in Row : lock[r] = NoWorker => working[r] = db[r]
    /\ \A r \in Row, w \in Worker : lock[r] = w => pc[w] \in HasWritten
    /\ \A w \in Worker : inserted[w] # {} => pc[w] \in HasWritten

\* Both versions of a row are of its kind, and nothing was watched of a module
\* whose prerequisites are not completed.
ModuleRowFits(m, row) ==
    /\ row.status # "active"
    /\ row.level > 0 => Begun(row)
    /\ Begun(row) => PrerequisitesDone(m)
EnrollmentFits(row) == row.level = 0 /\ row.status \in {"absent", "active", "completed"}
RowsFit ==
    /\ \A m \in Module : ModuleRowFits(m, db[m]) /\ ModuleRowFits(m, working[m])
    /\ EnrollmentFits(db[Enrollment]) /\ EnrollmentFits(working[Enrollment])

\* Rows are inserted with the enrolment, for modules of the course, and stay.
RowsOfCourse ==
    /\ \A r \in Row : Present(r) \/ lock[r] # NoWorker => working[r].status # "absent"
    /\ \A m \in Module : Present(m) => m \in course /\ Present(Enrollment)
    /\ \A m \in Module : working[m].status # "absent" /\ ~Present(m) =>
          /\ m \in course /\ ~Present(Enrollment)
          /\ lock[m] = lock[Enrollment] /\ working[Enrollment].status # "absent"

\* A completed module is published, at the latest with its row, and a module
\* with a quiz only after, or with, a passed attempt.
CompletionsPublished ==
    /\ \A m \in Module : db[m].status = "completed" => Published(ModuleCompleted(m))
    /\ \A m \in Module, w \in Worker :
          lock[m] = w /\ working[m].status = "completed" => Exists(w, ModuleCompleted(m))
QuizzesPassed ==
    /\ \A m \in Quiz : Published(ModuleCompleted(m)) => Published(<<"QuizPass", m>>)
    /\ \A m \in Quiz, w \in Worker :
          ModuleCompleted(m) \in inserted[w] => Exists(w, <<"QuizPass", m>>)

\* A course is completed, in either version of the enrolment, when its modules
\* are, and the certificate goes with it.
CourseEarned ==
    /\ db[Enrollment].status = "completed" =>
          \A m \in Required : Present(m) => Published(ModuleCompleted(m))
    /\ working[Enrollment].status = "completed" => Present(Enrollment)
    /\ \A w \in Worker :
          lock[Enrollment] = w /\ working[Enrollment].status = "completed" => ModulesDone(w)
Certified ==
    CertificateEnabled =>
        /\ log[Certificate] = log[CourseCompleted]
        /\ log[CourseCompleted] = IF db[Enrollment].status = "completed" THEN 1 ELSE 0
        /\ \A w \in Worker :
              /\ CourseCompleted \in inserted[w] <=> Certificate \in inserted[w]
              /\ Certificate \in inserted[w] =>
                    /\ lock[Enrollment] = w /\ working[Enrollment].status = "completed"
                    /\ log[Certificate] = 0
              /\ lock[Enrollment] = w /\ Certificate \notin inserted[w] =>
                    working[Enrollment].status = "active" /\ ~Present(Enrollment)

\* Requests that may still add an attempt at the quiz of m.
Attempting(m) == {w \in Worker : Submitting(w, m)}
AttemptsCounted ==
    \A m \in Module :
        log[<<"QuizAttempt", m>>] + Cardinality(Attempting(m)) < MaxAttempts + Cardinality(Worker)

\* While no two submissions overlapped, at most one may add an attempt, and
\* the limit leaves room for it.
AttemptsLeft(m) ==
    /\ log[<<"QuizAttempt", m>>] <= MaxAttempts
    /\ \A v \in Attempting(m) : HasAttemptLeft(m) /\ \A w \in Attempting(m) : v = w
AttemptsAlone == \A m \in Module : m \notin overlapped => AttemptsLeft(m)

RowsAgree ==
    /\ Versions
    /\ RowsFit
    /\ RowsOfCourse
    /\ CompletionsPublished
    /\ QuizzesPassed
    /\ CourseEarned
    /\ Certified

IInv == TypeOK /\ (\A w \in Worker : Knows(w)) /\ RowsAgree /\ AttemptsCounted /\ AttemptsAlone

USE DEF Level, ReadSteps, TxSteps, HasWritten, AboutModule, Row

-----------------------------------------------------------------------------
(* The shape of a step of worker w. *)

OthersKeep(w) ==
    \A v \in Worker : v # w => pc'[v] = pc[v] /\ req'[v] = req[v] /\ inserted'[v] = inserted[v]

LEMMA Moved ==
  ASSUME TypeOK, NEW w \in Worker, NEW step \in {"idle"} \cup ReadSteps \cup TxSteps,
         Goto(w, step)
  PROVE  /\ pc' \in [Worker -> {"idle"} \cup ReadSteps \cup TxSteps]
         /\ pc'[w] = step
         /\ \A v \in Worker : v # w => pc'[v] = pc[v]
  BY DEF TypeOK, Goto

LEMMA LocalsSet ==
  ASSUME TypeOK, NEW w \in Worker, NEW r \in Request, req' = [req EXCEPT ![w] = r]
  PROVE  /\ req' \in [Worker -> Request]
         /\ req'[w] = r
         /\ \A v \in Worker : v # w => req'[v] = req[v]
  BY DEF TypeOK

LEMMA Inserts ==
  ASSUME TypeOK, NEW w \in Worker, NEW facts \in SUBSET Fact, Insert(w, facts)
  PROVE  /\ inserted' \in [Worker -> SUBSET Fact]
         /\ inserted'[w] = inserted[w] \cup facts
         /\ \A v \in Worker : v # w => inserted'[v] = inserted[v]
  BY DEF TypeOK, Insert

LEMMA NoRequestTyped == NoRequest \in Request /\ Absent \in Progress
  BY DEF NoRequest, Request, Absent, Progress

LEMMA Forgets ==
  ASSUME TypeOK, NEW w \in Worker, Forget(w)
  PROVE  /\ req' \in [Worker -> Request]
         /\ req'[w].module = req[w].module
         /\ \A v \in Worker : v # w => req'[v] = req[v]
  <1> DEFINE r == [NoRequest EXCEPT !.module = req[w].module]
  <1>1. req[w] \in Request
    BY DEF TypeOK
  <1>2. r \in Request /\ r.module = req[w].module
    BY <1>1 DEF Request, NoRequest, Absent, Progress
  <1>3. req' = [req EXCEPT ![w] = r]
    BY DEF Forget
  <1> HIDE DEF r
  <1> QED
    BY <1>2, <1>3, LocalsSet

LEMMA FactsTyped ==
  ASSUME NEW m \in Module
  PROVE  /\ ModuleCompleted(m) \in Fact /\ <<"QuizAttempt", m>> \in Fact
         /\ <<"QuizPass", m>> \in Fact
         /\ CourseCompleted \in Fact /\ Certificate \in Fact
  BY DEF Fact, ModuleCompleted, CourseCompleted, Certificate

\* A step that writes no row and publishes nothing, of a request that may
\* insert attempts.
LocalStep(w) ==
    /\ UNCHANGED <<tables, log>> /\ course \subseteq course'
    /\ OthersKeep(w)
    /\ inserted[w] \subseteq inserted'[w]
    /\ \A f \in inserted'[w] \ inserted[w] : f[1] \in {"QuizAttempt", "QuizPass"}
    /\ pc[w] \in HasWritten \/ inserted'[w] # inserted[w] => pc'[w] \in HasWritten

\* Such a step leads to typed variables when what it assigns is typed.
LEMMA LocalTyped ==
  ASSUME TypeOK, UNCHANGED <<course, overlapped, tables, log>>,
         pc' \in [Worker -> {"idle"} \cup ReadSteps \cup TxSteps],
         req' \in [Worker -> Request], inserted' \in [Worker -> SUBSET Fact]
  PROVE  TypeOK'
  BY DEF TypeOK, tables

\* A step that changes the position of w only.
LEMMA OnlyMoved ==
  ASSUME TypeOK, NEW w \in Worker, NEW step \in {"idle"} \cup ReadSteps \cup TxSteps,
         Goto(w, step), pc[w] \in HasWritten => step \in HasWritten,
         UNCHANGED <<course, overlapped, tables, log, inserted, req>>
  PROVE  TypeOK' /\ LocalStep(w) /\ pc'[w] = step
  <1>1. /\ pc' \in [Worker -> {"idle"} \cup ReadSteps \cup TxSteps]
        /\ pc'[w] = step
        /\ \A v \in Worker : v # w => pc'[v] = pc[v]
    BY Moved
  <1>2. TypeOK'
    BY <1>1, LocalTyped DEF TypeOK
  <1>3. LocalStep(w)
    BY <1>1 DEF LocalStep, OthersKeep
  <1> QED
    BY <1>1, <1>2, <1>3

LEMMA Known ==
  ASSUME IInv, NEW w \in Worker
  PROVE  Knows(w) /\ req[w] \in Request /\ TypeOK
  BY DEF IInv, TypeOK

-----------------------------------------------------------------------------
(* The steps before the transaction: what they read, the request knows. *)

LEMMA Receiving ==
  ASSUME IInv, NEW w \in Worker, NEW op \in Operation, NEW m \in Module \cup {NoModule},
         NEW level \in Level, Receive(w, op, m, level),
         op # "enroll" => m \in Module /\ Present(Enrollment)
  PROVE  TypeOK' /\ LocalStep(w) /\ Knows(w)'
  <1> DEFINE r == [op |-> op, module |-> m, level |-> level, seen |-> Absent, rows |-> {}]
             step == CASE op = "enroll" -> "readCourse"
                       [] op = "heartbeat" -> "readProgress"
                       [] OTHER -> "countAttempts"
  <1>1. r \in Request /\ r.module = m
    BY NoRequestTyped DEF Request
  <1>2. step \in {"readCourse", "readProgress", "countAttempts"} /\ (step # "readCourse" => op # "enroll")
    BY DEF Operation
  <1>3. pc[w] = "idle" /\ req' = [req EXCEPT ![w] = r] /\ Goto(w, step)
        /\ UNCHANGED <<course, overlapped, tables, log, inserted>>
    BY DEF Receive, At
  <1> HIDE DEF r, step
  <1>4. TypeOK
    BY DEF IInv
  <1>5. /\ pc' \in [Worker -> {"idle"} \cup ReadSteps \cup TxSteps]
        /\ pc'[w] = step
        /\ \A v \in Worker : v # w => pc'[v] = pc[v]
    BY <1>2, <1>3, <1>4, Moved
  <1>6. /\ req' \in [Worker -> Request]
        /\ req'[w] = r
        /\ \A v \in Worker : v # w => req'[v] = req[v]
    BY <1>1, <1>3, <1>4, LocalsSet
  <1>7. TypeOK'
    BY <1>3, <1>4, <1>5, <1>6, LocalTyped DEF TypeOK
  <1>8. LocalStep(w)
    BY <1>3, <1>5, <1>6 DEF LocalStep, OthersKeep
  <1>9. Knows(w)'
    BY <1>1, <1>2, <1>3, <1>5, <1>6 DEF Knows, Present, tables
  <1> QED
    BY <1>7, <1>8, <1>9

LEMMA EnrolledOrNot ==
  ASSUME IInv
  PROVE  db[Enrollment] # Absent => Present(Enrollment)
  <1>1. db[Enrollment] \in Progress /\ db[Enrollment].level = 0
    BY DEF IInv, TypeOK, RowsAgree, RowsFit, EnrollmentFits
  <1> QED
    BY <1>1 DEF Progress, Absent, Present

LEMMA Requested ==
  ASSUME IInv, NEW w \in Worker,
         RequestEnrollment(w) \/ \E m \in Module : Heartbeat(w, m) \/ SubmitQuiz(w, m)
  PROVE  TypeOK' /\ LocalStep(w) /\ Knows(w)'
  <1>1. CASE RequestEnrollment(w)
    BY <1>1, Receiving DEF RequestEnrollment, Operation
  <1>2. CASE \E m \in Module : Heartbeat(w, m)
    <2>1. PICK m \in Module, level \in Reported : Receive(w, "heartbeat", m, level) /\ db[Enrollment] # Absent
      BY <1>2 DEF Heartbeat
    <2>2. level \in Level
      BY CountAssumption
    <2> QED
      BY <2>1, <2>2, EnrolledOrNot, Receiving DEF Operation
  <1>3. CASE \E m \in Module : SubmitQuiz(w, m)
    <2>1. PICK m \in Module, op \in {"passQuiz", "failQuiz"} : Receive(w, op, m, 0) /\ db[Enrollment] # Absent
      BY <1>3 DEF SubmitQuiz
    <2> QED
      BY <2>1, EnrolledOrNot, Receiving DEF Operation
  <1> QED
    BY <1>1, <1>2, <1>3

LEMMA CourseRead ==
  ASSUME IInv, NEW w \in Worker, ReadCourse(w)
  PROVE  TypeOK' /\ LocalStep(w) /\ Knows(w)'
  <1> DEFINE r == [req[w] EXCEPT !.rows = course]
  <1>1. TypeOK /\ req[w] \in Request /\ course \in SUBSET Module
    BY Known DEF TypeOK
  <1>2. r \in Request /\ r.rows = course
    BY <1>1 DEF Request
  <1>3. pc[w] = "readCourse" /\ req' = [req EXCEPT ![w] = r] /\ Goto(w, "insertEnrollment")
        /\ UNCHANGED <<course, overlapped, tables, log, inserted>>
    BY DEF ReadCourse, At
  <1> HIDE DEF r
  <1>4. /\ pc' \in [Worker -> {"idle"} \cup ReadSteps \cup TxSteps]
        /\ pc'[w] = "insertEnrollment"
        /\ \A v \in Worker : v # w => pc'[v] = pc[v]
    BY <1>1, <1>3, Moved
  <1>5. /\ req' \in [Worker -> Request]
        /\ req'[w] = r
        /\ \A v \in Worker : v # w => req'[v] = req[v]
    BY <1>1, <1>2, <1>3, LocalsSet
  <1>6. TypeOK'
    BY <1>1, <1>3, <1>4, <1>5, LocalTyped DEF TypeOK
  <1>7. LocalStep(w)
    BY <1>3, <1>4, <1>5 DEF LocalStep, OthersKeep
  <1>8. Knows(w)'
    BY <1>2, <1>3, <1>4, <1>5 DEF Knows
  <1> QED
    BY <1>6, <1>7, <1>8

\* The row of a module that was read is not ahead of the prerequisites.
LEMMA ProgressRead ==
  ASSUME IInv, NEW w \in Worker, ReadProgress(w)
  PROVE  TypeOK' /\ LocalStep(w) /\ Knows(w)'
  <1> DEFINE m == req[w].module
             seen == db[m]
  <1>1. TypeOK /\ req[w] \in Request /\ pc[w] = "readProgress"
    BY Known DEF ReadProgress, At
  <1>2. m \in Module /\ Present(Enrollment)
    BY <1>1, Known DEF Knows
  <1>3. seen \in Progress /\ ModuleRowFits(m, seen) /\ seen.status # "absent"
    BY <1>1, <1>2 DEF IInv, TypeOK, RowsAgree, RowsFit, ReadProgress
  <1>4. UNCHANGED <<course, overlapped, tables, log, inserted>>
    BY DEF ReadProgress
  <1>5. CASE seen.status = "completed"
    <2>1. Forget(w) /\ Goto(w, "evaluate")
      BY <1>5 DEF ReadProgress
    <2>2. /\ pc' \in [Worker -> {"idle"} \cup ReadSteps \cup TxSteps]
          /\ pc'[w] = "evaluate"
          /\ \A v \in Worker : v # w => pc'[v] = pc[v]
      BY <1>1, <2>1, Moved
    <2>3. /\ req' \in [Worker -> Request] /\ req'[w].module = m
          /\ \A v \in Worker : v # w => req'[v] = req[v]
      BY <1>1, <2>1, Forgets
    <2>4. TypeOK'
      BY <1>1, <1>4, <2>2, <2>3, LocalTyped DEF TypeOK
    <2>5. LocalStep(w)
      BY <1>1, <1>4, <2>2, <2>3 DEF LocalStep, OthersKeep
    <2>6. Knows(w)'
      BY <1>2, <1>4, <2>2, <2>3 DEF Knows, Present, tables
    <2> QED
      BY <2>4, <2>5, <2>6
  <1>6. CASE seen.status # "completed"
    <2> DEFINE r == [req[w] EXCEPT !.seen = seen]
               step == IF req[w].level > seen.level /\ seen.status = "not_started"
                       THEN "checkPrerequisites" ELSE "beat"
    <2>1. req' = [req EXCEPT ![w] = r] /\ Goto(w, step)
      BY <1>6 DEF ReadProgress
    <2>2. r \in Request /\ r.module = m /\ r.level = req[w].level /\ r.seen = seen
      BY <1>1, <1>3 DEF Request
    <2>3. step = "beat" /\ (r.level > 0 \/ r.seen.level > 0) => PrerequisitesDone(m)
      <3>1. seen.status \in {"not_started", "in_progress", "completed"} /\ seen.level \in Level
            /\ req[w].level \in Level
        BY <1>1, <1>3 DEF Progress, Request, ModuleRowFits
      <3> QED
        BY <1>3, <1>6, <2>2, <3>1 DEF ModuleRowFits, Begun
    <2>4. step \in {"checkPrerequisites", "beat"}
      OBVIOUS
    <2> HIDE DEF r, step
    <2>5. /\ pc' \in [Worker -> {"idle"} \cup ReadSteps \cup TxSteps]
          /\ pc'[w] = step
          /\ \A v \in Worker : v # w => pc'[v] = pc[v]
      BY <1>1, <2>1, <2>4, Moved
    <2>6. /\ req' \in [Worker -> Request] /\ req'[w] = r
          /\ \A v \in Worker : v # w => req'[v] = req[v]
      BY <1>1, <2>1, <2>2, LocalsSet
    <2>7. TypeOK'
      BY <1>1, <1>4, <2>5, <2>6, LocalTyped DEF TypeOK
    <2>8. LocalStep(w)
      BY <1>1, <1>4, <2>5, <2>6 DEF LocalStep, OthersKeep
    <2>9. Knows(w)'
      BY <1>2, <1>3, <1>4, <2>2, <2>3, <2>4, <2>5, <2>6
         DEF Knows, Present, PrerequisitesDone, Published, tables
    <2> QED
      BY <2>7, <2>8, <2>9
  <1> QED
    BY <1>5, <1>6

LEMMA PrerequisitesChecked ==
  ASSUME IInv, NEW w \in Worker, CheckPrerequisites(w)
  PROVE  TypeOK' /\ LocalStep(w) /\ Knows(w)'
  <1> DEFINE m == req[w].module
  <1>1. /\ pc[w] = "checkPrerequisites" /\ Goto(w, "beat")
        /\ UNCHANGED <<course, overlapped, tables, log, inserted, req>>
        /\ \A p \in Prerequisite[m] : db[p].status = "completed"
    BY DEF CheckPrerequisites, At
  <1>2. m \in Module /\ Present(Enrollment) /\ Present(m)
    BY <1>1, Known DEF Knows
  <1>3. PrerequisitesDone(m)
    BY <1>1, <1>2, ModuleAssumption DEF PrerequisitesDone, IInv, RowsAgree, CompletionsPublished
  <1>4. TypeOK' /\ LocalStep(w) /\ pc'[w] = "beat"
    BY <1>1, Known, OnlyMoved
  <1>5. Knows(w)'
    BY <1>1, <1>2, <1>3, <1>4 DEF Knows, Present, PrerequisitesDone, Published, tables
  <1> QED
    BY <1>4, <1>5

-----------------------------------------------------------------------------
(* The statements of the transaction that read. *)

LEMMA AttemptsRead ==
  ASSUME IInv, NEW w \in Worker, CountAttempts(w)
  PROVE  TypeOK' /\ LocalStep(w) /\ Knows(w)'
  <1> DEFINE m == req[w].module
  <1>1. TypeOK /\ req[w] \in Request /\ pc[w] = "countAttempts" /\ m \in Module /\ Present(Enrollment)
    BY Known DEF CountAttempts, At, Knows
  <1>2. /\ Goto(w, "insertAttempt") /\ UNCHANGED <<course, tables, log, inserted, req>>
        /\ overlapped' \in {overlapped, overlapped \cup {m}}
    BY DEF CountAttempts
  <1>3. /\ pc' \in [Worker -> {"idle"} \cup ReadSteps \cup TxSteps]
        /\ pc'[w] = "insertAttempt"
        /\ \A v \in Worker : v # w => pc'[v] = pc[v]
    BY <1>1, <1>2, Moved
  <1>4. TypeOK'
    BY <1>1, <1>2, <1>3 DEF TypeOK, tables
  <1>5. LocalStep(w)
    BY <1>1, <1>2, <1>3 DEF LocalStep, OthersKeep
  <1>6. Knows(w)'
    BY <1>1, <1>2, <1>3 DEF Knows, Present, tables
  <1> QED
    BY <1>4, <1>5, <1>6

LEMMA AttemptInserted ==
  ASSUME IInv, NEW w \in Worker, InsertAttempt(w)
  PROVE  TypeOK' /\ LocalStep(w) /\ Knows(w)'
  <1> DEFINE m == req[w].module
  <1>1. TypeOK /\ req[w] \in Request /\ pc[w] = "insertAttempt" /\ m \in Module /\ Present(Enrollment)
    BY Known DEF InsertAttempt, At, Knows
  <1>2. PICK facts \in {{<<"QuizAttempt", m>>, <<"QuizPass", m>>}, {<<"QuizAttempt", m>>}},
             step \in {"evaluate", "commit"} :
          Insert(w, facts) /\ Goto(w, step)
    BY DEF InsertAttempt
  <1>3. Forget(w) /\ UNCHANGED <<course, overlapped, tables, log>>
    BY DEF InsertAttempt
  <1>4. facts \in SUBSET Fact /\ \A f \in facts : f[1] \in {"QuizAttempt", "QuizPass"}
    <2>1. <<"QuizAttempt", m>> \in Fact /\ <<"QuizPass", m>> \in Fact
      BY <1>1, FactsTyped
    <2>2. facts \subseteq {<<"QuizAttempt", m>>, <<"QuizPass", m>>}
      OBVIOUS
    <2> QED
      BY <2>1, <2>2
  <1>5. /\ inserted' \in [Worker -> SUBSET Fact]
        /\ inserted'[w] = inserted[w] \cup facts
        /\ \A v \in Worker : v # w => inserted'[v] = inserted[v]
    BY <1>1, <1>2, <1>4, Inserts
  <1>6. /\ pc' \in [Worker -> {"idle"} \cup ReadSteps \cup TxSteps]
        /\ pc'[w] = step
        /\ \A v \in Worker : v # w => pc'[v] = pc[v]
    BY <1>1, <1>2, Moved
  <1>7. /\ req' \in [Worker -> Request] /\ req'[w].module = m
        /\ \A v \in Worker : v # w => req'[v] = req[v]
    BY <1>1, <1>3, Forgets
  <1>8. TypeOK'
    BY <1>1, <1>3, <1>5, <1>6, <1>7, LocalTyped
  <1>9. LocalStep(w)
    BY <1>1, <1>3, <1>4, <1>5, <1>6, <1>7 DEF LocalStep, OthersKeep
  <1>10. Knows(w)'
    BY <1>1, <1>2, <1>3, <1>6, <1>7 DEF Knows, Present, tables
  <1> QED
    BY <1>8, <1>9, <1>10

\* What w sees of a module's row, once the learner is enrolled.
LEMMA SeesModule ==
  ASSUME IInv, NEW w \in Worker, NEW m \in Module, Present(Enrollment)
  PROVE  /\ RC!Sees(w, m) \in Progress /\ ModuleRowFits(m, RC!Sees(w, m))
         /\ RC!Sees(w, m).status # "absent" => Present(m)
         /\ RC!Sees(w, m).status = "completed" => Exists(w, ModuleCompleted(m))
  <1>1. db[m] \in Progress /\ working[m] \in Progress
    BY DEF IInv, TypeOK
  <1>2. ModuleRowFits(m, db[m]) /\ ModuleRowFits(m, working[m])
    BY DEF IInv, RowsAgree, RowsFit
  <1>3. working[m].status # "absent" => Present(m)
    BY DEF IInv, RowsAgree, RowsOfCourse
  <1>4. /\ db[m].status = "completed" => Published(ModuleCompleted(m))
        /\ lock[m] = w /\ working[m].status = "completed" => Exists(w, ModuleCompleted(m))
    BY DEF IInv, RowsAgree, CompletionsPublished
  <1> QED
    BY <1>1, <1>2, <1>3, <1>4 DEF RC!Sees, Present, Exists, Published

LEMMA Evaluated ==
  ASSUME IInv, NEW w \in Worker, Evaluate(w)
  PROVE  TypeOK' /\ LocalStep(w) /\ Knows(w)'
  <1> DEFINE m == req[w].module
             progress == RC!Sees(w, m)
             step == IF progress.status = "completed" THEN "readEnrollment"
                     ELSE IF progress.level = 2 THEN "checkQuiz" ELSE "commit"
  <1>1. /\ pc[w] = "evaluate" /\ Goto(w, step) /\ progress.status # "absent"
        /\ UNCHANGED <<course, overlapped, tables, log, inserted, req>>
    BY DEF Evaluate, At
  <1>2. m \in Module /\ Present(Enrollment)
    BY <1>1, Known DEF Knows
  <1>3. step = "checkQuiz" => Present(m) /\ PrerequisitesDone(m)
    BY <1>1, <1>2, SeesModule DEF ModuleRowFits
  <1>4. step \in {"readEnrollment", "checkQuiz", "commit"}
    OBVIOUS
  <1> HIDE DEF step
  <1>5. TypeOK' /\ LocalStep(w) /\ pc'[w] = step
    BY <1>1, <1>4, Known, OnlyMoved
  <1>6. Knows(w)'
    BY <1>1, <1>2, <1>3, <1>4, <1>5 DEF Knows, Present, PrerequisitesDone, Published, tables
  <1> QED
    BY <1>5, <1>6

LEMMA QuizChecked ==
  ASSUME IInv, NEW w \in Worker, CheckQuiz(w)
  PROVE  TypeOK' /\ LocalStep(w) /\ Knows(w)'
  <1> DEFINE m == req[w].module
  <1>1. /\ pc[w] = "checkQuiz"
        /\ UNCHANGED <<course, overlapped, tables, log, inserted, req>>
    BY DEF CheckQuiz, At
  <1>2. PICK step \in {"completeModule", "commit"} :
          Goto(w, step) /\ (step = "completeModule" /\ m \in Quiz => Exists(w, <<"QuizPass", m>>))
    BY DEF CheckQuiz
  <1>3. m \in Module /\ Present(Enrollment) /\ Present(m) /\ PrerequisitesDone(m)
    BY <1>1, Known DEF Knows
  <1>4. TypeOK' /\ LocalStep(w) /\ pc'[w] = step
    BY <1>1, <1>2, Known, OnlyMoved
  <1>5. Knows(w)'
    BY <1>1, <1>2, <1>3, <1>4 DEF Knows, Present, PrerequisitesDone, Published, Exists, tables
  <1> QED
    BY <1>4, <1>5

LEMMA EnrollmentRead ==
  ASSUME IInv, NEW w \in Worker, ReadEnrollment(w)
  PROVE  TypeOK' /\ LocalStep(w) /\ Knows(w)'
  <1>1. /\ pc[w] = "readEnrollment"
        /\ UNCHANGED <<course, overlapped, tables, log, inserted, req>>
    BY DEF ReadEnrollment, At
  <1>2. PICK step \in {"countModules", "commit"} : Goto(w, step)
    BY DEF ReadEnrollment
  <1>3. TypeOK' /\ LocalStep(w) /\ pc'[w] = step
    BY <1>1, <1>2, Known, OnlyMoved
  <1>4. Knows(w)'
    BY <1>1, <1>2, <1>3, Known DEF Knows, Present, tables
  <1> QED
    BY <1>3, <1>4

\* As many completed modules as required ones: all of them.
LEMMA ReadyCourse ==
  ASSUME IInv, NEW w \in Worker, Present(Enrollment), CourseReady(w)
  PROVE  ModulesDone(w)
  <1> DEFINE required == course \cap Required
             completed == {m \in required : RC!Sees(w, m).status = "completed"}
  <1>1. IsFiniteSet(required)
    BY ModuleAssumption, FS_Subset DEF IInv, TypeOK
  <1>2. completed \subseteq required /\ Cardinality(completed) >= Cardinality(required)
    BY DEF CourseReady
  <1> HIDE DEF completed
  <1>3. completed = required
    <2>1. /\ IsFiniteSet(completed) /\ Cardinality(completed) \in Nat /\ Cardinality(required) \in Nat
          /\ Cardinality(completed) = Cardinality(required) => completed = required
          /\ Cardinality(completed) <= Cardinality(required)
      BY <1>1, <1>2, FS_Subset, FS_CardinalityType
    <2> QED
      BY <1>2, <2>1
  <1>4. ASSUME NEW m \in Required, Present(m)
        PROVE  Exists(w, ModuleCompleted(m))
    <2>1. m \in Module /\ m \in course
      BY <1>4, ModuleAssumption DEF IInv, RowsAgree, RowsOfCourse
    <2>2. RC!Sees(w, m).status = "completed"
      BY <1>3, <2>1 DEF completed
    <2> QED
      BY <2>1, <2>2, SeesModule
  <1> QED
    BY <1>4 DEF ModulesDone

LEMMA ModulesCounted ==
  ASSUME IInv, NEW w \in Worker, CountModules(w)
  PROVE  TypeOK' /\ LocalStep(w) /\ Knows(w)'
  <1>1. /\ pc[w] = "countModules"
        /\ UNCHANGED <<course, overlapped, tables, log, inserted, req>>
    BY DEF CountModules, At
  <1>2. PICK step \in {"completeCourse", "commit"} :
          Goto(w, step) /\ (step = "completeCourse" => CourseReady(w))
    BY DEF CountModules
  <1>3. req[w].module \in Module /\ Present(Enrollment)
    BY <1>1, Known DEF Knows
  <1>4. step = "completeCourse" => ModulesDone(w)
    BY <1>2, <1>3, ReadyCourse
  <1>5. TypeOK' /\ LocalStep(w) /\ pc'[w] = step
    BY <1>1, <1>2, Known, OnlyMoved
  <1>6. Knows(w)'
    BY <1>1, <1>2, <1>3, <1>4, <1>5 DEF Knows, Present, ModulesDone, Exists, tables
  <1> QED
    BY <1>5, <1>6

-----------------------------------------------------------------------------
(* What never becomes false, and what a request knows because of it. *)

Forward ==
    /\ \A f \in Fact : Published(f) => log'[f] > 0
    /\ \A r \in Row : Present(r) => Present(r)'
    /\ Present(Enrollment) => \A m \in Module : Present(m)' => Present(m)
    /\ course \subseteq course'

LEMMA ForwardFacts ==
  ASSUME Forward, NEW m \in Module, NEW v \in Worker, inserted[v] \subseteq inserted'[v]
  PROVE  /\ Published(ModuleCompleted(m)) => Published(ModuleCompleted(m))'
         /\ Published(<<"QuizPass", m>>) => Published(<<"QuizPass", m>>)'
         /\ Exists(v, ModuleCompleted(m)) => Exists(v, ModuleCompleted(m))'
         /\ Exists(v, <<"QuizPass", m>>) => Exists(v, <<"QuizPass", m>>)'
  BY FactsTyped DEF Forward, Published, Exists, ModuleCompleted

LEMMA ForwardPrerequisites ==
  ASSUME Forward, NEW m \in Module, PrerequisitesDone(m)
  PROVE  PrerequisitesDone(m)'
  BY FactsTyped, ModuleAssumption DEF Forward, PrerequisitesDone, Published, ModuleCompleted

LEMMA ForwardModules ==
  ASSUME Forward, NEW v \in Worker, inserted[v] \subseteq inserted'[v], ModulesDone(v),
         Present(Enrollment)
  PROVE  ModulesDone(v)'
  BY ForwardFacts, ModuleAssumption DEF ModulesDone, Forward

LEMMA KnowsKept ==
  ASSUME Forward, NEW v \in Worker, Knows(v),
         pc'[v] = pc[v], req'[v] = req[v], inserted[v] \subseteq inserted'[v]
  PROVE  Knows(v)'
  <1> DEFINE m == req[v].module
  <1>1. /\ pc[v] \in AboutModule => m \in Module /\ Present(Enrollment)'
        /\ pc[v] = "insertEnrollment" => req[v].rows \subseteq course'
    BY DEF Knows, Forward
  <1>2. pc[v] \in {"checkPrerequisites", "beat", "checkQuiz", "completeModule"} => Present(m)'
    BY DEF Knows, Forward
  <1>3. /\ pc[v] = "beat" /\ (req[v].level > 0 \/ req[v].seen.level > 0) => PrerequisitesDone(m)'
        /\ pc[v] \in {"checkQuiz", "completeModule"} => PrerequisitesDone(m)'
    <2>1. pc[v] \in {"beat", "checkQuiz", "completeModule"} => m \in Module
      BY DEF Knows
    <2> HIDE DEF m
    <2> QED
      BY <2>1, ForwardPrerequisites DEF Knows, m
  <1>4. pc[v] = "completeModule" /\ m \in Quiz => Exists(v, <<"QuizPass", m>>)'
    <2>1. pc[v] = "completeModule" => m \in Module
      BY DEF Knows
    <2> QED
      BY <2>1, ForwardFacts DEF Knows
  <1>5. pc[v] = "completeCourse" => ModulesDone(v)'
    BY ForwardModules DEF Knows
  <1> QED
    BY <1>1, <1>2, <1>3, <1>4, <1>5 DEF Knows

-----------------------------------------------------------------------------
(* The rows after a step that neither writes nor publishes any. *)

QuietStep ==
    /\ UNCHANGED <<tables, log>> /\ course \subseteq course'
    /\ \A v \in Worker :
          /\ inserted[v] \subseteq inserted'[v]
          /\ \A f \in inserted'[v] \ inserted[v] : f[1] \in {"QuizAttempt", "QuizPass"}
          /\ pc[v] \in HasWritten \/ inserted'[v] # inserted[v] => pc'[v] \in HasWritten

LEMMA LocalIsQuiet ==
  ASSUME NEW w \in Worker, LocalStep(w)
  PROVE  QuietStep
  BY DEF LocalStep, OthersKeep, QuietStep

LEMMA QuietIsForward ==
  ASSUME QuietStep
  PROVE  Forward
  BY DEF QuietStep, Forward, Present, Published, tables

LEMMA QuietRows ==
  ASSUME TypeOK, RowsAgree, QuietStep
  PROVE  RowsAgree'
  <1>1. Forward /\ UNCHANGED <<db, working, lock, log>>
    BY QuietIsForward DEF QuietStep, tables
  <1>2. Versions'
    <2>1. \A w \in Worker : inserted'[w] # {} => pc'[w] \in HasWritten
      BY DEF QuietStep, RowsAgree, Versions
    <2>2. \A r \in Row, w \in Worker : lock'[r] = w => pc'[w] \in HasWritten
      BY <1>1 DEF QuietStep, RowsAgree, Versions
    <2>3. \A r \in Row : lock'[r] = NoWorker => working'[r] = db'[r]
      BY <1>1 DEF RowsAgree, Versions
    <2> QED
      BY <2>1, <2>2, <2>3 DEF Versions
  <1>3. RowsFit'
    BY <1>1 DEF RowsAgree, RowsFit, ModuleRowFits, EnrollmentFits, PrerequisitesDone, Published
  <1>4. RowsOfCourse'
    BY <1>1 DEF RowsAgree, RowsOfCourse, Present, Forward
  <1>5. CompletionsPublished'
    <2>1. \A m \in Module : db'[m].status = "completed" => Published(ModuleCompleted(m))'
      BY <1>1 DEF RowsAgree, CompletionsPublished, Published
    <2>2. \A m \in Module, w \in Worker :
            lock'[m] = w /\ working'[m].status = "completed" => Exists(w, ModuleCompleted(m))'
      BY <1>1, ForwardFacts DEF RowsAgree, CompletionsPublished, QuietStep
    <2> QED
      BY <2>1, <2>2 DEF CompletionsPublished
  <1>6. QuizzesPassed'
    <2>1. ASSUME NEW m \in Quiz, Published(ModuleCompleted(m))'
          PROVE  Published(<<"QuizPass", m>>)'
      BY <1>1, <2>1 DEF RowsAgree, QuizzesPassed, Published
    <2>2. ASSUME NEW m \in Quiz, NEW w \in Worker, ModuleCompleted(m) \in inserted'[w]
          PROVE  Exists(w, <<"QuizPass", m>>)'
      <3>1. ModuleCompleted(m) \in inserted[w]
        BY <2>2 DEF QuietStep, ModuleCompleted
      <3> QED
        BY <1>1, <3>1, ForwardFacts, ModuleAssumption DEF RowsAgree, QuizzesPassed, QuietStep
    <2> QED
      BY <2>1, <2>2 DEF QuizzesPassed
  <1>7. CourseEarned'
    <2>1. \A w \in Worker : lock'[Enrollment] = w /\ working'[Enrollment].status = "completed" => ModulesDone(w)'
      BY <1>1, ForwardModules DEF RowsAgree, CourseEarned, QuietStep
    <2> QED
      BY <1>1, <2>1 DEF RowsAgree, CourseEarned, Present, Published
  <1>8. Certified'
    <2>1. ASSUME NEW w \in Worker
          PROVE  /\ CourseCompleted \in inserted'[w] <=> CourseCompleted \in inserted[w]
                 /\ Certificate \in inserted'[w] <=> Certificate \in inserted[w]
      BY DEF QuietStep, CourseCompleted, Certificate
    <2> QED
      BY <1>1, <2>1 DEF RowsAgree, Certified, Present
  <1> QED
    BY <1>2, <1>3, <1>4, <1>5, <1>6, <1>7, <1>8 DEF RowsAgree

-----------------------------------------------------------------------------
(* The statements that write. *)

LEMMA RowsWritten ==
  ASSUME TypeOK, NEW w \in Worker, NEW rows \in SUBSET Row, NEW new \in [Row -> Progress],
         RC!Write(w, rows, new)
  PROVE  /\ db' = db
         /\ working' \in [Row -> Progress] /\ lock' \in [Row -> Worker \cup {NoWorker}]
         /\ \A r \in rows : working'[r] = new[r] /\ lock'[r] = w
         /\ \A r \in Row \ rows : working'[r] = working[r] /\ lock'[r] = lock[r]
  BY DEF TypeOK, RC!Write

\* A write of `rows` by w, which may also insert rows.
WriteStep(w, rows, facts) ==
    /\ TypeOK'
    /\ UNCHANGED <<db, log, course, overlapped>>
    /\ \A r \in rows : lock[r] \in {w, NoWorker} /\ lock'[r] = w
    /\ \A r \in Row \ rows : working'[r] = working[r] /\ lock'[r] = lock[r]
    /\ OthersKeep(w)
    /\ inserted'[w] = inserted[w] \cup facts
    /\ req'[w].module = req[w].module
    /\ pc'[w] \in HasWritten

LEMMA WriteIsForward ==
  ASSUME NEW w \in Worker, NEW rows, NEW facts, WriteStep(w, rows, facts)
  PROVE  Forward
  BY DEF WriteStep, Forward, Present, Published

LEMMA WriteVersions ==
  ASSUME TypeOK, Versions, NEW w \in Worker, NEW rows \in SUBSET Row, NEW facts, WriteStep(w, rows, facts)
  PROVE  Versions'
  <1>1. \A r \in Row : lock'[r] = NoWorker => working'[r] = db'[r]
    BY WorkerAssumption DEF WriteStep, Versions
  <1>2. \A v \in Worker : v # w => pc'[v] = pc[v] /\ inserted'[v] = inserted[v]
    BY DEF WriteStep, OthersKeep
  <1>3. \A r \in Row, v \in Worker : lock'[r] = v => pc'[v] \in HasWritten
    BY <1>2 DEF WriteStep, Versions
  <1>4. \A v \in Worker : inserted'[v] # {} => pc'[v] \in HasWritten
    BY <1>2 DEF WriteStep, Versions
  <1> QED
    BY <1>1, <1>3, <1>4 DEF Versions

\* What the conjuncts about rows not written, and other workers, say still holds.
LEMMA WriteOthers ==
  ASSUME TypeOK, RowsAgree, NEW w \in Worker, NEW rows \in SUBSET Row, NEW facts,
         WriteStep(w, rows, facts)
  PROVE  /\ \A m \in Module : ModuleRowFits(m, db[m])'
         /\ \A m \in Module \ rows : ModuleRowFits(m, working[m])'
         /\ EnrollmentFits(db[Enrollment])'
         /\ Enrollment \notin rows => EnrollmentFits(working[Enrollment])'
         /\ \A m \in Module : db'[m].status = "completed" => Published(ModuleCompleted(m))'
         /\ \A m \in Module \ rows, v \in Worker :
               lock'[m] = v /\ working'[m].status = "completed" => Exists(v, ModuleCompleted(m))'
         /\ \A m \in Quiz : Published(ModuleCompleted(m))' => Published(<<"QuizPass", m>>)'
         /\ \A m \in Quiz, v \in Worker : ModuleCompleted(m) \in inserted[v] => Exists(v, <<"QuizPass", m>>)'
         /\ db'[Enrollment].status = "completed" =>
               \A m \in Required : Present(m)' => Published(ModuleCompleted(m))'
  <1>1. UNCHANGED <<db, log>> /\ \A r \in Row \ rows : working'[r] = working[r] /\ lock'[r] = lock[r]
    BY DEF WriteStep
  <1>2. \A v \in Worker : inserted[v] \subseteq inserted'[v]
    BY DEF WriteStep, OthersKeep
  <1>3. /\ \A m \in Module : ModuleRowFits(m, db[m])'
        /\ \A m \in Module \ rows : ModuleRowFits(m, working[m])'
        /\ EnrollmentFits(db[Enrollment])'
        /\ Enrollment \notin rows => EnrollmentFits(working[Enrollment])'
    BY <1>1 DEF RowsAgree, RowsFit, ModuleRowFits, EnrollmentFits, PrerequisitesDone, Published
  <1>4. \A m \in Module : db'[m].status = "completed" => Published(ModuleCompleted(m))'
    BY <1>1 DEF RowsAgree, CompletionsPublished, Published
  <1>5. \A m \in Module \ rows, v \in Worker :
          lock'[m] = v /\ working'[m].status = "completed" => Exists(v, ModuleCompleted(m))'
    BY <1>1, <1>2, WriteIsForward, ForwardFacts DEF RowsAgree, CompletionsPublished
  <1>6. \A m \in Quiz : Published(ModuleCompleted(m))' => Published(<<"QuizPass", m>>)'
    BY <1>1 DEF RowsAgree, QuizzesPassed, Published
  <1>7. \A m \in Quiz, v \in Worker : ModuleCompleted(m) \in inserted[v] => Exists(v, <<"QuizPass", m>>)'
    BY <1>2, WriteIsForward, ForwardFacts, ModuleAssumption DEF RowsAgree, QuizzesPassed
  <1>8. db'[Enrollment].status = "completed" =>
          \A m \in Required : Present(m)' => Published(ModuleCompleted(m))'
    BY <1>1 DEF RowsAgree, CourseEarned, Present, Published
  <1> QED
    BY <1>3, <1>4, <1>5, <1>6, <1>7, <1>8

\* A write of one module's row that the learner has.
LEMMA ModuleWritten ==
  ASSUME IInv, NEW w \in Worker, NEW m \in Module, NEW facts \in SUBSET {ModuleCompleted(m)},
         WriteStep(w, {m}, facts), Present(m), ModuleRowFits(m, working[m])',
         working'[m].status = "completed" => Exists(w, ModuleCompleted(m))',
         working'[m].status # "absent",
         facts # {} /\ m \in Quiz => Exists(w, <<"QuizPass", m>>)'
  PROVE  RowsAgree'
  <1>0. TypeOK /\ RowsAgree /\ m # Enrollment /\ {m} \in SUBSET Row
    BY ModuleAssumption DEF IInv
  <1>1. UNCHANGED <<db, log, course, overlapped>> /\ lock[m] \in {w, NoWorker} /\ lock'[m] = w
        /\ \A r \in Row : r # m => working'[r] = working[r] /\ lock'[r] = lock[r]
    BY DEF WriteStep
  <1>2. \A v \in Worker : v # w => inserted'[v] = inserted[v]
    BY DEF WriteStep, OthersKeep
  <1>3. inserted'[w] = inserted[w] \cup facts
    BY DEF WriteStep
  <1>4. Versions'
    BY <1>0, WriteVersions DEF RowsAgree
  <1>5. RowsFit'
    BY <1>0, WriteOthers DEF RowsFit
  <1>6. RowsOfCourse'
    BY <1>0, <1>1 DEF RowsAgree, RowsOfCourse, Present
  <1>7. CompletionsPublished'
    <2>1. ASSUME NEW n \in Module, NEW v \in Worker, lock'[n] = v, working'[n].status = "completed"
          PROVE  Exists(v, ModuleCompleted(n))'
      <3>1. CASE n = m
        BY <1>1, <2>1, <3>1
      <3>2. CASE n # m
        BY <1>0, <2>1, <3>2, WriteOthers
      <3> QED
        BY <3>1, <3>2
    <2> QED
      BY <1>0, <2>1, WriteOthers DEF CompletionsPublished
  <1>8. QuizzesPassed'
    <2>1. ASSUME NEW n \in Quiz, NEW v \in Worker, ModuleCompleted(n) \in inserted'[v]
          PROVE  Exists(v, <<"QuizPass", n>>)'
      <3>1. CASE ModuleCompleted(n) \in inserted[v]
        BY <1>0, <3>1, WriteOthers
      <3>2. CASE ModuleCompleted(n) \notin inserted[v]
        <4>1. v = w /\ ModuleCompleted(n) \in facts
          BY <1>2, <1>3, <2>1, <3>2
        <4>2. n = m
          BY <4>1 DEF ModuleCompleted
        <4> QED
          BY <4>1, <4>2
      <3> QED
        BY <3>1, <3>2
    <2> QED
      BY <1>0, <2>1, WriteOthers DEF QuizzesPassed
  <1>9. CourseEarned'
    <2>1. \A v \in Worker : inserted[v] \subseteq inserted'[v]
      BY <1>2, <1>3
    <2>2. \A v \in Worker : lock'[Enrollment] = v /\ working'[Enrollment].status = "completed" => ModulesDone(v)'
      BY <1>0, <1>1, <2>1, WriteIsForward, ForwardModules DEF RowsAgree, CourseEarned
    <2> QED
      BY <1>0, <1>1, <2>2, WriteOthers DEF RowsAgree, CourseEarned, Present
  <1>10. Certified'
    <2>1. ASSUME NEW v \in Worker
          PROVE  /\ CourseCompleted \in inserted'[v] <=> CourseCompleted \in inserted[v]
                 /\ Certificate \in inserted'[v] <=> Certificate \in inserted[v]
      BY <1>2, <1>3 DEF CourseCompleted, Certificate, ModuleCompleted
    <2> QED
      BY <1>0, <1>1, <2>1 DEF RowsAgree, Certified, Present
  <1> QED
    BY <1>4, <1>5, <1>6, <1>7, <1>8, <1>9, <1>10 DEF RowsAgree

LEMMA WriteTyped ==
  ASSUME TypeOK, UNCHANGED <<course, overlapped, db, log>>,
         working' \in [Row -> Progress], lock' \in [Row -> Worker \cup {NoWorker}],
         pc' \in [Worker -> {"idle"} \cup ReadSteps \cup TxSteps],
         req' \in [Worker -> Request], inserted' \in [Worker -> SUBSET Fact]
  PROVE  TypeOK'
  BY DEF TypeOK

\* A heartbeat never sets a row to completed, and reports progress only with
\* the prerequisites completed.
LEMMA BeatWrites ==
  ASSUME IInv, NEW w \in Worker, Beat(w)
  PROVE  TypeOK' /\ RowsAgree' /\ Forward /\ OthersKeep(w) /\ Knows(w)'
  <1>0. /\ TypeOK /\ req[w] \in Request /\ Knows(w)
        /\ pc[w] = "beat"
    BY Known DEF Beat, At
  <1> PICK m \in Module : m = req[w].module
    BY <1>0 DEF Knows
  <1> DEFINE seen == req[w].seen
             level == IF req[w].level > seen.level THEN req[w].level ELSE seen.level
             row == [status |-> IF level > 0 THEN "in_progress" ELSE "not_started", level |-> level]
             new == [r \in Row |-> row]
  <1>1. TypeOK /\ req[w] \in Request /\ Knows(w) /\ {m} \in SUBSET Row
    BY Known
  <1>2. /\ pc[w] = "beat" /\ RC!Available(w, m) /\ RC!Write(w, {m}, new)
        /\ Goto(w, "evaluate") /\ Forget(w) /\ UNCHANGED <<course, overlapped, log, inserted>>
    BY DEF Beat, At
  <1>3. m \in Module /\ Present(m) /\ Present(Enrollment)
    BY <1>1, <1>2 DEF Knows
  <1>4. req[w].level \in Level /\ seen.level \in Level
    BY <1>1 DEF Request, Progress
  <1>5. level \in Level /\ (level > 0 => PrerequisitesDone(m))
    BY <1>1, <1>2, <1>4 DEF Knows
  <1>6. row \in Progress /\ row.status \notin {"completed", "absent"} /\ ModuleRowFits(m, row)
    BY <1>5 DEF Progress, ModuleRowFits, Begun
  <1> HIDE DEF row
  <1>7. new \in [Row -> Progress]
    BY <1>6
  <1> HIDE DEF new
  <1>8. /\ db' = db
        /\ working' \in [Row -> Progress] /\ lock' \in [Row -> Worker \cup {NoWorker}]
        /\ \A r \in {m} : working'[r] = new[r] /\ lock'[r] = w
        /\ \A r \in Row \ {m} : working'[r] = working[r] /\ lock'[r] = lock[r]
    BY <1>1, <1>2, <1>3, <1>7, RowsWritten
  <1>9. /\ pc' \in [Worker -> {"idle"} \cup ReadSteps \cup TxSteps]
        /\ pc'[w] = "evaluate"
        /\ \A v \in Worker : v # w => pc'[v] = pc[v]
    BY <1>1, <1>2, Moved
  <1>10. /\ req' \in [Worker -> Request] /\ req'[w].module = m
         /\ \A v \in Worker : v # w => req'[v] = req[v]
    BY <1>1, <1>2, Forgets
  <1>11. TypeOK'
    BY <1>1, <1>2, <1>8, <1>9, <1>10, WriteTyped DEF TypeOK
  <1>12. WriteStep(w, {m}, {})
    BY <1>1, <1>2, <1>8, <1>9, <1>10, <1>11 DEF WriteStep, OthersKeep, RC!Available
  <1>13. working'[m] = row
    BY <1>3, <1>8 DEF new
  <1>14. Forward
    BY <1>12, WriteIsForward
  <1>15. ModuleRowFits(m, working[m])'
    <2>1. PrerequisitesDone(m) => PrerequisitesDone(m)'
      BY <1>3, <1>14, ForwardPrerequisites
    <2> QED
      BY <1>6, <1>13, <2>1 DEF ModuleRowFits
  <1>16. RowsAgree'
    BY <1>3, <1>6, <1>12, <1>13, <1>15, ModuleWritten
  <1>17. Knows(w)'
    BY <1>3, <1>8, <1>9, <1>10 DEF Knows, Present
  <1> QED
    BY <1>11, <1>12, <1>14, <1>16, <1>17 DEF WriteStep

\* The quiz was passed before, or is in the same transaction.
LEMMA ModuleCompletes ==
  ASSUME IInv, NEW w \in Worker, CompleteModule(w)
  PROVE  TypeOK' /\ RowsAgree' /\ Forward /\ OthersKeep(w) /\ Knows(w)'
  <1>0. /\ TypeOK /\ req[w] \in Request /\ Knows(w)
        /\ pc[w] = "completeModule"
    BY Known DEF CompleteModule, At
  <1> PICK m \in Module : m = req[w].module
    BY <1>0 DEF Knows
  <1> DEFINE new == [r \in Row |-> [RC!Sees(w, r) EXCEPT !.status = "completed"]]
  <1>1. TypeOK /\ req[w] \in Request /\ Knows(w) /\ {m} \in SUBSET Row
    BY Known
  <1>2. /\ pc[w] = "completeModule" /\ RC!Available(w, m) /\ RC!Write(w, {m}, new)
        /\ Insert(w, {ModuleCompleted(m)}) /\ Goto(w, "readEnrollment")
        /\ UNCHANGED <<course, overlapped, log, req>>
    BY DEF CompleteModule, At
  <1>3. /\ m \in Module /\ Present(m) /\ Present(Enrollment) /\ PrerequisitesDone(m)
        /\ m \in Quiz => Exists(w, <<"QuizPass", m>>)
    BY <1>1, <1>2 DEF Knows
  <1>4. \A r \in Row : RC!Sees(w, r) \in Progress
    BY <1>1 DEF TypeOK, RC!Sees
  <1>5. new \in [Row -> Progress] /\ new[m].status = "completed"
    BY <1>3, <1>4 DEF Progress
  <1> HIDE DEF new
  <1>6. /\ db' = db
        /\ working' \in [Row -> Progress] /\ lock' \in [Row -> Worker \cup {NoWorker}]
        /\ \A r \in {m} : working'[r] = new[r] /\ lock'[r] = w
        /\ \A r \in Row \ {m} : working'[r] = working[r] /\ lock'[r] = lock[r]
    BY <1>1, <1>2, <1>3, <1>5, RowsWritten
  <1>7. /\ pc' \in [Worker -> {"idle"} \cup ReadSteps \cup TxSteps]
        /\ pc'[w] = "readEnrollment"
        /\ \A v \in Worker : v # w => pc'[v] = pc[v]
    BY <1>1, <1>2, Moved
  <1>8. /\ inserted' \in [Worker -> SUBSET Fact]
        /\ inserted'[w] = inserted[w] \cup {ModuleCompleted(m)}
        /\ \A v \in Worker : v # w => inserted'[v] = inserted[v]
    BY <1>1, <1>2, <1>3, FactsTyped, Inserts
  <1>9. TypeOK'
    BY <1>1, <1>2, <1>6, <1>7, <1>8, WriteTyped DEF TypeOK
  <1>10. WriteStep(w, {m}, {ModuleCompleted(m)})
    BY <1>1, <1>2, <1>6, <1>7, <1>8, <1>9 DEF WriteStep, OthersKeep, RC!Available
  <1>11. working'[m].status = "completed"
    BY <1>5, <1>6
  <1>12. Forward
    BY <1>10, WriteIsForward
  <1>13. ModuleRowFits(m, working[m])'
    <2>1. PrerequisitesDone(m)'
      BY <1>3, <1>12, ForwardPrerequisites
    <2> QED
      BY <1>11, <2>1 DEF ModuleRowFits, Begun
  <1>14. /\ Exists(w, ModuleCompleted(m))'
         /\ m \in Quiz => Exists(w, <<"QuizPass", m>>)'
    BY <1>3, <1>8, <1>12, ForwardFacts DEF Exists
  <1>15. RowsAgree'
    BY <1>3, <1>10, <1>11, <1>13, <1>14, ModuleWritten
  <1>16. Knows(w)'
    BY <1>2, <1>3, <1>6, <1>7 DEF Knows, Present
  <1> QED
    BY <1>9, <1>10, <1>12, <1>15, <1>16 DEF WriteStep

\* Nobody holds a row when an enrolment is inserted: rows are first locked by
\* the transaction that inserts them all.
LEMMA BeforeEnrollment ==
  ASSUME IInv, NEW w \in Worker, InsertEnrollment(w)
  PROVE  /\ \A r \in Row : lock[r] = NoWorker /\ ~Present(r)
         /\ \A r \in Row : working[r] = db[r]
  <1>1. pc[w] = "insertEnrollment" /\ lock[Enrollment] \in {w, NoWorker} /\ db[Enrollment] = Absent
    BY DEF InsertEnrollment, At, RC!Available
  <1>2. lock[Enrollment] = NoWorker
    BY <1>1 DEF IInv, RowsAgree, Versions
  <1>3. \A m \in Module : ~Present(m)
    BY <1>1 DEF IInv, RowsAgree, RowsOfCourse, Present, Absent
  <1>4. ASSUME NEW m \in Module
        PROVE  lock[m] = NoWorker
    <2>1. lock[m] # NoWorker => working[m].status # "absent"
      BY DEF IInv, RowsAgree, RowsOfCourse
    <2>2. lock[m] # NoWorker => lock[m] = lock[Enrollment]
      BY <1>3, <2>1 DEF IInv, RowsAgree, RowsOfCourse
    <2> QED
      BY <1>2, <2>2
  <1>5. \A r \in Row : lock[r] = NoWorker /\ ~Present(r)
    BY <1>1, <1>2, <1>3, <1>4 DEF Present, Absent
  <1> QED
    BY <1>5 DEF IInv, RowsAgree, Versions

LEMMA EnrollmentWrites ==
  ASSUME IInv, NEW w \in Worker, InsertEnrollment(w)
  PROVE  TypeOK' /\ RowsAgree' /\ Forward /\ OthersKeep(w) /\ Knows(w)'
  <1> DEFINE rows == req[w].rows \cup {Enrollment}
             new == [r \in Row |-> [status |-> IF r = Enrollment THEN "active" ELSE "not_started",
                                    level |-> 0]]
  <1>1. /\ TypeOK /\ RowsAgree /\ req[w] \in Request /\ Knows(w)
        /\ pc[w] = "insertEnrollment"
    BY Known DEF InsertEnrollment, At, IInv
  <1>2. /\ RC!Write(w, rows, new) /\ Goto(w, "commit") /\ Forget(w)
        /\ UNCHANGED <<course, overlapped, log, inserted>>
    BY DEF InsertEnrollment
  <1>3. rows \in SUBSET Row /\ Enrollment \in rows /\ rows \ {Enrollment} \subseteq course
        /\ course \in SUBSET Module /\ Enrollment \notin Module
    BY <1>1, ModuleAssumption DEF Request, Knows, TypeOK
  <1>4. new \in [Row -> Progress]
        /\ \A r \in Row : /\ new[r].level = 0
                          /\ new[r].status = IF r = Enrollment THEN "active" ELSE "not_started"
    BY DEF Progress
  <1>5. /\ \A r \in Row : lock[r] = NoWorker /\ ~Present(r)
        /\ \A r \in Row : working[r] = db[r]
    BY BeforeEnrollment
  <1> HIDE DEF rows, new
  <1>6. /\ db' = db
        /\ working' \in [Row -> Progress] /\ lock' \in [Row -> Worker \cup {NoWorker}]
        /\ \A r \in rows : working'[r] = new[r] /\ lock'[r] = w
        /\ \A r \in Row \ rows : working'[r] = working[r] /\ lock'[r] = lock[r]
    BY <1>1, <1>2, <1>3, <1>4, RowsWritten
  <1>7. /\ pc' \in [Worker -> {"idle"} \cup ReadSteps \cup TxSteps]
        /\ pc'[w] = "commit"
        /\ \A v \in Worker : v # w => pc'[v] = pc[v]
    BY <1>1, <1>2, Moved
  <1>8. /\ req' \in [Worker -> Request] /\ req'[w].module = req[w].module
        /\ \A v \in Worker : v # w => req'[v] = req[v]
    BY <1>1, <1>2, Forgets
  <1>9. TypeOK'
    BY <1>1, <1>2, <1>6, <1>7, <1>8, WriteTyped DEF TypeOK
  <1>10. WriteStep(w, rows, {})
    BY <1>1, <1>2, <1>3, <1>5, <1>6, <1>7, <1>8, <1>9 DEF WriteStep, OthersKeep
  <1>11. \A r \in Row \ rows : lock'[r] = NoWorker /\ working'[r].status = "absent"
    BY <1>5, <1>6 DEF Present
  <1>12. \A r \in Row : db'[r].status = "absent"
    BY <1>5, <1>6 DEF Present
  <1>13. /\ working'[Enrollment].status = "active" /\ working'[Enrollment].level = 0
         /\ \A m \in Module \cap rows : working'[m].status = "not_started" /\ working'[m].level = 0
    BY <1>3, <1>4, <1>6
  <1>14. Versions'
    BY <1>1, <1>3, <1>10, WriteVersions DEF RowsAgree
  <1>15. RowsFit'
    <2>1. ASSUME NEW m \in Module
          PROVE  ModuleRowFits(m, working[m])'
      <3>1. CASE m \in rows
        BY <1>13, <3>1 DEF ModuleRowFits, Begun
      <3>2. CASE m \notin rows
        BY <1>1, <1>3, <1>10, <3>2, WriteOthers
      <3> QED
        BY <3>1, <3>2
    <2>2. EnrollmentFits(working[Enrollment])'
      BY <1>13 DEF EnrollmentFits
    <2> QED
      BY <1>1, <1>3, <1>10, <2>1, <2>2, WriteOthers DEF RowsFit
  <1>16. RowsOfCourse'
    BY <1>2, <1>3, <1>6, <1>11, <1>12, <1>13, WorkerAssumption DEF RowsOfCourse, Present
  <1>17. CompletionsPublished'
    <2>1. \A m \in Module : working'[m].status # "completed"
      BY <1>11, <1>13
    <2> QED
      BY <1>12, <2>1 DEF CompletionsPublished
  <1>18. QuizzesPassed'
    BY <1>1, <1>2, <1>3, <1>10, WriteOthers DEF QuizzesPassed
  <1>19. CourseEarned'
    BY <1>12, <1>13 DEF CourseEarned
  <1>20. Certified'
    <2>1. \A v \in Worker : CertificateEnabled => Certificate \notin inserted[v] /\ CourseCompleted \notin inserted[v]
      BY <1>1, <1>5, WorkerAssumption DEF RowsAgree, Certified
    <2> QED
      BY <1>1, <1>2, <1>6, <1>12, <1>13, <2>1 DEF RowsAgree, Certified, Present
  <1>21. Knows(w)'
    BY <1>7 DEF Knows
  <1>22. RowsAgree'
    BY <1>14, <1>15, <1>16, <1>17, <1>18, <1>19, <1>20 DEF RowsAgree
  <1> QED
    BY <1>9, <1>10, <1>21, <1>22, WriteIsForward DEF WriteStep

\* Of two transactions that complete the course, the second waits for the
\* enrolment's row and then finds the certificate.
LEMMA CourseCompletes ==
  ASSUME IInv, NEW w \in Worker, CompleteCourse(w)
  PROVE  TypeOK' /\ RowsAgree' /\ Forward /\ OthersKeep(w) /\ Knows(w)'
  <1> DEFINE new == [r \in Row |-> [RC!Sees(w, r) EXCEPT !.status = "completed"]]
             facts == {CourseCompleted} \cup IF CertificateEnabled THEN {Certificate} ELSE {}
  <1>1. /\ TypeOK /\ RowsAgree /\ req[w] \in Request /\ Knows(w)
        /\ pc[w] = "completeCourse" /\ {Enrollment} \in SUBSET Row
    BY Known DEF CompleteCourse, At, IInv
  <1>2. /\ RC!Available(w, Enrollment)
        /\ CertificateEnabled => NoCertificateYet(w)
        /\ RC!Write(w, {Enrollment}, new) /\ Insert(w, facts) /\ Goto(w, "commit")
        /\ UNCHANGED <<course, overlapped, log, req>>
    BY DEF CompleteCourse
  <1>3. Present(Enrollment) /\ ModulesDone(w) /\ Enrollment \notin Module
    BY <1>1, ModuleAssumption DEF Knows
  <1>4. RC!Sees(w, Enrollment).level = 0 /\ \A r \in Row : RC!Sees(w, r) \in Progress
    BY <1>1 DEF TypeOK, RC!Sees, RowsAgree, RowsFit, EnrollmentFits
  <1>5. new \in [Row -> Progress] /\ new[Enrollment].status = "completed" /\ new[Enrollment].level = 0
    BY <1>4 DEF Progress
  <1>6. /\ facts \in SUBSET Fact /\ CourseCompleted \in facts
        /\ CertificateEnabled => Certificate \in facts
        /\ \A m : ModuleCompleted(m) \notin facts
    BY DEF Fact, CourseCompleted, Certificate, ModuleCompleted
  <1> HIDE DEF new, facts
  <1>7. /\ db' = db
        /\ working' \in [Row -> Progress] /\ lock' \in [Row -> Worker \cup {NoWorker}]
        /\ \A r \in {Enrollment} : working'[r] = new[r] /\ lock'[r] = w
        /\ \A r \in Row \ {Enrollment} : working'[r] = working[r] /\ lock'[r] = lock[r]
    BY <1>1, <1>2, <1>5, RowsWritten
  <1>8. /\ pc' \in [Worker -> {"idle"} \cup ReadSteps \cup TxSteps]
        /\ pc'[w] = "commit"
        /\ \A v \in Worker : v # w => pc'[v] = pc[v]
    BY <1>1, <1>2, Moved
  <1>9. /\ inserted' \in [Worker -> SUBSET Fact]
        /\ inserted'[w] = inserted[w] \cup facts
        /\ \A v \in Worker : v # w => inserted'[v] = inserted[v]
    BY <1>1, <1>2, <1>6, Inserts
  <1>10. TypeOK'
    BY <1>1, <1>2, <1>7, <1>8, <1>9, WriteTyped DEF TypeOK
  <1>11. WriteStep(w, {Enrollment}, facts)
    BY <1>1, <1>2, <1>7, <1>8, <1>9, <1>10 DEF WriteStep, OthersKeep, RC!Available
  <1>12. Forward
    BY <1>11, WriteIsForward
  <1>13. working'[Enrollment].status = "completed" /\ working'[Enrollment].level = 0 /\ lock'[Enrollment] = w
    BY <1>5, <1>7
  <1>14. Versions'
    BY <1>1, <1>11, WriteVersions DEF RowsAgree
  <1>15. RowsFit'
    <2>1. EnrollmentFits(working[Enrollment])'
      BY <1>13 DEF EnrollmentFits
    <2> QED
      BY <1>1, <1>3, <1>11, <2>1, WriteOthers DEF RowsFit
  <1>16. RowsOfCourse'
    BY <1>1, <1>2, <1>3, <1>7, <1>13 DEF RowsAgree, RowsOfCourse, Present
  <1>17. CompletionsPublished'
    BY <1>1, <1>3, <1>11, WriteOthers DEF CompletionsPublished
  <1>18. QuizzesPassed'
    <2>1. \A m, v : v \in Worker /\ ModuleCompleted(m) \in inserted'[v] => ModuleCompleted(m) \in inserted[v]
      BY <1>6, <1>9
    <2> QED
      BY <1>1, <1>11, <2>1, WriteOthers DEF QuizzesPassed
  <1>19. CourseEarned'
    <2>1. ModulesDone(w)'
      BY <1>3, <1>9, <1>12, ForwardModules
    <2>2. \A v \in Worker : lock'[Enrollment] = v => ModulesDone(v)'
      BY <1>13, <2>1
    <2> QED
      BY <1>1, <1>3, <1>7, <1>11, <2>2, WriteOthers DEF CourseEarned, Present
  <1>20. Certified'
    <2> SUFFICES ASSUME CertificateEnabled
                 PROVE  Certified'
      BY DEF Certified
    <2>1. Certificate \notin inserted[w] /\ ~(log[Certificate] > 0)
      BY <1>2 DEF NoCertificateYet, Exists
    <2>2. log[Certificate] = 0
      BY <1>1, <2>1 DEF TypeOK, Fact, Certificate
    <2>3. \A v \in Worker : v # w => Certificate \notin inserted[v] /\ CourseCompleted \notin inserted[v]
      BY <1>1, <1>2, WorkerAssumption DEF RowsAgree, Certified, RC!Available
    <2>4. CourseCompleted \in inserted'[w] /\ Certificate \in inserted'[w]
      BY <1>6, <1>9
    <2>5. \A v \in Worker : v # w => Certificate \notin inserted'[v] /\ CourseCompleted \notin inserted'[v]
      BY <1>9, <2>3
    <2>6. log' = log /\ db' = db
      BY <1>2, <1>7
    <2> QED
      BY <1>1, <1>13, <2>2, <2>4, <2>5, <2>6 DEF RowsAgree, Certified
  <1>21. Knows(w)'
    BY <1>8 DEF Knows
  <1>22. RowsAgree'
    BY <1>14, <1>15, <1>16, <1>17, <1>18, <1>19, <1>20 DEF RowsAgree
  <1> QED
    BY <1>10, <1>11, <1>12, <1>21, <1>22 DEF WriteStep

-----------------------------------------------------------------------------
(* The ends of a request. *)

\* w starts over; the other workers keep what they have.
LEMMA DoneTyped ==
  ASSUME TypeOK, NEW w \in Worker, Done(w)
  PROVE  /\ pc' \in [Worker -> {"idle"} \cup ReadSteps \cup TxSteps]
         /\ req' \in [Worker -> Request] /\ inserted' \in [Worker -> SUBSET Fact]
         /\ pc'[w] = "idle" /\ inserted'[w] = {} /\ OthersKeep(w) /\ Knows(w)'
  <1>1. /\ pc' \in [Worker -> {"idle"} \cup ReadSteps \cup TxSteps]
        /\ pc'[w] = "idle"
        /\ \A v \in Worker : v # w => pc'[v] = pc[v]
    BY Moved DEF Done
  <1>2. /\ req' \in [Worker -> Request]
        /\ \A v \in Worker : v # w => req'[v] = req[v]
    BY NoRequestTyped, LocalsSet DEF Done
  <1>3. /\ inserted' \in [Worker -> SUBSET Fact] /\ inserted'[w] = {}
        /\ \A v \in Worker : v # w => inserted'[v] = inserted[v]
    BY DEF Done, TypeOK
  <1> QED
    BY <1>1, <1>2, <1>3 DEF OthersKeep, Knows

LEMMA Failed ==
  ASSUME IInv, NEW w \in Worker, Fail(w)
  PROVE  TypeOK' /\ RowsAgree' /\ Forward /\ OthersKeep(w) /\ Knows(w)'
  <1>1. TypeOK /\ RowsAgree
    BY DEF IInv
  <1>2. /\ pc' \in [Worker -> {"idle"} \cup ReadSteps \cup TxSteps]
        /\ req' \in [Worker -> Request] /\ inserted' \in [Worker -> SUBSET Fact]
        /\ pc'[w] = "idle" /\ inserted'[w] = {} /\ OthersKeep(w) /\ Knows(w)'
    BY <1>1, DoneTyped DEF Fail
  <1>3. /\ UNCHANGED <<db, course, overlapped, log>>
        /\ working' = [r \in Row |-> IF lock[r] = w THEN db[r] ELSE working[r]]
        /\ lock' = [r \in Row |-> IF lock[r] = w THEN NoWorker ELSE lock[r]]
    BY DEF Fail, RC!RollbackRows, RC!Unlocked
  <1>4. \A r \in Row : /\ lock[r] = w => lock'[r] = NoWorker /\ working'[r] = db[r]
                       /\ lock[r] # w => lock'[r] = lock[r] /\ working'[r] = working[r]
    BY <1>3
  <1>5. TypeOK'
    BY <1>1, <1>2, <1>3, WriteTyped DEF TypeOK
  <1>6. Forward
    BY <1>3 DEF Forward, Present, Published
  <1>7. \A v \in Worker : v # w => inserted'[v] = inserted[v] /\ pc'[v] = pc[v]
    BY <1>2 DEF OthersKeep
  <1>8. ASSUME NEW r \in Row, NEW v \in Worker, lock'[r] = v
        PROVE  v # w /\ lock[r] = v
    <2>1. NoWorker \notin Worker
      BY WorkerAssumption
    <2> QED
      BY <1>4, <1>8, <2>1
  <1>9. Versions'
    <2>1. \A r \in Row : lock'[r] = NoWorker => working'[r] = db'[r]
      BY <1>1, <1>3, <1>4, WorkerAssumption DEF RowsAgree, Versions
    <2>2. \A r \in Row, v \in Worker : lock'[r] = v => pc'[v] \in HasWritten
      BY <1>1, <1>7, <1>8 DEF RowsAgree, Versions
    <2>3. \A v \in Worker : inserted'[v] # {} => pc'[v] \in HasWritten
      BY <1>1, <1>2, <1>7 DEF RowsAgree, Versions
    <2> QED
      BY <2>1, <2>2, <2>3 DEF Versions
  <1>10. RowsFit'
    BY <1>1, <1>3, <1>4 DEF RowsAgree, RowsFit, ModuleRowFits, EnrollmentFits, PrerequisitesDone, Published
  <1>11. RowsOfCourse'
    <2>1. \A r \in Row : Present(r)' \/ lock'[r] # NoWorker => working'[r].status # "absent"
      BY <1>1, <1>3, <1>4 DEF RowsAgree, RowsOfCourse, Present
    <2>2. \A m \in Module : Present(m)' => m \in course' /\ Present(Enrollment)'
      BY <1>1, <1>3 DEF RowsAgree, RowsOfCourse, Present
    <2>3. ASSUME NEW m \in Module, working'[m].status # "absent", ~Present(m)'
          PROVE  /\ m \in course' /\ ~Present(Enrollment)'
                 /\ lock'[m] = lock'[Enrollment] /\ working'[Enrollment].status # "absent"
      <3>1. lock[m] # w /\ working[m].status # "absent" /\ ~Present(m)
        BY <1>3, <1>4, <2>3 DEF Present
      <3>2. /\ m \in course /\ ~Present(Enrollment)
            /\ lock[m] = lock[Enrollment] /\ working[Enrollment].status # "absent"
        BY <1>1, <3>1 DEF RowsAgree, RowsOfCourse
      <3> QED
        BY <1>3, <1>4, <3>1, <3>2 DEF Present
    <2> QED
      BY <2>1, <2>2, <2>3 DEF RowsOfCourse
  <1>12. CompletionsPublished'
    <2>1. ASSUME NEW m \in Module, NEW v \in Worker, lock'[m] = v, working'[m].status = "completed"
          PROVE  Exists(v, ModuleCompleted(m))'
      <3>1. v # w /\ lock[m] = v
        BY <1>8, <2>1
      <3>2. Exists(v, ModuleCompleted(m))
        BY <1>1, <1>4, <2>1, <3>1 DEF RowsAgree, CompletionsPublished
      <3> QED
        BY <1>3, <1>7, <3>1, <3>2 DEF Exists
    <2> QED
      BY <1>1, <1>3, <2>1 DEF RowsAgree, CompletionsPublished, Published
  <1>13. QuizzesPassed'
    <2>1. \A m \in Quiz, v \in Worker :
            ModuleCompleted(m) \in inserted'[v] => Exists(v, <<"QuizPass", m>>)'
      BY <1>1, <1>2, <1>3, <1>7 DEF RowsAgree, QuizzesPassed, Exists
    <2> QED
      BY <1>1, <1>3, <2>1 DEF RowsAgree, QuizzesPassed, Published
  <1>14. CourseEarned'
    <2>1. db'[Enrollment].status = "completed" =>
            \A m \in Required : Present(m)' => Published(ModuleCompleted(m))'
      BY <1>1, <1>3 DEF RowsAgree, CourseEarned, Present, Published
    <2>2. working'[Enrollment].status = "completed" => Present(Enrollment)'
      BY <1>1, <1>3, <1>4 DEF RowsAgree, CourseEarned, Present
    <2>3. \A v \in Worker : lock'[Enrollment] = v /\ working'[Enrollment].status = "completed" => ModulesDone(v)'
      BY <1>1, <1>3, <1>4, <1>6, <1>7, <1>8, ForwardModules DEF RowsAgree, CourseEarned
    <2> QED
      BY <2>1, <2>2, <2>3 DEF CourseEarned
  <1>15. Certified'
    <2> SUFFICES ASSUME CertificateEnabled
                 PROVE  Certified'
      BY DEF Certified
    <2>1. /\ log'[Certificate] = log'[CourseCompleted]
          /\ log'[CourseCompleted] = IF db'[Enrollment].status = "completed" THEN 1 ELSE 0
      BY <1>1, <1>3 DEF RowsAgree, Certified
    <2>2. ASSUME NEW v \in Worker
          PROVE  /\ CourseCompleted \in inserted'[v] <=> Certificate \in inserted'[v]
                 /\ Certificate \in inserted'[v] =>
                       /\ lock'[Enrollment] = v /\ working'[Enrollment].status = "completed"
                       /\ log'[Certificate] = 0
      <3>1. CASE v = w
        BY <1>2, <3>1
      <3>2. CASE v # w
        BY <1>1, <1>3, <1>4, <1>7, <3>2 DEF RowsAgree, Certified
      <3> QED
        BY <3>1, <3>2
    <2>3. ASSUME NEW v \in Worker, lock'[Enrollment] = v, Certificate \notin inserted'[v]
          PROVE  working'[Enrollment].status = "active" /\ ~Present(Enrollment)'
      <3>1. v # w /\ lock[Enrollment] = v
        BY <1>8, <2>3
      <3> QED
        BY <1>1, <1>3, <1>4, <1>7, <2>3, <3>1 DEF RowsAgree, Certified, Present
    <2> QED
      BY <2>1, <2>2, <2>3 DEF Certified
  <1>16. RowsAgree'
    BY <1>9, <1>10, <1>11, <1>12, <1>13, <1>14, <1>15 DEF RowsAgree
  <1> QED
    BY <1>2, <1>5, <1>6, <1>16

\* What a COMMIT publishes: everything that its worker saw.
LEMMA Publishes ==
  ASSUME TypeOK, NEW w \in Worker,
         log' = [f \in Fact |-> IF f \in inserted[w] /\ log[f] < Many[f[1]]
                               THEN log[f] + 1 ELSE log[f]]
  PROVE  /\ log' \in [Fact -> Nat] /\ \A f \in Fact : log'[f] <= Many[f[1]]
         /\ \A f \in Fact : f \notin inserted[w] => log'[f] = log[f]
         /\ \A f \in Fact : f \in inserted[w] /\ log[f] = 0 => log'[f] = 1
         /\ \A f \in Fact : Exists(w, f) => log'[f] > 0
         /\ \A f \in Fact : log[f] <= log'[f] /\ log'[f] <= log[f] + 1
  <1>1. \A f \in Fact : f[1] \in DOMAIN Many /\ Many[f[1]] \in Nat \ {0}
    BY ManyAssumption DEF Fact
  <1>2. ASSUME NEW f \in Fact
        PROVE  /\ log'[f] \in Nat /\ log'[f] <= Many[f[1]]
               /\ f \notin inserted[w] => log'[f] = log[f]
               /\ f \in inserted[w] /\ log[f] = 0 => log'[f] = 1
               /\ Exists(w, f) => log'[f] > 0
               /\ log[f] <= log'[f] /\ log'[f] <= log[f] + 1
    <2>1. log[f] \in Nat /\ log[f] <= Many[f[1]] /\ Many[f[1]] \in Nat \ {0}
      BY <1>1 DEF TypeOK
    <2>2. log'[f] = IF f \in inserted[w] /\ log[f] < Many[f[1]] THEN log[f] + 1 ELSE log[f]
      OBVIOUS
    <2> QED
      BY <2>1, <2>2 DEF Exists
  <1>3. log' \in [Fact -> Nat]
    BY <1>2
  <1> QED
    BY <1>2, <1>3

\* What a COMMIT makes of the rows of its worker; those of others stay.
LEMMA Committed ==
  ASSUME IInv, NEW w \in Worker, Commit(w)
  PROVE  /\ db' \in [Row -> Progress] /\ lock' \in [Row -> Worker \cup {NoWorker}]
         /\ working' = working
         /\ \A r \in Row : lock[r] = w => lock'[r] = NoWorker /\ db'[r] = working[r]
         /\ \A r \in Row : lock[r] # w => lock'[r] = lock[r] /\ db'[r] = db[r]
         /\ \A r \in Row, v \in Worker : lock'[r] = v => v # w /\ lock[r] = v
  <1>1. TypeOK
    BY DEF IInv
  <1>2. /\ working' = working
        /\ db' = [r \in Row |-> IF lock[r] = w THEN working[r] ELSE db[r]]
        /\ lock' = [r \in Row |-> IF lock[r] = w THEN NoWorker ELSE lock[r]]
    BY DEF Commit, RC!CommitRows, RC!Unlocked, RC!Sees
  <1>3. db' \in [Row -> Progress] /\ lock' \in [Row -> Worker \cup {NoWorker}]
    BY <1>1, <1>2 DEF TypeOK
  <1>4. /\ \A r \in Row : lock[r] = w => lock'[r] = NoWorker /\ db'[r] = working[r]
        /\ \A r \in Row : lock[r] # w => lock'[r] = lock[r] /\ db'[r] = db[r]
    BY <1>2
  <1>5. ASSUME NEW r \in Row, NEW v \in Worker, lock'[r] = v
        PROVE  v # w /\ lock[r] = v
    <2>1. NoWorker \notin Worker
      BY WorkerAssumption
    <2> QED
      BY <1>4, <1>5, <2>1
  <1> QED
    BY <1>2, <1>3, <1>4, <1>5

LEMMA Commits ==
  ASSUME IInv, NEW w \in Worker, Commit(w)
  PROVE  TypeOK' /\ RowsAgree' /\ Forward /\ OthersKeep(w) /\ Knows(w)'
  <1>1. TypeOK /\ RowsAgree /\ course' = course
    BY DEF IInv, Commit
  <1>2. /\ pc' \in [Worker -> {"idle"} \cup ReadSteps \cup TxSteps]
        /\ req' \in [Worker -> Request] /\ inserted' \in [Worker -> SUBSET Fact]
        /\ pc'[w] = "idle" /\ inserted'[w] = {} /\ OthersKeep(w) /\ Knows(w)'
    BY <1>1, DoneTyped DEF Commit
  <1>3. /\ log' \in [Fact -> Nat] /\ \A f \in Fact : log'[f] <= Many[f[1]]
        /\ \A f \in Fact : f \notin inserted[w] => log'[f] = log[f]
        /\ \A f \in Fact : f \in inserted[w] /\ log[f] = 0 => log'[f] = 1
        /\ \A f \in Fact : Exists(w, f) => log'[f] > 0
        /\ \A f \in Fact : log[f] <= log'[f] /\ log'[f] <= log[f] + 1
    BY <1>1, Publishes DEF Commit
  <1>4. /\ db' \in [Row -> Progress] /\ lock' \in [Row -> Worker \cup {NoWorker}]
        /\ working' = working
        /\ \A r \in Row : lock[r] = w => lock'[r] = NoWorker /\ db'[r] = working[r]
        /\ \A r \in Row : lock[r] # w => lock'[r] = lock[r] /\ db'[r] = db[r]
        /\ \A r \in Row, v \in Worker : lock'[r] = v => v # w /\ lock[r] = v
    BY Committed
  <1>5. TypeOK'
    BY <1>1, <1>2, <1>3, <1>4 DEF TypeOK, Commit
  <1>6. \A v \in Worker : v # w => inserted'[v] = inserted[v] /\ pc'[v] = pc[v]
    BY <1>2 DEF OthersKeep
  <1>7. Forward
    <2>1. \A f \in Fact : Published(f) => log'[f] > 0
      BY <1>3 DEF Published, Exists
    <2>2. \A r \in Row : Present(r) => Present(r)'
      BY <1>1, <1>4 DEF RowsAgree, RowsOfCourse, Present
    <2>3. Present(Enrollment) => \A m \in Module : Present(m)' => Present(m)
      BY <1>1, <1>4 DEF RowsAgree, RowsOfCourse, Present
    <2> QED
      BY <1>1, <2>1, <2>2, <2>3 DEF Forward
  <1>8. /\ \A m \in Module : Exists(w, ModuleCompleted(m)) => Published(ModuleCompleted(m))'
        /\ \A m \in Module : Exists(w, <<"QuizPass", m>>) => Published(<<"QuizPass", m>>)'
    BY <1>3, FactsTyped DEF Published, ModuleCompleted
  <1>9. Versions'
    <2>1. \A r \in Row : lock'[r] = NoWorker => working'[r] = db'[r]
      BY <1>1, <1>4 DEF RowsAgree, Versions
    <2>2. \A r \in Row, v \in Worker : lock'[r] = v => pc'[v] \in HasWritten
      BY <1>1, <1>4, <1>6 DEF RowsAgree, Versions
    <2>3. \A v \in Worker : inserted'[v] # {} => pc'[v] \in HasWritten
      BY <1>1, <1>2, <1>6 DEF RowsAgree, Versions
    <2> QED
      BY <2>1, <2>2, <2>3 DEF Versions
  <1>10. RowsFit'
    <2>1. ASSUME NEW m \in Module
          PROVE  ModuleRowFits(m, db[m])' /\ ModuleRowFits(m, working[m])'
      <3>1. PrerequisitesDone(m) => PrerequisitesDone(m)'
        BY <1>7, ForwardPrerequisites
      <3>2. ModuleRowFits(m, db[m]) /\ ModuleRowFits(m, working[m])
        BY <1>1 DEF RowsAgree, RowsFit
      <3>3. db'[m] \in {db[m], working[m]} /\ working'[m] = working[m]
        BY <1>4
      <3> QED
        BY <3>1, <3>2, <3>3 DEF ModuleRowFits
    <2>2. EnrollmentFits(db[Enrollment])' /\ EnrollmentFits(working[Enrollment])'
      BY <1>1, <1>4 DEF RowsAgree, RowsFit, EnrollmentFits
    <2> QED
      BY <2>1, <2>2 DEF RowsFit
  <1>11. RowsOfCourse'
    <2>1. \A r \in Row : Present(r)' \/ lock'[r] # NoWorker => working'[r].status # "absent"
      BY <1>1, <1>4 DEF RowsAgree, RowsOfCourse, Present
    <2>2. ASSUME NEW m \in Module, Present(m)'
          PROVE  m \in course' /\ Present(Enrollment)'
      <3>1. CASE Present(m)
        BY <1>1, <1>7, <3>1 DEF RowsAgree, RowsOfCourse, Forward
      <3>2. CASE ~Present(m)
        <4>1. lock[m] = w /\ working[m].status # "absent"
          BY <1>4, <2>2, <3>2 DEF Present
        <4>2. m \in course /\ lock[Enrollment] = w /\ working[Enrollment].status # "absent"
          BY <1>1, <3>2, <4>1 DEF RowsAgree, RowsOfCourse
        <4> QED
          BY <1>1, <1>4, <4>2 DEF Present
      <3> QED
        BY <3>1, <3>2
    <2>3. ASSUME NEW m \in Module, working'[m].status # "absent", ~Present(m)'
          PROVE  /\ m \in course' /\ ~Present(Enrollment)'
                 /\ lock'[m] = lock'[Enrollment] /\ working'[Enrollment].status # "absent"
      <3>1. lock[m] # w /\ working[m].status # "absent" /\ ~Present(m)
        BY <1>4, <2>3 DEF Present
      <3>2. /\ m \in course /\ ~Present(Enrollment)
            /\ lock[m] = lock[Enrollment] /\ working[Enrollment].status # "absent"
        BY <1>1, <3>1 DEF RowsAgree, RowsOfCourse
      <3> QED
        BY <1>1, <1>4, <3>1, <3>2 DEF Present
    <2> QED
      BY <2>1, <2>2, <2>3 DEF RowsOfCourse
  <1>12. CompletionsPublished'
    <2>1. ASSUME NEW m \in Module, db'[m].status = "completed"
          PROVE  Published(ModuleCompleted(m))'
      <3>1. Exists(w, ModuleCompleted(m))
        BY <1>1, <1>4, <2>1 DEF RowsAgree, CompletionsPublished, Exists, Published
      <3> QED
        BY <1>8, <3>1
    <2>2. ASSUME NEW m \in Module, NEW v \in Worker, lock'[m] = v, working'[m].status = "completed"
          PROVE  Exists(v, ModuleCompleted(m))'
      <3>1. v # w /\ lock[m] = v
        BY <1>4, <2>2
      <3>2. Exists(v, ModuleCompleted(m)) /\ inserted[v] \subseteq inserted'[v]
        BY <1>1, <1>4, <1>6, <2>2, <3>1 DEF RowsAgree, CompletionsPublished
      <3> QED
        BY <1>7, <3>2, ForwardFacts
    <2> QED
      BY <2>1, <2>2 DEF CompletionsPublished
  <1>13. QuizzesPassed'
    <2>1. ASSUME NEW m \in Quiz, Published(ModuleCompleted(m))'
          PROVE  Published(<<"QuizPass", m>>)'
      <3>1. m \in Module /\ ModuleCompleted(m) \in Fact
        BY ModuleAssumption, FactsTyped
      <3>2. Published(ModuleCompleted(m)) \/ ModuleCompleted(m) \in inserted[w]
        BY <1>3, <2>1, <3>1 DEF Published
      <3>3. Exists(w, <<"QuizPass", m>>)
        BY <1>1, <3>2 DEF RowsAgree, QuizzesPassed, Exists, Published
      <3> QED
        BY <1>8, <3>1, <3>3
    <2>2. ASSUME NEW m \in Quiz, NEW v \in Worker, ModuleCompleted(m) \in inserted'[v]
          PROVE  Exists(v, <<"QuizPass", m>>)'
      <3>1. v # w /\ inserted'[v] = inserted[v] /\ m \in Module
        BY <1>2, <1>6, <2>2, ModuleAssumption
      <3>2. Exists(v, <<"QuizPass", m>>)
        BY <1>1, <2>2, <3>1 DEF RowsAgree, QuizzesPassed
      <3> QED
        BY <1>7, <3>1, <3>2, ForwardFacts
    <2> QED
      BY <2>1, <2>2 DEF QuizzesPassed
  <1>14. CourseEarned'
    <2>1. ASSUME db'[Enrollment].status = "completed", NEW m \in Required, Present(m)'
          PROVE  Published(ModuleCompleted(m))'
      <3>1. m \in Module
        BY ModuleAssumption
      <3>2. Present(Enrollment)
        BY <1>1, <1>4, <2>1 DEF RowsAgree, CourseEarned, Present
      <3>3. Exists(w, ModuleCompleted(m))
        BY <1>1, <1>4, <1>7, <2>1, <3>1, <3>2
           DEF RowsAgree, CourseEarned, ModulesDone, Forward, Exists, Published
      <3> QED
        BY <1>8, <3>1, <3>3
    <2>2. working'[Enrollment].status = "completed" => Present(Enrollment)'
      BY <1>1, <1>4, <1>7 DEF RowsAgree, CourseEarned, Forward
    <2>3. ASSUME NEW v \in Worker, lock'[Enrollment] = v, working'[Enrollment].status = "completed"
          PROVE  ModulesDone(v)'
      <3>1. /\ v # w /\ lock[Enrollment] = v /\ working[Enrollment].status = "completed"
            /\ inserted[v] \subseteq inserted'[v]
        BY <1>4, <1>6, <2>3
      <3>2. ModulesDone(v) /\ Present(Enrollment)
        BY <1>1, <3>1 DEF RowsAgree, CourseEarned
      <3> QED
        BY <1>7, <3>1, <3>2, ForwardModules
    <2> QED
      BY <2>1, <2>2, <2>3 DEF CourseEarned
  <1>15. Certified'
    <2> SUFFICES ASSUME CertificateEnabled
                 PROVE  Certified'
      BY DEF Certified
    <2>1. Certificate \in Fact /\ CourseCompleted \in Fact
      BY DEF Fact, Certificate, CourseCompleted
    <2>2. /\ log[Certificate] = log[CourseCompleted]
          /\ log[CourseCompleted] = IF db[Enrollment].status = "completed" THEN 1 ELSE 0
          /\ \A v \in Worker :
                /\ CourseCompleted \in inserted[v] <=> Certificate \in inserted[v]
                /\ Certificate \in inserted[v] =>
                      /\ lock[Enrollment] = v /\ working[Enrollment].status = "completed"
                      /\ log[Certificate] = 0
                /\ lock[Enrollment] = v /\ Certificate \notin inserted[v] =>
                      working[Enrollment].status = "active" /\ ~Present(Enrollment)
      BY <1>1 DEF RowsAgree, Certified
    <2>3. /\ log'[Certificate] = log'[CourseCompleted]
          /\ log'[CourseCompleted] = IF db'[Enrollment].status = "completed" THEN 1 ELSE 0
      <3>1. CASE Certificate \in inserted[w]
        <4>1. log'[Certificate] = 1 /\ log'[CourseCompleted] = 1
          BY <1>3, <2>1, <2>2, <3>1
        <4>2. db'[Enrollment].status = "completed"
          BY <1>4, <2>2, <3>1
        <4> QED
          BY <4>1, <4>2
      <3>2. CASE Certificate \notin inserted[w]
        <4>1. log'[Certificate] = log[Certificate] /\ log'[CourseCompleted] = log[CourseCompleted]
          BY <1>3, <2>1, <2>2, <3>2
        <4>2. db'[Enrollment].status = "completed" <=> db[Enrollment].status = "completed"
          BY <1>4, <2>2, <3>2 DEF Present
        <4> QED
          BY <2>2, <4>1, <4>2
      <3> QED
        BY <3>1, <3>2
    <2>4. ASSUME NEW v \in Worker, v # w
          PROVE  Certificate \in inserted[v] => Certificate \notin inserted[w]
      BY <2>2, <2>4
    <2>5. ASSUME NEW v \in Worker
          PROVE  /\ CourseCompleted \in inserted'[v] <=> Certificate \in inserted'[v]
                 /\ Certificate \in inserted'[v] =>
                       /\ lock'[Enrollment] = v /\ working'[Enrollment].status = "completed"
                       /\ log'[Certificate] = 0
      <3>1. CASE v = w
        BY <1>2, <3>1
      <3>2. CASE v # w
        <4>1. inserted'[v] = inserted[v]
          BY <1>6, <3>2
        <4>2. Certificate \in inserted[v] => lock'[Enrollment] = v /\ log'[Certificate] = 0
          BY <1>3, <1>4, <2>1, <2>2, <2>4, <3>2
        <4> QED
          BY <1>4, <2>2, <4>1, <4>2
      <3> QED
        BY <3>1, <3>2
    <2>6. ASSUME NEW v \in Worker, lock'[Enrollment] = v, Certificate \notin inserted'[v]
          PROVE  working'[Enrollment].status = "active" /\ ~Present(Enrollment)'
      <3>1. v # w /\ lock[Enrollment] = v /\ Certificate \notin inserted[v]
        BY <1>4, <1>6, <2>6
      <3> QED
        BY <1>4, <2>2, <3>1 DEF Present
    <2> QED
      BY <2>3, <2>5, <2>6 DEF Certified
  <1>16. RowsAgree'
    BY <1>9, <1>10, <1>11, <1>12, <1>13, <1>14, <1>15 DEF RowsAgree
  <1> QED
    BY <1>2, <1>5, <1>7, <1>16

-----------------------------------------------------------------------------
(* Every step of a worker. *)

LEMMA AfterLocalStep ==
  ASSUME IInv, NEW w \in Worker, TypeOK', LocalStep(w)
  PROVE  RowsAgree' /\ Forward /\ OthersKeep(w)
  BY LocalIsQuiet, QuietIsForward, QuietRows DEF IInv, LocalStep

WorkerStep(w) ==
    \/ RequestEnrollment(w)
    \/ \E m \in Module : Heartbeat(w, m) \/ SubmitQuiz(w, m)
    \/ Statement(w) \/ Refuse(w) \/ Lose(w)

LEMMA WorkerStepKeeps ==
  ASSUME IInv, NEW w \in Worker, WorkerStep(w)
  PROVE  TypeOK' /\ RowsAgree' /\ Forward /\ OthersKeep(w) /\ Knows(w)'
  <1>1. CASE RequestEnrollment(w) \/ \E m \in Module : Heartbeat(w, m) \/ SubmitQuiz(w, m)
    BY <1>1, Requested, AfterLocalStep
  <1>2. CASE ReadCourse(w)
    BY <1>2, CourseRead, AfterLocalStep
  <1>3. CASE ReadProgress(w)
    BY <1>3, ProgressRead, AfterLocalStep
  <1>4. CASE CheckPrerequisites(w)
    BY <1>4, PrerequisitesChecked, AfterLocalStep
  <1>5. CASE CountAttempts(w)
    BY <1>5, AttemptsRead, AfterLocalStep
  <1>6. CASE InsertAttempt(w)
    BY <1>6, AttemptInserted, AfterLocalStep
  <1>7. CASE Evaluate(w)
    BY <1>7, Evaluated, AfterLocalStep
  <1>8. CASE CheckQuiz(w)
    BY <1>8, QuizChecked, AfterLocalStep
  <1>9. CASE ReadEnrollment(w)
    BY <1>9, EnrollmentRead, AfterLocalStep
  <1>10. CASE CountModules(w)
    BY <1>10, ModulesCounted, AfterLocalStep
  <1>11. CASE InsertEnrollment(w)
    BY <1>11, EnrollmentWrites
  <1>12. CASE Beat(w)
    BY <1>12, BeatWrites
  <1>13. CASE CompleteModule(w)
    BY <1>13, ModuleCompletes
  <1>14. CASE CompleteCourse(w)
    BY <1>14, CourseCompletes
  <1>15. CASE Fail(w)
    BY <1>15, Failed
  <1>16. CASE Commit(w)
    BY <1>16, Commits
  <1>17. InsertDuplicate(w) \/ EvaluateWithoutRow(w) \/ CertificateExists(w) \/ Refuse(w) \/ Lose(w)
           => Fail(w)
    BY DEF InsertDuplicate, EvaluateWithoutRow, CertificateExists, Refuse, Lose
  <1> QED
    BY <1>1, <1>2, <1>3, <1>4, <1>5, <1>6, <1>7, <1>8, <1>9, <1>10, <1>11, <1>12, <1>13,
       <1>14, <1>15, <1>16, <1>17 DEF WorkerStep, Statement

-----------------------------------------------------------------------------
(* Attempts: a request that has counted is one of at most Cardinality(Worker). *)

LEMMA WorkersCounted ==
  ASSUME NEW A \in SUBSET Worker, NEW B \in SUBSET Worker, A \subseteq B
  PROVE  /\ Cardinality(A) \in Nat /\ Cardinality(B) \in Nat
         /\ Cardinality(A) <= Cardinality(B)
         /\ \A w \in B : w \notin A => Cardinality(A) + 1 <= Cardinality(B)
  <1>1. IsFiniteSet(A) /\ IsFiniteSet(B)
    BY WorkerAssumption, FS_Subset
  <1>2. Cardinality(A) \in Nat /\ Cardinality(B) \in Nat /\ Cardinality(A) <= Cardinality(B)
    BY <1>1, FS_CardinalityType, FS_Subset
  <1>3. ASSUME NEW w \in B, w \notin A
        PROVE  Cardinality(A) + 1 <= Cardinality(B)
    <2>1. A \subseteq B \ {w} /\ IsFiniteSet(B \ {w}) /\ Cardinality(B \ {w}) = Cardinality(B) - 1
      BY <1>1, <1>3, FS_RemoveElement
    <2>2. Cardinality(A) <= Cardinality(B) - 1
      BY <2>1, FS_Subset
    <2> QED
      BY <1>2, <2>2
  <1> QED
    BY <1>2, <1>3

\* The only steps that bring w among those who may add an attempt find one left.
LEMMA AttemptsStep ==
  ASSUME IInv, NEW w \in Worker, NEW m \in Module, OthersKeep(w),
         log'[<<"QuizAttempt", m>>] = log[<<"QuizAttempt", m>>],
         w \in Attempting(m)' => w \in Attempting(m) \/ HasAttemptLeft(m)
  PROVE  log'[<<"QuizAttempt", m>>] + Cardinality(Attempting(m)') < MaxAttempts + Cardinality(Worker)
  <1> DEFINE before == Attempting(m)
             after == Attempting(m)'
             n == log[<<"QuizAttempt", m>>]
  <1>1. before \in SUBSET Worker /\ after \in SUBSET Worker /\ after \subseteq before \cup {w}
    BY DEF Attempting, Submitting, At, OthersKeep
  <1>2. n \in Nat /\ n + Cardinality(before) < MaxAttempts + Cardinality(Worker)
    BY FactsTyped DEF IInv, TypeOK, AttemptsCounted
  <1>3. MaxAttempts \in Nat
    BY CountAssumption
  <1>4. CASE after \subseteq before
    BY <1>1, <1>2, <1>3, <1>4, WorkersCounted
  <1>5. CASE n < MaxAttempts
    <2>1. /\ Cardinality(after) \in Nat /\ Cardinality(Worker) \in Nat
          /\ Cardinality(after) <= Cardinality(Worker)
      BY <1>1, WorkersCounted
    <2> QED
      BY <1>2, <1>3, <1>5, <2>1
  <1> QED
    BY <1>1, <1>4, <1>5 DEF HasAttemptLeft

\* A COMMIT turns what w was about to add into a row.
LEMMA AttemptsCommit ==
  ASSUME IInv, NEW w \in Worker, NEW m \in Module, Commit(w), OthersKeep(w)
  PROVE  log'[<<"QuizAttempt", m>>] + Cardinality(Attempting(m)') < MaxAttempts + Cardinality(Worker)
  <1> DEFINE before == Attempting(m)
             after == Attempting(m)'
             f == <<"QuizAttempt", m>>
  <1>1. f \in Fact /\ TypeOK
    BY FactsTyped DEF IInv
  <1>2. /\ f \notin inserted[w] => log'[f] = log[f]
        /\ log'[f] <= log[f] + 1 /\ log'[f] \in Nat /\ log[f] \in Nat
    BY <1>1, Publishes DEF Commit, TypeOK
  <1>3. pc'[w] = "idle" /\ inserted'[w] = {}
    BY <1>1, DoneTyped DEF Commit
  <1>4. /\ before \in SUBSET Worker /\ after \in SUBSET Worker /\ after \subseteq before
        /\ w \notin after /\ (f \in inserted[w] => w \in before)
    BY <1>3 DEF Attempting, Submitting, At, OthersKeep
  <1>5. log[f] + Cardinality(before) < MaxAttempts + Cardinality(Worker)
    BY DEF IInv, AttemptsCounted
  <1> HIDE DEF before, after, f
  <1>6. /\ Cardinality(after) \in Nat /\ Cardinality(before) \in Nat
        /\ Cardinality(after) <= Cardinality(before)
        /\ w \in before => Cardinality(after) + 1 <= Cardinality(before)
    BY <1>4, WorkersCounted
  <1>7. MaxAttempts \in Nat /\ Cardinality(Worker) \in Nat
    BY CountAssumption, WorkersCounted
  <1>8. log'[f] + Cardinality(after) < MaxAttempts + Cardinality(Worker)
    BY <1>2, <1>4, <1>5, <1>6, <1>7
  <1> QED
    BY <1>8 DEF after, f

\* There is an attempt left, and nobody about to take it or the step notes it.
Alone(m) == HasAttemptLeft(m) /\ (m \notin overlapped' => Attempting(m) = {})

\* Who joins those who may add an attempt has counted the ones there are.
LEMMA AttemptsJoined ==
  ASSUME IInv, NEW w \in Worker, NEW m \in Module, WorkerStep(w), ~Commit(w)
  PROVE  /\ log' = log /\ overlapped \subseteq overlapped'
         /\ w \in Attempting(m)' => w \in Attempting(m) \/ Alone(m)
  <1> DEFINE f == <<"QuizAttempt", m>>
             Joins == w \in Attempting(m)' => w \in Attempting(m) \/ Alone(m)
  <1>0. TypeOK
    BY DEF IInv
  <1>1. ASSUME pc'[w] # "insertAttempt", f \in inserted'[w] => f \in inserted[w]
        PROVE  Joins
    BY <1>1 DEF Attempting, Submitting, At
  <1>2. ASSUME NEW op, NEW n, NEW level, Receive(w, op, n, level)
        PROVE  log' = log /\ overlapped' = overlapped /\ Joins
    BY <1>0, <1>1, <1>2 DEF Receive, Goto, TypeOK
  <1>3. CASE RequestEnrollment(w) \/ \E n \in Module : Heartbeat(w, n) \/ SubmitQuiz(w, n)
    BY <1>2, <1>3 DEF RequestEnrollment, Heartbeat, SubmitQuiz
  <1>4. CASE ReadCourse(w) \/ ReadProgress(w) \/ CheckPrerequisites(w)
    BY <1>0, <1>1, <1>4 DEF ReadCourse, ReadProgress, CheckPrerequisites, Goto, TypeOK
  <1>5. CASE CountAttempts(w)
    <2>1. PICK n : n = req[w].module
      OBVIOUS
    <2>2. /\ HasAttemptLeft(n) /\ UNCHANGED <<log, inserted, req>>
          /\ overlapped' = IF \E v \in Worker : Submitting(v, n)
                           THEN overlapped \cup {n} ELSE overlapped
      BY <1>5, <2>1 DEF CountAttempts
    <2>3. ASSUME w \in Attempting(m)', w \notin Attempting(m)
          PROVE  n = m
      BY <2>1, <2>2, <2>3 DEF Attempting, Submitting, At
    <2> QED
      BY <2>2, <2>3 DEF Attempting, Alone
  <1>6. CASE InsertAttempt(w)
    <2>1. PICK n : n = req[w].module
      OBVIOUS
    <2>2. /\ pc[w] = "insertAttempt" /\ log' = log /\ overlapped' = overlapped
          /\ pc'[w] # "insertAttempt"
          /\ inserted'[w] \subseteq inserted[w] \cup {<<"QuizAttempt", n>>, <<"QuizPass", n>>}
      BY <1>0, <1>6, <2>1 DEF InsertAttempt, At, Insert, Goto, TypeOK
    <2>3. w \in Attempting(n)
      BY <2>1, <2>2 DEF Attempting, Submitting, At
    <2> QED
      BY <1>1, <2>2, <2>3
  <1>7. CASE Evaluate(w) \/ CheckQuiz(w) \/ ReadEnrollment(w) \/ CountModules(w)
    BY <1>0, <1>1, <1>7 DEF Evaluate, CheckQuiz, ReadEnrollment, CountModules, Goto, TypeOK
  <1>8. CASE InsertEnrollment(w) \/ Beat(w)
    BY <1>0, <1>1, <1>8 DEF InsertEnrollment, Beat, Goto, TypeOK
  <1>9. CASE CompleteModule(w) \/ CompleteCourse(w)
    <2>1. PICK n : \/ Insert(w, {ModuleCompleted(n)})
                   \/ Insert(w, {CourseCompleted} \cup IF CertificateEnabled THEN {Certificate} ELSE {})
      BY <1>9 DEF CompleteModule, CompleteCourse
    <2>2. f \in inserted'[w] => f \in inserted[w]
      BY <1>0, <2>1 DEF Insert, TypeOK, ModuleCompleted, CourseCompleted, Certificate
    <2>3. pc'[w] # "insertAttempt" /\ log' = log /\ overlapped' = overlapped
      BY <1>0, <1>9 DEF CompleteModule, CompleteCourse, Goto, TypeOK
    <2> QED
      BY <1>1, <2>2, <2>3
  <1>10. CASE Fail(w)
    BY <1>0, <1>1, <1>10, DoneTyped DEF Fail
  <1>11. InsertDuplicate(w) \/ EvaluateWithoutRow(w) \/ CertificateExists(w) \/ Refuse(w) \/ Lose(w)
           => Fail(w)
    BY DEF InsertDuplicate, EvaluateWithoutRow, CertificateExists, Refuse, Lose
  <1> QED
    BY <1>3, <1>4, <1>5, <1>6, <1>7, <1>8, <1>9, <1>10, <1>11 DEF WorkerStep, Statement

LEMMA WorkerStepCounted ==
  ASSUME IInv, NEW w \in Worker, WorkerStep(w)
  PROVE  AttemptsCounted'
  <1>1. ASSUME NEW m \in Module
        PROVE  log'[<<"QuizAttempt", m>>] + Cardinality(Attempting(m)') < MaxAttempts + Cardinality(Worker)
    <2>1. OthersKeep(w)
      BY WorkerStepKeeps
    <2>2. CASE Commit(w)
      BY <2>1, <2>2, AttemptsCommit
    <2>3. CASE ~Commit(w)
      BY <2>1, <2>3, AttemptsJoined, AttemptsStep DEF Alone
    <2> QED
      BY <2>2, <2>3
  <1> QED
    BY <1>1 DEF AttemptsCounted

LEMMA WorkerStepAlone ==
  ASSUME IInv, NEW w \in Worker, WorkerStep(w)
  PROVE  AttemptsAlone'
  <1> SUFFICES ASSUME NEW m \in Module, m \notin overlapped'
               PROVE  AttemptsLeft(m)'
    BY DEF AttemptsAlone
  <1> DEFINE before == Attempting(m)
             after == Attempting(m)'
             f == <<"QuizAttempt", m>>
  <1>1. OthersKeep(w) /\ TypeOK /\ log[f] \in Nat /\ MaxAttempts \in Nat
    BY WorkerStepKeeps, FactsTyped, CountAssumption DEF IInv, TypeOK
  <1>2. m \notin overlapped => AttemptsLeft(m)
    BY DEF IInv, AttemptsAlone
  <1>3. after \subseteq before \cup {w}
    BY <1>1 DEF Attempting, Submitting, At, OthersKeep
  <1>4. CASE Commit(w)
    <2>1. m \notin overlapped
      BY <1>4 DEF Commit
    <2>2. /\ f \notin inserted[w] => log'[f] = log[f]
          /\ log'[f] <= log[f] + 1 /\ log'[f] \in Nat
      BY <1>1, <1>4, FactsTyped, Publishes DEF Commit, TypeOK
    <2>3. pc'[w] = "idle" /\ inserted'[w] = {}
      BY <1>1, <1>4, DoneTyped DEF Commit
    <2>4. after \subseteq before /\ w \notin after /\ (f \in inserted[w] => w \in before)
      BY <1>3, <2>3 DEF Attempting, Submitting, At
    <2>5. CASE f \in inserted[w]
      <3>1. after = {} /\ log[f] < MaxAttempts
        BY <1>2, <2>1, <2>4, <2>5 DEF AttemptsLeft, HasAttemptLeft
      <3> QED
        BY <1>1, <2>2, <3>1 DEF AttemptsLeft
    <2>6. CASE f \notin inserted[w]
      BY <1>2, <2>1, <2>2, <2>4, <2>6 DEF AttemptsLeft, HasAttemptLeft
    <2> QED
      BY <2>5, <2>6
  <1>5. CASE ~Commit(w)
    <2>1. /\ log' = log /\ m \notin overlapped
          /\ w \in after => w \in before \/ (HasAttemptLeft(m) /\ before = {})
      BY <1>5, AttemptsJoined DEF Alone
    <2>2. AttemptsLeft(m)
      BY <1>2, <2>1
    <2> QED
      BY <1>3, <2>1, <2>2 DEF AttemptsLeft, HasAttemptLeft
  <1> QED
    BY <1>4, <1>5

-----------------------------------------------------------------------------
(* The invariant. *)

LEMMA Initially == Init => IInv
  <1> SUFFICES ASSUME Init
               PROVE  IInv
    OBVIOUS
  <1>1. TypeOK
    BY NoRequestTyped, ManyAssumption DEF Init, TypeOK, Fact
  <1>2. /\ \A r \in Row : db[r] = Absent /\ working[r] = Absent /\ lock[r] = NoWorker
        /\ \A w \in Worker : pc[w] = "idle" /\ inserted[w] = {}
    BY DEF Init
  <1>3. \A f \in Fact : log[f] = 0
    BY DEF Init
  <1>4. Absent.status = "absent" /\ Absent.level = 0
    BY DEF Absent
  <1>5. \A w \in Worker : Knows(w)
    BY <1>2 DEF Knows
  <1>6. Versions /\ RowsFit /\ RowsOfCourse
    BY <1>2, <1>4, WorkerAssumption
       DEF Versions, RowsFit, ModuleRowFits, EnrollmentFits, Begun, RowsOfCourse, Present
  <1>7. CompletionsPublished /\ CourseEarned
    BY <1>2, <1>4 DEF CompletionsPublished, CourseEarned
  <1>8. QuizzesPassed
    BY <1>2, <1>3, FactsTyped, ModuleAssumption DEF QuizzesPassed, Published
  <1>9. Certified
    <2>1. log[Certificate] = 0 /\ log[CourseCompleted] = 0
      BY <1>3 DEF Fact, Certificate, CourseCompleted
    <2> QED
      BY <1>2, <1>4, <2>1, WorkerAssumption DEF Certified
  <1>10. AttemptsCounted
    <2>1. ASSUME NEW m \in Module
          PROVE  log[<<"QuizAttempt", m>>] + Cardinality(Attempting(m)) < MaxAttempts + Cardinality(Worker)
      <3>1. Attempting(m) = {}
        BY <1>2 DEF Attempting, Submitting, At
      <3>2. log[<<"QuizAttempt", m>>] = 0 /\ Cardinality(Attempting(m)) = 0
        BY <1>3, <3>1, FactsTyped, FS_EmptySet
      <3> QED
        BY <3>2, CountAssumption, WorkersCounted
    <2> QED
      BY <2>1 DEF AttemptsCounted
  <1>11. AttemptsAlone
    <2>1. \A m \in Module : Attempting(m) = {} /\ log[<<"QuizAttempt", m>>] = 0
      BY <1>2, <1>3, FactsTyped DEF Attempting, Submitting, At
    <2> QED
      BY <2>1, CountAssumption DEF AttemptsAlone, AttemptsLeft
  <1> QED
    BY <1>1, <1>5, <1>6, <1>7, <1>8, <1>9, <1>10, <1>11 DEF IInv, RowsAgree

LEMMA ModuleAdded ==
  ASSUME IInv, NEW m \in Module, AddModule(m)
  PROVE  IInv'
  <1>1. TypeOK /\ RowsAgree
    BY DEF IInv
  <1>2. course' = course \cup {m} /\ UNCHANGED <<overlapped, tables, log, inserted, locals>>
    BY DEF AddModule
  <1>3. TypeOK'
    BY <1>1, <1>2 DEF TypeOK, tables, locals
  <1>4. QuietStep
    BY <1>2 DEF QuietStep, tables, locals
  <1>5. \A w \in Worker : Knows(w)'
    BY <1>2, <1>4, QuietIsForward, KnowsKept DEF IInv, locals
  <1>6. AttemptsCounted' /\ AttemptsAlone'
    <2>1. \A n \in Module : Attempting(n)' = Attempting(n)
      BY <1>2 DEF Attempting, Submitting, At, locals
    <2>2. log' = log /\ overlapped' = overlapped /\ AttemptsCounted /\ AttemptsAlone
      BY <1>2 DEF IInv
    <2> QED
      BY <2>1, <2>2 DEF AttemptsCounted, AttemptsAlone, AttemptsLeft, HasAttemptLeft
  <1> QED
    BY <1>1, <1>3, <1>4, <1>5, <1>6, QuietRows DEF IInv

LEMMA WorkerStepped ==
  ASSUME IInv, NEW w \in Worker, WorkerStep(w)
  PROVE  IInv'
  <1>1. TypeOK' /\ RowsAgree' /\ Forward /\ OthersKeep(w) /\ Knows(w)'
    BY WorkerStepKeeps
  <1>2. \A v \in Worker : v # w => Knows(v)'
    BY <1>1, KnowsKept DEF IInv, OthersKeep
  <1> QED
    BY <1>1, <1>2, WorkerStepCounted, WorkerStepAlone DEF IInv

LEMMA Stuttered ==
  ASSUME IInv, UNCHANGED vars
  PROVE  IInv'
  <1>1. TypeOK /\ RowsAgree
    BY DEF IInv
  <1>2. UNCHANGED <<course, overlapped, tables, log, inserted, locals>>
    BY DEF vars
  <1>3. TypeOK'
    BY <1>1, <1>2 DEF TypeOK, tables, locals
  <1>4. QuietStep
    BY <1>2 DEF QuietStep, tables, locals
  <1>5. \A w \in Worker : Knows(w)'
    BY <1>2, <1>4, QuietIsForward, KnowsKept DEF IInv, locals
  <1>6. AttemptsCounted' /\ AttemptsAlone'
    <2>1. \A n \in Module : Attempting(n)' = Attempting(n)
      BY <1>2 DEF Attempting, Submitting, At, locals
    <2>2. log' = log /\ overlapped' = overlapped /\ AttemptsCounted /\ AttemptsAlone
      BY <1>2 DEF IInv
    <2> QED
      BY <2>1, <2>2 DEF AttemptsCounted, AttemptsAlone, AttemptsLeft, HasAttemptLeft
  <1> QED
    BY <1>1, <1>3, <1>4, <1>5, <1>6, QuietRows DEF IInv

LEMMA Inductive == IInv /\ [Next]_vars => IInv'
  <1> SUFFICES ASSUME IInv, [Next]_vars
               PROVE  IInv'
    OBVIOUS
  <1>1. CASE \E m \in Module : AddModule(m)
    BY <1>1, ModuleAdded
  <1>2. CASE \E w \in Worker : WorkerStep(w)
    BY <1>2, WorkerStepped
  <1>3. CASE UNCHANGED vars
    BY <1>3, Stuttered
  <1> QED
    BY <1>1, <1>2, <1>3 DEF Next, WorkerStep

\* The invariant behind the theorems: requests know what they have read, and
\* both versions of the rows agree with what has been, or will be, published.
THEOREM Invariant == Spec => []IInv
  BY Initially, Inductive, PTL DEF Spec

-----------------------------------------------------------------------------
(* What follows from it. *)

\* Every variable keeps its type.
THEOREM TypeCorrect == Spec => []TypeOK
  <1>1. IInv => TypeOK
    BY DEF IInv
  <1> QED
    BY <1>1, Invariant, PTL

\* However many requests find the course complete at once, it is completed, and
\* its certificate is issued, once (completeCourse).
THEOREM OneCertificate == Spec => []CertificateMatchesEnrollment
  <1>1. IInv => CertificateMatchesEnrollment
    BY DEF IInv, RowsAgree, Certified, CertificateMatchesEnrollment
  <1> QED
    BY <1>1, Invariant, PTL

\* No course is completed before its required modules, though the modules are
\* counted some statements before the enrolment is updated.
THEOREM CompletedAfterModules == Spec => []CourseCompletedAfterModules
  <1>1. IInv => CourseCompletedAfterModules
    <2> SUFFICES ASSUME IInv, db[Enrollment].status = "completed", NEW m \in Required, db[m] # Absent
                 PROVE  Published(ModuleCompleted(m))
      BY DEF CourseCompletedAfterModules, Published
    <2>1. m \in Module
      BY ModuleAssumption
    <2>2. Present(m)
      <3>1. db[m] \in Progress /\ ModuleRowFits(m, db[m])
        BY <2>1 DEF IInv, TypeOK, RowsAgree, RowsFit
      <3> QED
        BY <3>1 DEF Present, Progress, Absent, ModuleRowFits, Begun
    <2> QED
      BY <2>2 DEF IInv, RowsAgree, CourseEarned
  <1> QED
    BY <1>1, Invariant, PTL

\* No module is begun before its prerequisites are completed, though they are
\* looked at before the transaction, and only for a module not started yet.
THEOREM PrerequisitesRespected == Spec => []PrerequisitesFirst
  <1>1. IInv => PrerequisitesFirst
    BY DEF IInv, RowsAgree, RowsFit, ModuleRowFits, Begun, PrerequisitesDone, Published,
           PrerequisitesFirst
  <1> QED
    BY <1>1, Invariant, PTL

\* No module with a quiz is completed before the quiz is passed.
THEOREM QuizRespected == Spec => []QuizBeforeCompletion
  <1>1. IInv => QuizBeforeCompletion
    BY DEF IInv, RowsAgree, QuizzesPassed, Published, QuizBeforeCompletion
  <1> QED
    BY <1>1, Invariant, PTL

\* Submissions of a quiz that never overlapped keep to its limit of attempts, and
\* overlapping ones exceed it by less than their number.
THEOREM AttemptsLimited == Spec => []AttemptsBounded
  <1>1. IInv => AttemptsBounded
    <2> SUFFICES ASSUME IInv, NEW m \in Quiz
                 PROVE  /\ m \notin overlapped => log[<<"QuizAttempt", m>>] <= MaxAttempts
                        /\ log[<<"QuizAttempt", m>>] < MaxAttempts + Cardinality(Worker)
      BY DEF AttemptsBounded
    <2>1. m \in Module
      BY ModuleAssumption
    <2>2. log[<<"QuizAttempt", m>>] + Cardinality(Attempting(m)) < MaxAttempts + Cardinality(Worker)
      BY <2>1 DEF IInv, AttemptsCounted
    <2>3. log[<<"QuizAttempt", m>>] \in Nat
      BY <2>1, FactsTyped DEF IInv, TypeOK
    <2>4. Attempting(m) \in SUBSET Worker
      BY DEF Attempting, Submitting, At
    <2>5. Cardinality(Attempting(m)) \in Nat /\ Cardinality(Worker) \in Nat
      BY <2>4, WorkersCounted
    <2>6. m \notin overlapped => log[<<"QuizAttempt", m>>] <= MaxAttempts
      BY <2>1 DEF IInv, AttemptsAlone, AttemptsLeft
    <2> QED
      BY <2>2, <2>3, <2>5, <2>6, CountAssumption
  <1> QED
    BY <1>1, Invariant, PTL
=============================================================================
