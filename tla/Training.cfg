\* Two overlapping requests of a learner, two modules, of which one has a quiz.
CONSTANTS
    intro = intro
    capstone = capstone
    elective = elective
    w1 = w1
    w2 = w2
    Worker = {w1, w2}
    NoWorker = NoWorker
    Module = {intro, capstone}
    NoModule = NoModule
    Required = {intro, capstone}
    Prerequisite <- CapstoneNeedsIntro
    Quiz = {capstone}
    MaxAttempts = 1
    Reported = {0, 2}
    CertificateEnabled = TRUE
    Many <- CountUpTo
SPECIFICATION FairSpec
INVARIANTS TypeOK CertificateMatchesEnrollment CourseCompletedAfterModules PrerequisitesFirst QuizBeforeCompletion AttemptsBounded
PROPERTIES EarnedCourseCompletes
