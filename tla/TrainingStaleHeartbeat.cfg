\* Two overlapping requests of a learner: heartbeats that overtake one another.
CONSTANTS
    intro = intro
    capstone = capstone
    elective = elective
    w1 = w1
    w2 = w2
    Worker = {w1, w2}
    NoWorker = NoWorker
    Module = {intro, capstone}
    NoModule = NoModule
    Required = {intro, capstone}
    Prerequisite <- CapstoneNeedsIntro
    Quiz = {capstone}
    MaxAttempts = 1
    Reported = {0, 1, 2}
    CertificateEnabled = TRUE
    Many <- CountUpTo
SPECIFICATION Spec
PROPERTIES WatchedOnlyForward
