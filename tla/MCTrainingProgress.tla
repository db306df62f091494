------------------------- MODULE MCTrainingProgress -------------------------
(* Small instances of TrainingProgress for TLC. *)
EXTENDS TrainingProgress, TLC

CONSTANTS intro, capstone, elective, w1, w2

\* The capstone depends on the introduction and has a quiz; the elective is free.
CapstoneNeedsIntro ==
    [m \in Module |-> IF m = capstone THEN {intro} ELSE {}]

\* One more than any property tells apart.
CountUpTo ==
    [ModuleCompleted |-> 1, QuizPass |-> 1, CourseCompleted |-> 2, Certificate |-> 2,
     QuizAttempt |-> MaxAttempts + Cardinality(Worker)]

WorkerSymmetry == Permutations(Worker)
=============================================================================
