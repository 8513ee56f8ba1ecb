SPECIFICATION Spec
CONSTANTS
    Runs = {r1, r2}
    Ops = {o1}
    Worker = worker
    NoRun = none
    MaxGeneration = 2
    MaxQuestions = 1
    MaxTroubles = 1
CHECK_DEADLOCK FALSE
INVARIANT PublicationResumes
