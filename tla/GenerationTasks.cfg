SPECIFICATION Spec
CONSTANTS
    t1 = t1
    t2 = t2
    r1 = r1
    r2 = r2
    Tasks <- MCTasks
    Requests <- MCRequests
    MaxJobs = 3
SYMMETRY Symmetry
INVARIANTS
    TypeOK
    PaidStepsStartOnce
    ModelIsOfTheLastStep
    NoJobIsAbandoned
CHECK_DEADLOCK FALSE
