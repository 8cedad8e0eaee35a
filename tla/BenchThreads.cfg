SPECIFICATION FairSpec
CONSTANTS
    NumThreads = 2
    Programs = {"Redis", "Memcached"}
    Times = {0, 1, 2}
    MaxOps = 3
INVARIANTS
    TypeOK
    CountsTogether
    RequestsAreSampled
    SamplesAreOwn
    ReportIsComplete
PROPERTY
    ProgramEnds
CHECK_DEADLOCK FALSE
