CONSTANTS
    Workers = {w1}
    MaxJobs = 4
    MaxByHand = 1
    MaxFaults = 2
SPECIFICATION FairSpec
INVARIANTS
    TypeOK
    QueuedJobsHaveMessages
    OneRunningJob
PROPERTIES
    EndedJobsStay
    QueuedJobsResolve
