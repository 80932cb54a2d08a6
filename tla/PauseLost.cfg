SPECIFICATION FairSpec
CONSTANTS
    f1 = f1
    f2 = f2
    k1 = k1
    k2 = k2
    u1 = u1
    Forms = {f1}
    Workers = {k1, k2}
    first = k1
    Users = {u1}
    MaxFailures = 0
    MaxCrashes = 0
INVARIANT SubmittedFormResumes
CHECK_DEADLOCK FALSE
