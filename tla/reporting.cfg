SPECIFICATION FairSpec
CONSTANTS
    v1 = v1
    v2 = v2
    v3 = v3
    w1 = w1
    w2 = w2
    s1 = s1
    s2 = s2
    r1 = r1
    r2 = r2
    NoVersion = NoVersion
    Versions = {v1}
    Blank = {}
    Workers = {w1, w2}
    Slots = {s1, s2}
    Host <- TwoWorkers
    Requests = {r1}
    Operations = {}
    Faults = {"redeliver", "workerCrash", "apiRestart"}
    MaxUploads = 1
    MaxFaults = 3
PROPERTIES ApiReportsOutcome
