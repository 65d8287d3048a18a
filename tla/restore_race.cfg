SPECIFICATION Spec
CONSTANTS
    v1 = v1
    v2 = v2
    v3 = v3
    w1 = w1
    w2 = w2
    s1 = s1
    s2 = s2
    r1 = r1
    r2 = r2
    NoVersion = NoVersion
    Versions = {v1, v2}
    Blank = {}
    Workers = {w1}
    Slots = {s1}
    Host <- OneWorker
    Requests = {r1}
    Operations = {"replace", "restore"}
    Faults = {"idleRestart"}
    MaxUploads = 2
    MaxFaults = 1
INVARIANTS RecordAgreesWithIndex
