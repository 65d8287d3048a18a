SPECIFICATION TurnsSpec
CONSTANTS
    v1 = v1
    v2 = v2
    v3 = v3
    w1 = w1
    w2 = w2
    s1 = s1
    s2 = s2
    r1 = r1
    r2 = r2
    NoVersion = NoVersion
    Versions = {v1, v2, v3}
    Blank = {}
    Workers = {w1, w2}
    Slots = {s1, s2}
    Host <- TwoWorkers
    Operations = {"replace", "restore"}
    MaxUploads = 3
    Requests = {r1, r2}
    Faults = {"stage", "idleRestart"}
    MaxFaults = 4
SYMMETRY AnyUsers
INVARIANTS PublishedVersionSearchable RecordAgreesWithIndex
