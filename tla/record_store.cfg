SPECIFICATION FairSpec
CONSTANTS
    v1 = v1
    v2 = v2
    api = api
    worker = worker
    t1 = t1
    t2 = t2
    t3 = t3
    NoVersion = NoVersion
    Versions = {v1, v2}
    Statuses = {"queued", "indexed", "deleted"}
    Threads = {t1, t3}
    Processes = {api, worker}
    Host <- TwoProcesses
    MaxAttempts = 2
    MaxSaves = 3
    MaxFaults = 1
INVARIANTS CacheWasCommitted ConflictsAreWrites
PROPERTIES ImplementsContract CallsReturn
