SPECIFICATION Spec
CONSTANTS
    v1 = v1
    v2 = v2
    api = api
    worker = worker
    t1 = t1
    t2 = t2
    t3 = t3
    NoVersion = NoVersion
    Versions = {v1}
    Statuses = {"queued", "indexed", "deleted"}
    Threads = {t1, t2}
    Processes = {api}
    Host <- OneProcess
    MaxAttempts = 5
    MaxSaves = 3
    MaxFaults = 0
INVARIANTS CacheAgreesAtRest
