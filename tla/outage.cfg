SPECIFICATION Spec
CONSTANTS
  upload = upload
  ingest = ingest
  warn = warn
  t1 = t1
  case1 = case1
  case2 = case2
  question = question
  t2 = t2
  Sources <- Emitters
  SourcePipe <- PipeOf
  SourceTrace <- TraceOf
  SourceEntries <- EntriesOf
  WarningSources = {warn}
  Configured = {upload}
  Graceful = {"api"}
  BufferCapacity = 2
  MaxStoreFaults = 2
  MaxCrashes = 1
  TraceRowIds = {1, 2}
  LogRowIds = {3}
  TraceAge = 1
  LogAge = 1
  NoAge = none
  NotListed = notlisted
  MaxRetentionClock = 2
  MaxRetentionFaults = 1
  Writes = {case1, case2, question}
  TraceIdOf <- WriteTraceIds
  WriterThreads = 2
  MaxPools = 2
  Cases <- TwoCases
  MaxEvaluationFaults = 1
  RouterThreads = {1, 2}
  RecheckAfter = 1
  MaxRouterClock = 2

INVARIANTS OutageLosesNothing
CHECK_DEADLOCK FALSE
