\* Four requests, one of them for metrics; sleeping, termination, exceptions.
SPECIFICATION FairSpec
CONSTANTS
  Inference = {a, b, c}
  Metrics = {m}
  Main = main
  Worker = worker
  NextResponse = next
  Cancel = cancel
  MaySleep = TRUE
  MayTerminate = TRUE
  MayThrow = TRUE
  MaxYield = 2
INVARIANTS HandlersExclude TasksInOrder SleepsIdle
PROPERTIES Handled TerminateEnds
