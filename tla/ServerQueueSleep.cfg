\* Two requests and a server that sleeps.
SPECIFICATION FairSpec
CONSTANTS
  Inference = {a, b}
  Metrics = {}
  Main = main
  Worker = worker
  NextResponse = next
  Cancel = cancel
  MaySleep = TRUE
  MayTerminate = FALSE
  MayThrow = FALSE
  MaxYield = 1
PROPERTIES TaskWakes
