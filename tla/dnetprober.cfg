SPECIFICATION FairSpec
CONSTANTS
  Pids = {1, 2}
  Plants = {a, b}
  Faults = 1
  None = None
  Report = Report
  Cancelled = Cancelled
INVARIANTS TypeOK OneProberOnRecord WaitsOnHeldBarrier
PROPERTIES RefreshesSettle
CHECK_DEADLOCK FALSE
