SPECIFICATION FairSpec
CONSTANTS
  Workers = {1, 2, 3, 4}
  Kind <- MCKind
  Threads <- MCThreads
  Host <- MCHost
  Ops = {"o1", "o2", "o3"}
  Targets = {"t", "u"}
  Target <- MCTarget
  Requests <- MCRequests
  Nobody = Nobody
  NoOp = NoOp
INVARIANTS TypeOK IndexExact OneCallAtATime CallsAccounted HeldRamFirst
PROPERTIES CallsSettle
