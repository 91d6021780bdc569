SPECIFICATION Spec
CONSTANTS
  Reconcilers <- MCReconcilers
  Dates = {1}
  Batches <- MCBatches
  Writings <- MCWritings
  MAX_RECON_TRADES = 2
INVARIANTS
  TypeOK
  SubmissionsKept
  VerdictOfLastBatches
  MatchesWereCommitted
CHECK_DEADLOCK FALSE
