SPECIFICATION FairSpec
CONSTANTS
  Banks = {1, 2, 3}
  ProposalTerms = {1, 2}
  ProposalAccounts <- OneAccount
  MaxRounds = 3
INVARIANTS
  TypeOK
  ExecutedByBoth
  ExecutedOnce
PROPERTY EventuallyExecuted
CHECK_DEADLOCK FALSE
