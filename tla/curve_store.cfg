SPECIFICATION FairSpec
CONSTANTS
  Currencies = {9}
  BusinessDates = {1}
  RateVectors <- MCRateVectors
  OtherAccounts <- MCOtherAccounts
  Writings <- MCWritings
  WrittenRates <- MCWrittenRates
  MAX_TENORS = 2
  CHALLENGE_PERIOD = 2
  StartTime = 2
  MaxTime = 7
  MaxEditions = 2
INVARIANTS
  TypeOK
  ActivationWaited
  
  OneVerdictOpen
  StoredIsLastPublished
PROPERTIES
  EventuallyDecided
  ImplementsChallengeWindow
CHECK_DEADLOCK FALSE
