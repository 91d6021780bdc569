SPECIFICATION Spec
CONSTANTS
  Currencies = {0}
  BusinessDates = {1}
  RateVectors <- MCRateVectors
  OtherAccounts <- MCOtherAccounts
  Writings <- MCWritings
  WrittenRates <- MCWrittenRates
  MAX_TENORS = 2
  CHALLENGE_PERIOD = 2
  StartTime = 2
  MaxTime = 6
  MaxEditions = 2
PROPERTY ActiveRatesAreFinal
CHECK_DEADLOCK FALSE
