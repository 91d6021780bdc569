SPECIFICATION SwapSpec
CONSTANTS
  Currencies = {0}
  BusinessDates = {1}
  RateVectors <- MCRateVectors
  OtherAccounts <- NoOtherAccounts
  Writings <- MCWritings
  WrittenRates <- MCWrittenRates
  MAX_TENORS = 2
  CHALLENGE_PERIOD = 1
  StartTime = 1
  MaxTime = 5
  MaxEditions = 2
  Deals <- OneDeal
  Economics = {1, 2}
  SwapCurrencies = {0, 5, 8}
  Settlements = {4}
  Schedules <- MCSchedules
  Unsolvable <- MCUnsolvable
  SwapWritings <- MCSwapWritings
  MAX_PAYMENTS = 2
INVARIANTS
  SwapTypeOK
  MarkedOffSettledRates
  MarkIsOfStoredTerms
CHECK_DEADLOCK FALSE
