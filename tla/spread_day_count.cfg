SPECIFICATION PricingSpec
CONSTANTS
  RAY = 10000
  WORD = 131072
  DAY = 4
  ONE_BP = 10
  DayCount <- MCDayCount
  YEAR = 2
  TenorYears <- MCTenorYears
  Curves <- MCCurves
  CurveDates <- MCCurveDates
  Settlement <- MCSettlement
  LastDay <- MCLastDay
  Trades <- MCNotes
  MaxTrades = 1
INVARIANT SpreadAccruesByConvention
CHECK_DEADLOCK FALSE
