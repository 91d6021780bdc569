SPECIFICATION PricingSpec
CONSTANTS
  RAY = 10000
  WORD = 131072
  DAY = 4
  ONE_BP = 10
  DayCount <- MCDayCount
  YEAR = 2
  TenorYears <- MCTenorYears
  Curves <- MCCurves
  CurveDates <- MCCurveDates
  Settlement <- MCSettlement
  LastDay <- MCLastDay
  Trades <- MCTrades
  MaxTrades = 2
INVARIANTS
  PricingTypeOK
  PeriodsTile
  RegularPeriodsCountAlike
  DatesFailOnlyAtTheEdges
  MirrorCancels
  BucketsAreLocal
  PortfolioAddsUp
  ParSwapIsFlat
  ThetaForetells
  PayerGainsAsRatesRise
  TwistsMirror
PROPERTY EventuallyBuilt
CHECK_DEADLOCK FALSE
