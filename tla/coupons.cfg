SPECIFICATION CouponSpec
CONSTANTS
  RAY = 100
  WORD = 65536
  DAY_BASIS = 4
  Publications <- MCPublications
  MaxFixings = 3
  Banks = {1, 2, 3}
  Books <- MCBooks
  RateCurves <- MCRateCurves
  PaymentDates = {4, 8}
  YearOf <- MCYearOf
INVARIANTS
  CouponTypeOK
  FixingsKept
  PeriodsCompose
  NetsConserved
CHECK_DEADLOCK FALSE
