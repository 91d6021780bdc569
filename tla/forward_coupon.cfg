SPECIFICATION CouponSpec
CONSTANTS
  RAY = 100
  WORD = 65536
  DAY_BASIS = 4
  Publications <- MCPublications
  MaxFixings = 2
  Banks = {1, 2, 3}
  Books <- MCOneSwap
  RateCurves <- MCRateCurves
  PaymentDates = {4, 8}
  YearOf <- MCYearOf
INVARIANT CouponIsCompounded
CHECK_DEADLOCK FALSE
