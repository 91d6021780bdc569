SPECIFICATION Spec
CONSTANTS
  RAY = 100
  WORD = 4096
  SwapRates <- MCSwapRates
  PaymentDates <- MCPaymentDates
  Frequencies = {1, 2}
  Settlement = 1
  BASIS = 4
  Times = {0, 1, 2, 3, 4, 5, 6, 7, 9, 10, 12, 14, 16}
INVARIANTS
  TypeOK
  FactorsInRange
  RepricesPar
  AnnualAgrees
  RisingRatesHaveForwards
  QuoteBetweenNodes
CHECK_DEADLOCK FALSE
