SPECIFICATION Spec
CONSTANTS
  Width = 3
  Periods = 3
  Prices <- ThreePrices
  Caps <- ThreeCaps
  Dt = 6
  Eta = 2
  Power = 7
  Energy = 9
  Energy0 = 4
  Points <- OneVariant
  Factor = 3
  Horizon = 2
  Holding = 2
  Capacity = 20
  Forecasts <- ThreeForecasts
INVARIANT PayloadIsShared
