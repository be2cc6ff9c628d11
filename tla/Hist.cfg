\* Two workers; values in the second bucket and beyond the range.
CONSTANTS
  workers = 2
  Values = {17, 110}
  highest = 100
  sigfigs = 1
  MaxSamples = 2
SPECIFICATION Spec
INVARIANTS
  IntervalsDisjoint NothingOverlooked SummaryExact
  BucketsHoldTheirValues
