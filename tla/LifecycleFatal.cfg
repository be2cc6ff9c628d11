\* A worker's pipeline returned -1 with another request in flight.
CONSTANTS
  Modes = {"client"}
  ports = 1
  lanes = 2
  kMaxPollCr = 1
  MaxArrivals = 1
  MaxFaults = 0
SPECIFICATION Spec
INVARIANT NothingAfterUninit
