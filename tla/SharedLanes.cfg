\* Two workers with up to two requests of two sends compete for three lanes.
CONSTANTS
  Ops = {"write", "get"}
  Worker = {w1, w2}
  Lane = {l1, l2, l3}
  NoLane = NoLane
  concurrency = 2
  KV_SENDS_PER_REQ = 2
  KV_WR_PER_SEND = 1
  EventSlots = 4
  PostMayFail = TRUE
  MaxRequests = 2
SPECIFICATION Spec
SYMMETRY LaneSymmetry
INVARIANTS LaneExclusive LanesKept OneLateRequest
