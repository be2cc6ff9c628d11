\* The drain of the get pipeline, on a run without any trouble.
CONSTANTS
  Ops = {"get"}
  Worker = {w1}
  Lane = {l1, l2}
  NoLane = NoLane
  concurrency = 1
  KV_SENDS_PER_REQ = 2
  KV_WR_PER_SEND = 2
  EventSlots = 4
  PostMayFail = FALSE
  MaxRequests = 2
SPECIFICATION Spec
SYMMETRY LaneSymmetry
INVARIANT CleanRunCountsAll
