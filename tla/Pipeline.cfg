\* One worker with two overlapping requests, each one send of two WRs.  The
\* pool has the lanes run_client gives one worker.  No symmetry, since a
\* liveness property is checked.
CONSTANTS
  Ops = {"write", "get"}
  Worker = {w1}
  Lane = {l1, l2}
  NoLane = NoLane
  concurrency = 2
  KV_SENDS_PER_REQ = 1
  KV_WR_PER_SEND = 2
  EventSlots = 4
  PostMayFail = TRUE
  MaxRequests = 3
SPECIFICATION FairSpec
INVARIANTS
  IdleLaneQuiet SlotsAccounted EventsSuffice OpsEarned CleanWriteCountsAll
PROPERTY StopsWhenTold
