\* Two threads with two slots of two sends of two WRs; a size that is no power
\* of two.  A server with less, the same or more room.  The properties
\* are about pairs of WRs, so four in flight are enough.
CONSTANTS
  Ops = {"write", "get", "mixed"}
  size = 6
  ServerSizes = {4, 6, 8}
  MaxInFlight = 4
  threads = 2
  concurrency = 2
  fixed_offset = FALSE
  KV_SENDS_PER_REQ = 2
  KV_MAX_CONCURRENCY = 2
  DATA_WINDOW_PER_THREAD = 4
  SERVER_DATA_WINDOW = 4
SPECIFICATION Spec
INVARIANTS InBounds LandingsDisjoint TargetsDisjointPerWorker LayoutInv
