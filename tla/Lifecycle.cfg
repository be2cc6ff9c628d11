\* Two ports and two lanes to a pool, so that workers can leave none, one or
\* all; a batch of one completion, so that two of them need two batches.
CONSTANTS
  Modes = {"client", "server", "dual_client", "dual_server"}
  ports = 2
  lanes = 2
  kMaxPollCr = 1
  MaxArrivals = 2
  MaxFaults = 1
SPECIFICATION FairSpec
INVARIANTS PollerHasQueue AllReleased DrainedMeansInTime ContextOutlives
PROPERTIES TearDownEnds CompletionsFetched
