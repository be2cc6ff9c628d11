\* Two clients for one slot: the second is refused or reuses the slot.  Sizes
\* that agree, differ, or are not announced.  No symmetry, since a liveness
\* property is checked.
CONSTANTS
  Client = {c1, c2}
  NoClient = NoClient
  MAX_CLIENT_CNT = 1
  Sizes = {0, 1, 2}
  serverSize = 1
SPECIFICATION FairSpec
INVARIANTS SlotHasOneThread NothingLeftAtExit AwaitedKeepSegment
PROPERTY EveryoneEnds
