\* Two slots; three events in all, so that a slot's generation may wrap.
CONSTANTS
  kSlotCount = 2
  GenLimit = 3
  MaxAcquire = 3
  MaxEvents = 3
SPECIFICATION FairSpec
INVARIANTS
  ResultsAreFaithful AliasOnlyAfterFullCycle PoolInv
PROPERTIES EndedEventsAreInert ImplementsEvents CallsReturn
