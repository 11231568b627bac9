SPECIFICATION MCSpec
CONSTANTS
  Chain <- DefaultChain
  Window = 2
  RunTier2 = TRUE
  MaxTurns = 3
INVARIANTS StateAccurate OneDraftStreamed RetryBounded RemembersWhatWasSaid
PROPERTIES ReportsAsPromised TurnEnds
