SPECIFICATION Spec
CONSTANTS
  REQ_STACK_MAX = 128
  Descs <- AllDescs
  StoreMayRefuse = TRUE
  MaxRuns = 3
  MaxUnwaited = 1
  MaxLives = 2
CHECK_DEADLOCK FALSE
INVARIANTS
  TypeOK
  BreakNeedsABrokenPledge
  DefaultStateIsExact
  PartialSurfaceAgrees
  ErrorsReadable
  EpisodeOwnsTransaction
  EpisodeAtomic
  CommitMeansFulfilled
  FulfilledIsDurable
  CommittedOnceWhenFresh
  CleanRowIsTheInstance
PROPERTIES
  BrokenIsTerminal
  DefaultNeverRegresses
