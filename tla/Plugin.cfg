SPECIFICATION Spec
CONSTANTS
  a = a
  Paths = {a, b, c}
  Listed <- MCListed
  MaxLevels = 2
  MaxNest = 2
  MaxStarts = 2
  MaxObtained = 1
  Managers = {k1, k2}
  Listeners = {h1, h2}
  Names = {1, 2}
  MaxRuns = 2
  MaxShared = 1
  Signals = {g1, g2, g3}
  Hashes = {n1, n2}
  MaxEmits = 1
  MaxKept = 1
  Players = {1}
  Values = {0, 1}
  Headers = {2, 3}
  Tracks <- MCTracks
SYMMETRY MCSymmetry
INVARIANTS PluginTypeOK RunsOnce RunningListed AllStarted DelayedLast NobodyWaitsInVain EventsThere
INVARIANTS UniqueCommands CommandsAgree ContextInnermost
INVARIANTS OneList NothingKept
INVARIANTS OnlineReachable TrackedAsAsked LastIsTold KickedFor
PROPERTIES IteratorsHold NoneLost ReloadAnswered
CHECK_DEADLOCK FALSE
