CONSTANTS
  Routines = {r1, r2}
  Null = Null
  Unlimited = Unlimited
  MaxRoutines = 2
  Intervals <- MCLiveIntervals
  Iterations <- MCLiveIterations
  Deltas <- MCLiveDeltas
SPECIFICATION FairSpec
PROPERTIES ArmedRuns
