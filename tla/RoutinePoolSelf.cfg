CONSTANTS
  Routines = {r1, r2}
  Null = Null
  Unlimited = Unlimited
  MaxRoutines = 2
  Intervals <- MCIntervals
  Iterations <- MCIterations
  Deltas <- MCDeltas
SPECIFICATION Spec
PROPERTIES DestroysItself
