CONSTANTS
  Tasks = {t1, t2}
  Entities = {e1, e2}
  Funcs = {f1, f2}
  Null = Null
  Unlimited = Unlimited
  MaxTasks = 2
  Intervals <- MCIntervals
  Iterations <- MCIterations
  Deltas <- MCDeltas
SYMMETRY MCSymmetry
SPECIFICATION Spec
INVARIANTS TypeOK BoundToPresent OwnArguments
PROPERTIES KeepsService KeepsEntities
