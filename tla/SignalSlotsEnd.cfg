CONSTANTS
  Listeners = {l1, l2}
  Null = Null
  Matchers <- MCMatchers
  SmbSize = 2
  MaxUsed = 3
  MaxDepth = 2
SYMMETRY MCSymmetry
SPECIFICATION Spec
INVARIANTS EndsAtEnd
CHECK_DEADLOCK FALSE
