CONSTANTS
  Listeners = {l1, l2}
  Null = Null
  Matchers <- MCMatchers
  SmbSize = 3
  MaxUsed = 4
  MaxDepth = 1
SYMMETRY MCSymmetry
SPECIFICATION Spec
INVARIANT LeadOrder
CHECK_DEADLOCK FALSE
