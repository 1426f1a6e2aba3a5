SPECIFICATION Spec
CONSTANTS
  Assets = {x1}
  Callers = {c1, c2}
  Workers = {w1, w2}
  Fields = {f1}
  NoCall = NoCall
  NoRun = NoRun
  NoReference = NoReference
SYMMETRY AssetSymmetry
INVARIANTS ActiveHasObject LinkedIsKept DeletedHasNoObject UnsettledIsBacked
CHECK_DEADLOCK FALSE
