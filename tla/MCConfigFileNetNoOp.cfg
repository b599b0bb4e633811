\* A batch that adds and then removes the same user.
SPECIFICATION Spec
CONSTANTS
  Nil = Nil
  Documents <- MCDocuments
  Ops <- MCOps
  Names <- MCNames
  Options <- MCOptions
  Values = {v}
  MaxBatch = 2
INVARIANTS
  NetNoOpKeepsBytes
