\* Any sequence of batches of one or two operations, space and org files.
SPECIFICATION Spec
CONSTANTS
  Nil = Nil
  Documents <- MCDocuments
  Ops <- MCOps
  Names <- MCNames
  Options <- MCOptions
  Values = {v}
  MaxBatch = 2
INVARIANTS
  DocOK
  CanonicalOrder
  ExactMembers
  OthersIntact
  NoOpSignal
