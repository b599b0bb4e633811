\* A renamed space, whose file has an original-space key.
SPECIFICATION Spec
CONSTANTS
  Nil = Nil
  Documents <- RenamedDocuments
  Ops <- MCOps
  Names <- MCNames
  Options <- MCOptions
  Values = {v}
  MaxBatch = 2
INVARIANTS
  CanonicalOrder
