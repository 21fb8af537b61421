SPECIFICATION Spec
CONSTANTS
  Candidate = {a, b}
  Nil = Nil
  MaxTerm = 2
  MaxLength = 2
INVARIANT StorageInv
PROPERTY ImplementsDurableState
