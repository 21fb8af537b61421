SPECIFICATION Spec
CONSTANTS
  Empty = Empty
  Text = {k, Empty}
  Key = {k}
  Value = {Empty}
  Server = {n1, n2}
  Seeds = {n1}
  Lost = {n2}
  Nil = Nil
  Missing = Missing
  Torn = Torn
  MaxLog = 2
  MaxRestarts = 1
INVARIANT RestoreIsExact
PROPERTY BackupCatchesUp
