SPECIFICATION Spec
CONSTANTS
  Term = {1, 2, 3}
  MaxLength = 3
  Empty = Empty
  Text = {v, Empty}
INVARIANTS
  ResultIsIntegrateEntries
  DiskIsAnticipated
  AgreementSurvives
CHECK_DEADLOCK FALSE
