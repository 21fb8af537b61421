SPECIFICATION Spec
CONSTANTS
  Me = me
  Candidate = {a, b}
  Nil = Nil
  MaxTerm = 2
  MaxLength = 2
  MaxFailures = 2
  MaxCrashes = 1
INVARIANT AckedOnDisk
