SPECIFICATION Spec
CONSTANTS
  Request = {r1, r2}
  Address = {a, b}
  Nil = Nil
  FailureThreshold = 2
  ResetTimeout = 2
  Seeds = {a}
  MaxRetries = 2
  Winner = b
INVARIANT CountsFailures
PROPERTIES OpensAfterThreshold UsesBreakers FailsForAReason ServesInTheEnd
