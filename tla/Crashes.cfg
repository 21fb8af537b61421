SPECIFICATION WarmSpec
CONSTANTS
  Server = {n1, n2, n3}
  Command = {x, y}
  Nil = Nil
  Impatient = {n1, n2}
  MaxTerm = 2
  MaxLog = 1
  MaxCrashes = 1
  MaxRequests = 1
  MaxReplies = 1
SYMMETRY Symmetry
VIEW View
INVARIANTS TypeOK IndexIsPosition AppliedMatchesLog ElectionSafety VoteOnce HintIsElected
PROPERTY ImplementsReplicatedLog
