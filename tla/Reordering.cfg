SPECIFICATION WarmSpec
CONSTANTS
  Server = {n1, n2, n3}
  Command = {x}
  Nil = Nil
  Impatient = {n1}
  MaxTerm = 1
  MaxLog = 2
  MaxCrashes = 0
  MaxRequests = 2
  MaxReplies = 1
SYMMETRY Symmetry
VIEW View
INVARIANTS MatchIndexTruthful ChosenOnMajority
