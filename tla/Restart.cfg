SPECIFICATION ColdSpec
CONSTANTS
  Server = {n1, n2, n3}
  Command = {x}
  Nil = Nil
  Impatient = {n1, n2}
  MaxTerm = 3
  MaxLog = 2
  MaxCrashes = 0
  MaxRequests = 1
  MaxReplies = 1
SYMMETRY Symmetry
VIEW View
INVARIANTS LogMatching LeaderCompleteness ElectableHoldsChosen
