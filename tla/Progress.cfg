SPECIFICATION FairSpec
CONSTANTS
  Server = {n1, n2, n3}
  Command = {x}
  Nil = Nil
  Impatient = {n1}
  Dead = {n3}
  MaxTerm = 3
  MaxLog = 3
  MaxCrashes = 0
  MaxRequests = 1
  MaxReplies = 1
PROPERTIES LogsConverge ExecutedEverywhere
