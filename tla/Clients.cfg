SPECIFICATION MCClientsSpec
CONSTANTS
  Server = {n1, n2, n3}
  Command = {x}
  Nil = Nil
  Impatient = {n2}
  MaxTerm = 2
  MaxLog = 2
  MaxCrashes = 1
  MaxRequests = 1
  MaxReplies = 1
VIEW ClientsView
INVARIANT SureAckIsChosen
PROPERTY ReadsSeeAcks
