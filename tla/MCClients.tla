------------------------------ MODULE MCClients ------------------------------
(***************************************************************************)
(* Model checking of Clients, from a first leader that has just committed  *)
(* its first write on the smallest majority.                               *)
(***************************************************************************)
EXTENDS Clients, MCRaft

\* A Get that is owed nothing, and a write that can no longer be acknowledged by
\* its leadership, make no difference to what the run checks.
ClientsView ==
  <<ViewWithoutHints, acked, {w \in waiting : SameLeadership(w)}, {g \in gets : g.owed # {}}>>

\* On three nodes: "first" leads term 1, "heard" has stored and acknowledged its
\* entry, nothing has reached the third node, and the client has its answer.
OneWrite(first, heard) ==
  LET entry == At(1, 1)
      On(nodes, x, y) == [i \in Server |-> IF i \in nodes THEN x ELSE y]
  IN
  /\ currentTerm = On(Server, 1, 0)
  /\ votedFor = On(Server, first, Nil)
  /\ log = On({first, heard}, <<entry>>, <<>>)
  /\ chosen = <<[entry |-> entry, at |-> 1]>>
  /\ state = On({first}, "Leader", "Follower")
  /\ currentLeader = On({first, heard}, first, Nil)
  /\ commitIndex = On({first}, 1, 0)
  /\ applied = On({first}, <<entry.cmd>>, <<>>)
  /\ nextIndex = On({first}, On({heard}, 2, 1), On({}, 0, 0))
  /\ matchIndex = On({first}, On({heard}, 1, 0), On({}, 0, 0))
  /\ votes = On({first}, Majority, 0)
  /\ lateTimer = On({}, TRUE, FALSE)
  /\ announced = On({first}, {0}, {})
  /\ voteRequests = {}
  /\ voteReplies = {}
  /\ appendRequests = {}
  /\ appendReplies = {}
  /\ ballots = {[term |-> 1, voter |-> i, candidate |-> first] : i \in Server}
  /\ elected = {[term |-> 1, node |-> first]}
  /\ crashes = 0
  /\ waiting = {}
  /\ acked = {[node |-> first, index |-> 1, term |-> 1, cmd |-> entry.cmd]}
  /\ gets = {}

\* A client that gives up sees nothing it would not have seen, had it waited on: as
\* long as the leadership lasts, nobody does.
Waits(w) == GiveUp(w) => ~SameLeadership(w)

\* Which of the patient nodes leads makes no difference.
MCClientsSpec ==
  /\ LET first == CHOOSE i \in Server : i \notin Impatient
     IN  \E heard \in Server \ {first} : OneWrite(first, heard)
  /\ [][(ClientsNext /\ \A w \in waiting : Waits(w)) \/ (OutOfTerms /\ UNCHANGED clientVars)]_<<vars, clientVars>>
===============================================================================
