-------------------------------- MODULE MCRaft --------------------------------
(***************************************************************************)
(* Model checking of Raft on small clusters, from two kinds of states that *)
(* the first start leads to.                                               *)
(***************************************************************************)
EXTENDS RaftSafety, TLC

\* The nodes, and the commands, that differ only in name.
Symmetry ==
  {p \in Permutations(Server) : {p[i] : i \in Impatient} = Impatient}
    \cup Permutations(Command)

\* A request whose caller is gone and whose handler will refuse it is dead.
LiveRequest(m) == m.awaited \/ m.term >= currentTerm[m.dst]

\* So is a vote that will never be counted: terms only grow, and a node is
\* candidate of a term once.
LiveVoteReply(m) == m.term > currentTerm[m.dst] \/ Counts(m)

\* States are told apart by what can still make a difference: not by the
\* replication state of a node that is not leader, the counter of an election
\* that is over, a late timer in the last term, the votes of terms the voter has
\* left, or dead messages.
ViewWithoutHints ==
  <<persistent, state, machine, elected, chosen, crashes,
    {b \in ballots : b.term = currentTerm[b.voter]},
    {m \in voteRequests : LiveRequest(m)},
    {m \in voteReplies : LiveVoteReply(m)},
    {m \in appendRequests : LiveRequest(m)},
    {m \in appendReplies : Relevant(m)},
    [i \in Server |->
       CASE state[i] = "Leader" ->
              <<nextIndex[i], matchIndex[i], announced[i],
                lateTimer[i] /\ currentTerm[i] < MaxTerm>>
         [] state[i] = "Candidate" -> <<votes[i]>>
         [] OTHER -> <<>>]>>

View == <<ViewWithoutHints, currentLeader>>

\* The terms are used up: the cluster would hold further elections here.
OutOfTerms ==
  /\ \A i \in Impatient : currentTerm[i] = MaxTerm
  /\ UNCHANGED vars
-------------------------------------------------------------------------------
\* A whole-cluster restart: every node follower, empty stores, nothing in
\* flight, and the given disks and history.
Restarted(terms, ballot, logs, committed) ==
  /\ currentTerm = terms
  /\ votedFor = ballot
  /\ log = logs
  /\ chosen = committed
  /\ state = [i \in Server |-> "Follower"]
  /\ currentLeader = [i \in Server |-> Nil]
  /\ commitIndex = [i \in Server |-> 0]
  /\ applied = [i \in Server |-> <<>>]
  /\ nextIndex = [i \in Server |-> [j \in Server |-> 0]]
  /\ matchIndex = [i \in Server |-> [j \in Server |-> 0]]
  /\ votes = [i \in Server |-> 0]
  /\ lateTimer = [i \in Server |-> FALSE]
  /\ announced = [i \in Server |-> {}]
  /\ voteRequests = {}
  /\ voteReplies = {}
  /\ appendRequests = {}
  /\ appendReplies = {}
  /\ crashes = 0

At(term, index) == [term |-> term, index |-> index, cmd |-> CHOOSE c \in Command : TRUE]

\* Disks that two terms of work may leave, on three nodes: p led term 1 with
\* r's vote and then lost touch, q led term 2 with r's vote.
Disks ==
  { \* p reached nobody, then q reached nobody.
    [p |-> <<At(1, 1)>>, q |-> <<At(2, 1)>>, r |-> <<>>, chosen |-> <<>>],
    \* p reached nobody, q reached r and may have committed.
    [p |-> <<At(1, 1)>>, q |-> <<At(2, 1)>>, r |-> <<At(2, 1)>>, chosen |-> <<>>],
    [p |-> <<At(1, 1)>>, q |-> <<At(2, 1)>>, r |-> <<At(2, 1)>>,
     chosen |-> <<[entry |-> At(2, 1), at |-> 2]>>],
    \* p's first entry reached q and r, its second nobody; q's reached nobody.
    [p |-> <<At(1, 1), At(1, 2)>>, q |-> <<At(1, 1), At(2, 2)>>, r |-> <<At(1, 1)>>,
     chosen |-> <<[entry |-> At(1, 1), at |-> 1]>>] }

ColdInit ==
  \E p \in Server : \E q \in Server \ {p} : \E d \in Disks :
    /\ Restarted([i \in Server |-> IF i = p THEN 1 ELSE 2],
                 [i \in Server |-> IF i = p THEN p ELSE q],
                 [i \in Server |-> IF i = p THEN d.p ELSE IF i = q THEN d.q ELSE d.r],
                 d.chosen)
    /\ elected = {[term |-> 1, node |-> p], [term |-> 2, node |-> q]}
    /\ ballots = {[term |-> 1, voter |-> i, candidate |-> p] : i \in Server \ {q}}
                   \cup {[term |-> 2, voter |-> i, candidate |-> q] : i \in Server \ {p}}

ColdSpec == ColdInit /\ [][Next \/ OutOfTerms]_vars
-------------------------------------------------------------------------------
\* The first election went smoothly: one node leads term 1 with every vote,
\* nothing is in flight.
WarmInit ==
  \E first \in Server :
    /\ currentTerm = [i \in Server |-> 1]
    /\ votedFor = [i \in Server |-> first]
    /\ log = [i \in Server |-> <<>>]
    /\ chosen = <<>>
    /\ state = [i \in Server |-> IF i = first THEN "Leader" ELSE "Follower"]
    /\ currentLeader = [i \in Server |-> IF i = first THEN first ELSE Nil]
    /\ commitIndex = [i \in Server |-> 0]
    /\ applied = [i \in Server |-> <<>>]
    /\ nextIndex = [i \in Server |-> [j \in Server |-> IF i = first THEN 1 ELSE 0]]
    /\ matchIndex = [i \in Server |-> [j \in Server |-> 0]]
    /\ votes = [i \in Server |-> IF i = first THEN Majority ELSE 0]
    /\ lateTimer = [i \in Server |-> FALSE]
    /\ announced = [i \in Server |-> {}]
    /\ voteRequests = {}
    /\ voteReplies = {}
    /\ appendRequests = {}
    /\ appendReplies = {}
    /\ ballots = {[term |-> 1, voter |-> i, candidate |-> first] : i \in Server}
    /\ elected = {[term |-> 1, node |-> first]}
    /\ crashes = 0

WarmSpec == WarmInit /\ [][Next \/ OutOfTerms]_vars
===============================================================================
