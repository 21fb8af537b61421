-------------------------------- MODULE Progress --------------------------------
(***************************************************************************)
(* What the consensus core gets done once failures are over: fairness for  *)
(* Raft, and the liveness it is enough for.  A minority of the nodes may   *)
(* be dead.                                                                *)
(***************************************************************************)
EXTENDS MCRaft

CONSTANT Dead   \* the nodes that are gone for good

Alive == Server \ Dead

ASSUME DeadAssumption == Dead \subseteq Server /\ Cardinality(Alive) >= Majority

\* electionLoop: the timer of a node that hears from no leader expires.
ElectionLoop(i) == StartElection(i)

\* runLeaderReplicationLoop: the ticker of a leader ticks.
ReplicationLoop(i) == Broadcast(i)

\* The goroutine that the latest broadcast spawned for j comes to its turn.
Send(i, j) == ReplicateToPeer(i, j, commitIndex[i])

\* What Send sends, and what comes back for it.
UpToDateRequest(i, j, m) ==
  /\ m.src = i /\ m.dst = j
  /\ m.term = currentTerm[i]
  /\ m.prevIndex = nextIndex[i][j] - 1
  /\ m.prevIndex + Len(m.entries) = LastLogIndex(log[i])
  /\ m.commit = commitIndex[i]

Deliver(i, j) ==
  \E m \in appendRequests : UpToDateRequest(i, j, m) /\ HandleAppendEntries(m)

Return(i, j) ==
  \E m \in appendReplies : m.src = j /\ m.dst = i /\ Current(m) /\ HandleAppendReply(m)

\* rpcTimeout: no request and no reply is under way forever.
ExpireRequest(i, j) ==
  \E m \in appendRequests : m.src = i /\ m.dst = j /\ LoseAppendRequest(m)

ExpireReply(i, j) ==
  \E m \in appendReplies : m.src = j /\ m.dst = i /\ LoseAppendReply(m)

\* Timers expire, tickers tick and calls time out; votes, which are asked for once,
\* arrive; an AppendEntries that is sent again and again gets through in the end.
Fairness ==
  /\ \A i \in Alive :
       /\ WF_vars(ElectionLoop(i)) /\ WF_vars(ReplicationLoop(i))
       /\ \A j \in Alive \ {i} :
            /\ WF_vars(\E m \in voteRequests : m.dst = i /\ m.src = j /\ HandleRequestVote(m))
            /\ WF_vars(\E m \in voteReplies : m.dst = i /\ m.src = j /\ HandleVoteReply(m))
            /\ WF_vars(ExpireRequest(i, j)) /\ WF_vars(ExpireReply(i, j))
            /\ SF_vars(Send(i, j)) /\ SF_vars(Deliver(i, j)) /\ SF_vars(Return(i, j))

\* A whole-cluster restart over diverged disks, but for the dead nodes; a node
\* whose timer expires can win the votes of the others that live.
FairInit ==
  /\ ColdInit
  /\ \A i \in Impatient : \A j \in Alive :
       UpToDate(LastLogTerm(log[i]), LastLogIndex(log[i]), log[j])

\* Dead nodes handle nothing, and what would be sent to them is lost.
DeadAreSilent ==
  /\ \A m \in appendRequests' : m.dst \in Alive
  /\ \A m \in voteReplies' : m.src \in Alive

FairSpec == FairInit /\ [][Next /\ DeadAreSilent]_vars /\ Fairness
-------------------------------------------------------------------------------
\* A leader is found, and the log of every node becomes its log, however far they
\* had diverged: nextIndex reaches the point of agreement (startElection,
\* replicateToPeer, integrateEntriesLocked).
LogsConverge ==
  <>[](\E i \in Alive : state[i] = "Leader" /\ \A j \in Alive : log[j] = log[i])

\* If the leader has an entry of its own term, everything in its log is executed
\* on every node that lives; before, the entries of earlier terms may wait
\* (maybeAdvanceCommitIndexLocked, HandleAppendEntries).
ExecutedEverywhere ==
  <>[](\A i \in Alive :
         state[i] = "Leader" /\ LastLogTerm(log[i]) = currentTerm[i]
           => \A j \in Alive : applied[j] = [k \in DOMAIN log[i] |-> log[i][k].cmd])
===============================================================================
