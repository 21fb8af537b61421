------------------------------ MODULE RaftSafety ------------------------------
(***************************************************************************)
(* What the consensus core promises, stated over the variables of Raft.    *)
(***************************************************************************)
EXTENDS Raft

\* Every variable holds values of its kind; in particular a message in flight
\* never goes from a node to itself.
TypeOK ==
  /\ currentTerm \in [Server -> Nat]
  /\ votedFor \in [Server -> Server \cup {Nil}]
  /\ log \in [Server -> Seq(Entry)]
  /\ state \in [Server -> {"Follower", "Candidate", "Leader"}]
  /\ currentLeader \in [Server -> Server \cup {Nil}]
  /\ commitIndex \in [Server -> Nat]
  /\ applied \in [Server -> Seq(Command)]
  /\ nextIndex \in [Server -> [Server -> Nat]]
  /\ matchIndex \in [Server -> [Server -> Nat]]
  /\ votes \in [Server -> Nat]
  /\ lateTimer \in [Server -> BOOLEAN]
  /\ announced \in [Server -> SUBSET Nat]
  /\ voteRequests \subseteq VoteRequest
  /\ voteReplies \subseteq VoteReply
  /\ appendRequests \subseteq AppendRequest
  /\ appendReplies \subseteq AppendReply
  /\ ballots \subseteq [term : Nat, voter : Server, candidate : Server]
  /\ elected \subseteq [term : Nat, node : Server]
  /\ chosen \in Seq([entry : Entry, at : Nat])
  /\ crashes \in Nat

\* Storage.LastLogIndex trusts the Index field of an entry and termAtIndexLocked
\* its position: they are the same in every log, and the entries of a request
\* continue at prevLogIndex, whatever was truncated, resent or interrupted.
IndexIsPosition ==
  /\ \A i \in Server : \A k \in DOMAIN log[i] : log[i][k].index = k
  /\ \A m \in appendRequests : \A k \in DOMAIN m.entries :
       m.entries[k].index = m.prevIndex + k

-------------------------------------------------------------------------------
Prefix(l, k) == SubSeq(l, 1, k)

Holds(i, k, entry) == k \in DOMAIN log[i] /\ log[i][k] = entry

\* At most one node ever becomes leader in a term, whatever crashes, restarts
\* and late timers happen between the votes (HandleRequestVote, startElection).
ElectionSafety ==
  \A a, b \in elected : a.term = b.term => a.node = b.node

\* A node never persists votes for two candidates of one term, not even across
\* a restart between them (storage.go: SetTermAndVote).
VoteOnce ==
  \A a, b \in ballots :
    a.term = b.term /\ a.voter = b.voter => a.candidate = b.candidate

\* A follower that names a leader names the one elected in its own term: the
\* answer ClusterStatus gives the proxy is never a usurper.
HintIsElected ==
  \A i \in Server :
    state[i] = "Follower" /\ currentLeader[i] # Nil
      => [term |-> currentTerm[i], node |-> currentLeader[i]] \in elected

\* Two logs that agree on the term at an index agree on everything up to it
\* (the consistency check of HandleAppendEntries with integrateEntriesLocked).
LogMatching ==
  \A i, j \in Server : \A k \in DOMAIN log[i] \cap DOMAIN log[j] :
    log[i][k].term = log[j][k].term => Prefix(log[i], k) = Prefix(log[j], k)

\* A leader holds every entry committed in an earlier term.
LeaderCompleteness ==
  \A i \in Server : \A k \in DOMAIN chosen :
    state[i] = "Leader" /\ chosen[k].at < currentTerm[i]
      => Holds(i, k, chosen[k].entry)

\* No election that a majority would let a node win can lose a committed entry:
\* what maybeAdvanceCommitIndexLocked counts is enough for what the election
\* restriction of HandleRequestVote compares.
ElectableHoldsChosen ==
  \A i \in Server :
    Cardinality({j \in Server :
        UpToDate(LastLogTerm(log[i]), LastLogIndex(log[i]), log[j])}) >= Majority
      => \A k \in DOMAIN chosen : Holds(i, k, chosen[k].entry)

\* A committed entry is on the disks of a majority, and stays there.
ChosenOnMajority ==
  \A k \in DOMAIN chosen :
    Cardinality({i \in Server : Holds(i, k, chosen[k].entry)}) >= Majority

\* The leader never overstates what a peer of its term has stored: late,
\* repeated and reordered replies included (replicateToPeer).
MatchIndexTruthful ==
  \A i, j \in Server :
    state[i] = "Leader" /\ currentTerm[j] = currentTerm[i]
      => /\ matchIndex[i][j] <= Len(log[j])
         /\ Prefix(log[j], matchIndex[i][j]) = Prefix(log[i], matchIndex[i][j])

\* The store holds exactly the commands of the log up to commitIndex: no
\* truncation ever reaches an entry that was applied.
AppliedMatchesLog ==
  \A i \in Server :
    /\ commitIndex[i] <= Len(log[i])
    /\ applied[i] = [k \in 1..commitIndex[i] |-> log[i][k].cmd]

-------------------------------------------------------------------------------
(* Why ElectionSafety holds: what the votes on disk, the vote RPCs in       *)
(* flight and the counters of the candidates have to do with each other.   *)

\* The nodes that ever voted for c in a term.
Supporters(term, c) ==
  {v \in Server : [term |-> term, voter |-> v, candidate |-> c] \in ballots}

\* Those whose favourable answer is still on its way to c.
Underway(term, c) ==
  {v \in Server : \E m \in voteReplies :
     m.src = v /\ m.dst = c /\ m.election = term /\ m.granted}

\* The disk remembers the vote of the current term, and nobody votes, or is
\* voted for, in a term it has not reached.
BallotInv ==
  \A b \in ballots :
    /\ b.term <= currentTerm[b.voter]
    /\ b.term <= currentTerm[b.candidate]
    /\ b.term = currentTerm[b.voter] => votedFor[b.voter] = b.candidate

\* One vote request per election and peer; while a candidate waits for an answer
\* the vote is not on disk yet.
VoteRequestInv ==
  \A m \in voteRequests :
    /\ m.term <= currentTerm[m.src]
    /\ m.awaited => m.dst \notin Supporters(m.term, m.src)
    /\ \A other \in voteRequests :
         other.src = m.src /\ other.dst = m.dst /\ other.term = m.term => other = m

\* A favourable answer stands for a vote on disk.
VoteReplyInv ==
  \A m \in voteReplies :
    /\ m.election <= currentTerm[m.dst]
    /\ m.granted => m.term = m.election /\ m.src \in Supporters(m.election, m.dst)

\* A candidate's counter counts voters whose answer has arrived, each once.
VotesInv ==
  \A i \in Server :
    state[i] = "Candidate" =>
      votes[i] <= Cardinality(Supporters(currentTerm[i], i) \ Underway(currentTerm[i], i))

\* Whoever became leader had a majority.
ElectedInv ==
  \A e \in elected : Cardinality(Supporters(e.term, e.node)) >= Majority

ElectionInv ==
  /\ VoteOnce
  /\ BallotInv
  /\ VoteRequestInv
  /\ VoteReplyInv
  /\ VotesInv
  /\ ElectedInv

-------------------------------------------------------------------------------
\* The log and the stores, seen from above: a replicated log that only grows.
Abstract == INSTANCE ReplicatedLog WITH
  decided <- [k \in DOMAIN chosen |-> chosen[k].entry.cmd]

ImplementsReplicatedLog == Abstract!Spec
===============================================================================
