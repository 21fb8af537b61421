--------------------------------- MODULE Raft ---------------------------------
(***************************************************************************)
(* The consensus core of the store, internal/raft/node.go: leader          *)
(* election, log replication, commitment, application to the state         *)
(* machine, and the crash and restart of a node over its persisted state   *)
(* (internal/raftlog).  An action is one critical section under Node.mu:   *)
(* the code releases the lock before every RPC and takes it again for the  *)
(* answer, and the state it acts on then may have changed.                 *)
(*                                                                         *)
(* The definitions marked as mutants are plausible mistakes; no other      *)
(* definition uses them.  Model checking puts each in the place of the     *)
(* definition that follows it to show that a property would notice.        *)
(*                                                                         *)
(* Persisting never fails here.  No-op entries, membership changes and log *)
(* compaction do not exist in the code.                                    *)
(***************************************************************************)
EXTENDS RaftLog

CONSTANTS
  Server,       \* the keys of cfg.Peers, the same on every node, itself included
  Command,      \* what clients propose
  Nil,          \* the "" of votedFor and currentLeader
  Impatient,    \* bound: the nodes whose election timer may ever expire
  MaxTerm,      \* bound: no election starts beyond this term
  MaxLog,       \* bound: a leader proposes no entry beyond this index
  MaxCrashes,   \* bound: crashes in a behaviour
  MaxRequests,  \* bound: AppendEntries requests in flight that may have an effect
  MaxReplies    \* bound: AppendEntries replies in flight that may have an effect

ASSUME ServerAssumption == IsFiniteSet(Server)
ASSUME NilAssumption == Nil \notin Server
ASSUME BoundAssumption ==
  /\ Impatient \subseteq Server
  /\ MaxTerm \in Nat
  /\ MaxLog \in Nat
  /\ MaxCrashes \in Nat
  /\ MaxRequests \in Nat
  /\ MaxReplies \in Nat

VARIABLES
  \* Persisted by raftlog.Storage.
  currentTerm, votedFor, log,
  \* Volatile, in Node; applied[i] is the sequence of commands that reached
  \* the kvstore since the process started, so lastApplied is its length.
  state, currentLeader, commitIndex, applied, nextIndex, matchIndex,
  \* Volatile, in the goroutines of Node.
  votes,       \* the counter shared by the vote requests of one election
  lateTimer,   \* electionLoop saw "not leader" and startElection has not locked yet
  announced,   \* the commit indexes broadcastAppendEntries captured in this leadership
  \* RPCs in flight.
  voteRequests, voteReplies, appendRequests, appendReplies,
  \* History; only "crashes" appears in a guard, to bound it.
  ballots,     \* every vote ever persisted
  elected,     \* every (term, node) that became leader
  chosen,      \* what leaders committed, with the term they did it in
  crashes      \* how many crashes there were

persistent == <<currentTerm, votedFor, log>>
role       == <<state, currentLeader>>
machine    == <<commitIndex, applied>>
leaderVars == <<nextIndex, matchIndex>>
goroutines == <<votes, lateTimer, announced>>
voteRPC    == <<voteRequests, voteReplies>>
appendRPC  == <<appendRequests, appendReplies>>
history    == <<ballots, elected, chosen, crashes>>
vars == <<persistent, role, machine, leaderVars, goroutines, voteRPC, appendRPC, history>>

\* len(n.peers)/2 + 1
Majority == Cardinality(Server) \div 2 + 1

Entry == [term : Nat, index : Nat, cmd : Command]

VoteRequest ==
  [src : Server, dst : Server, term : Nat, lastIndex : Nat, lastTerm : Nat,
   awaited : BOOLEAN]

\* "election" is the newTerm the waiting goroutine remembers.
VoteReply ==
  [src : Server, dst : Server, term : Nat, election : Nat, granted : BOOLEAN]

AppendRequest ==
  [src : Server, dst : Server, term : Nat, prevIndex : Nat, prevTerm : Nat,
   entries : Seq(Entry), commit : Nat, awaited : BOOLEAN]

\* "call" and "match" are what the waiting goroutine remembers: the term it was
\* spawned with and prevLogIndex + len(entries).
AppendReply ==
  [src : Server, dst : Server, term : Nat, call : Nat, match : Nat,
   success : BOOLEAN]

Init ==
  /\ currentTerm = [i \in Server |-> 0]
  /\ votedFor = [i \in Server |-> Nil]
  /\ log = [i \in Server |-> <<>>]
  /\ state = [i \in Server |-> "Follower"]
  /\ currentLeader = [i \in Server |-> Nil]
  /\ commitIndex = [i \in Server |-> 0]
  /\ applied = [i \in Server |-> <<>>]
  /\ nextIndex = [i \in Server |-> [j \in Server |-> 0]]
  /\ matchIndex = [i \in Server |-> [j \in Server |-> 0]]
  /\ votes = [i \in Server |-> 0]
  /\ lateTimer = [i \in Server |-> FALSE]
  /\ announced = [i \in Server |-> {}]
  /\ voteRequests = {}
  /\ voteReplies = {}
  /\ appendRequests = {}
  /\ appendReplies = {}
  /\ ballots = {}
  /\ elected = {}
  /\ chosen = <<>>
  /\ crashes = 0
-------------------------------------------------------------------------------
(* Helpers, each the body of a function of node.go or storage.go.          *)

SetTermAndVote(i, term, vote) ==
  /\ currentTerm' = [currentTerm EXCEPT ![i] = term]
  /\ votedFor' = [votedFor EXCEPT ![i] = vote]

\* (Mutant: a message of the current term frees the vote.)
VoteForgotten(i, term) == IF term >= currentTerm[i] THEN Nil ELSE votedFor[i]

\* The vote a node has left once it has moved to "term".
VoteIn(i, term) == IF term > currentTerm[i] THEN Nil ELSE votedFor[i]

\* (Mutant: the hint about the leader is not cleared.)
BecomeFollowerKeepingHint(i, term, leader) ==
  /\ SetTermAndVote(i, term, VoteIn(i, term))
  /\ state' = [state EXCEPT ![i] = "Follower"]
  /\ currentLeader' = [currentLeader EXCEPT ![i] = IF leader = Nil THEN @ ELSE leader]

\* becomeFollowerLocked; HandleAppendEntries then sets the leader, the other
\* callers leave "".  Every caller has term >= currentTerm[i].
BecomeFollower(i, term, leader) ==
  /\ SetTermAndVote(i, term, VoteIn(i, term))
  /\ state' = [state EXCEPT ![i] = "Follower"]
  /\ currentLeader' = [currentLeader EXCEPT ![i] = leader]

\* becomeLeaderLocked.  The election timer may have passed its "not leader"
\* check before this critical section and be waiting for the lock.
BecomeLeader(i) ==
  /\ state' = [state EXCEPT ![i] = "Leader"]
  /\ currentLeader' = [currentLeader EXCEPT ![i] = i]
  /\ nextIndex' = [nextIndex EXCEPT ![i] = [j \in Server |-> LastLogIndex(log[i]) + 1]]
  /\ matchIndex' = [matchIndex EXCEPT ![i] = [j \in Server |-> 0]]
  /\ announced' = [announced EXCEPT ![i] = {}]
  /\ \E late \in BOOLEAN : lateTimer' = [lateTimer EXCEPT ![i] = late]
  /\ elected' = elected \cup {[term |-> currentTerm[i], node |-> i]}

\* commitIndex moves to "commit" and applyCommittedLocked feeds the store the
\* entries of l between lastApplied and it.
CommitAndApply(i, commit, l) ==
  /\ commitIndex' = [commitIndex EXCEPT ![i] = commit]
  /\ applied' = [applied EXCEPT ![i] =
                   @ \o [k \in 1..(commit - Len(@)) |-> l[Len(@) + k].cmd]]

\* (Mutant: entries of earlier terms are committed by counting replicas.)
CommittableAnyTerm(i, match) ==
  {N \in (commitIndex[i] + 1)..Len(log[i]) :
     1 + Cardinality({j \in Server \ {i} : match[j] >= N}) >= Majority}

\* (Mutant: a peer has stored only what is below its matchIndex.)
CommittableBelowMatch(i, match) ==
  {N \in (commitIndex[i] + 1)..Len(log[i]) :
     /\ log[i][N].term = currentTerm[i]
     /\ 1 + Cardinality({j \in Server \ {i} : match[j] > N}) >= Majority}

\* The indexes maybeAdvanceCommitIndexLocked may move to, once matchIndex[i] is
\* "match".
Committable(i, match) ==
  {N \in (commitIndex[i] + 1)..Len(log[i]) :
     /\ log[i][N].term = currentTerm[i]
     /\ 1 + Cardinality({j \in Server \ {i} : match[j] >= N}) >= Majority}

Newly(i, commit) ==
  [k \in 1..(commit - Len(chosen)) |->
     [entry |-> log[i][Len(chosen) + k], at |-> currentTerm[i]]]

\* maybeAdvanceCommitIndexLocked: the largest such index, if there is one.
MaybeAdvanceCommitIndex(i, match) ==
  \/ /\ Committable(i, match) = {}
     /\ UNCHANGED <<machine, chosen>>
  \/ \E N \in Committable(i, match) :
       /\ \A other \in Committable(i, match) : other <= N
       /\ CommitAndApply(i, N, log[i])
       /\ chosen' = chosen \o Newly(i, N)
-------------------------------------------------------------------------------
(* Election.                                                               *)

\* electionLoop times out and startElection runs.  The loop checks State()
\* under one lock and startElection takes another, so the node may be Leader by
\* now.  currentLeader keeps its old value.
StartElection(i) ==
  /\ i \in Impatient
  /\ state[i] # "Leader" \/ lateTimer[i]
  /\ currentTerm[i] < MaxTerm
  /\ SetTermAndVote(i, currentTerm[i] + 1, i)
  /\ state' = [state EXCEPT ![i] = "Candidate"]
  /\ votes' = [votes EXCEPT ![i] = 1]
  /\ lateTimer' = [lateTimer EXCEPT ![i] = FALSE]
  /\ voteRequests' = voteRequests \cup
       {[src |-> i, dst |-> j, term |-> currentTerm[i] + 1,
         lastIndex |-> LastLogIndex(log[i]), lastTerm |-> LastLogTerm(log[i]),
         awaited |-> TRUE] : j \in Server \ {i}}
  /\ ballots' = ballots \cup {[term |-> currentTerm[i] + 1, voter |-> i, candidate |-> i]}
  /\ UNCHANGED <<log, currentLeader, machine, leaderVars, announced, voteReplies,
                 appendRPC, elected, chosen, crashes>>

\* The handler answers: the request is spent, and the reply travels unless the
\* caller died meanwhile.
AnswerVote(m, term, granted) ==
  /\ voteRequests' = voteRequests \ {m}
  /\ voteReplies' = IF m.awaited
                    THEN voteReplies \cup
                           {[src |-> m.dst, dst |-> m.src, term |-> term,
                             election |-> m.term, granted |-> granted]}
                    ELSE voteReplies

CanGrant(m) ==
  /\ VoteIn(m.dst, m.term) \in {Nil, m.src}
  /\ UpToDate(m.lastTerm, m.lastIndex, log[m.dst])

\* HandleRequestVote, rule 1.
RejectStaleCandidate(m) ==
  /\ m.term < currentTerm[m.dst]
  /\ AnswerVote(m, currentTerm[m.dst], FALSE)
  /\ UNCHANGED <<persistent, role, machine, leaderVars, goroutines, appendRPC, history>>

\* HandleRequestVote, rules 2 and 3: a newer term is adopted even if the vote is
\* then refused.
DenyVote(m) ==
  /\ m.term >= currentTerm[m.dst]
  /\ ~CanGrant(m)
  /\ IF m.term > currentTerm[m.dst]
     THEN BecomeFollower(m.dst, m.term, Nil)
     ELSE UNCHANGED <<currentTerm, votedFor, role>>
  /\ AnswerVote(m, m.term, FALSE)
  /\ UNCHANGED <<log, machine, leaderVars, goroutines, appendRPC, history>>

\* HandleRequestVote, all rules satisfied.
GrantVote(m) ==
  /\ m.term >= currentTerm[m.dst]
  /\ CanGrant(m)
  /\ SetTermAndVote(m.dst, m.term, m.src)
  /\ IF m.term > currentTerm[m.dst]
     THEN /\ state' = [state EXCEPT ![m.dst] = "Follower"]
          /\ currentLeader' = [currentLeader EXCEPT ![m.dst] = Nil]
     ELSE UNCHANGED role
  /\ ballots' = ballots \cup {[term |-> m.term, voter |-> m.dst, candidate |-> m.src]}
  /\ AnswerVote(m, m.term, TRUE)
  /\ UNCHANGED <<log, machine, leaderVars, goroutines, appendRPC, elected, chosen, crashes>>

\* The goroutine of startElection that waits for this reply.  Every branch
\* consumes it: one call, one answer.
StepDownOnVoteReply(m) ==
  /\ m.term > currentTerm[m.dst]
  /\ BecomeFollower(m.dst, m.term, Nil)
  /\ voteReplies' = voteReplies \ {m}
  /\ UNCHANGED <<log, machine, leaderVars, goroutines, voteRequests, appendRPC, history>>

\* The reply is a vote for the election the node is still in.
Counts(m) ==
  /\ m.term <= currentTerm[m.dst]
  /\ state[m.dst] = "Candidate"
  /\ currentTerm[m.dst] = m.election
  /\ m.granted

IgnoreVoteReply(m) ==
  /\ m.term <= currentTerm[m.dst]
  /\ ~Counts(m)
  /\ voteReplies' = voteReplies \ {m}
  /\ UNCHANGED <<persistent, role, machine, leaderVars, goroutines, voteRequests,
                 appendRPC, history>>

CountVote(m) ==
  /\ Counts(m)
  /\ votes' = [votes EXCEPT ![m.dst] = @ + 1]
  /\ voteReplies' = voteReplies \ {m}
  /\ IF votes[m.dst] + 1 >= Majority
     THEN BecomeLeader(m.dst)
     ELSE UNCHANGED <<role, leaderVars, lateTimer, announced, elected>>
  /\ UNCHANGED <<persistent, machine, voteRequests, appendRPC, ballots, chosen, crashes>>
-------------------------------------------------------------------------------
(* Replication.                                                            *)

\* Propose, up to the release of the lock; the broadcast that follows it is
\* Broadcast, and so is every heartbeat.
Propose(i, cmd) ==
  /\ state[i] = "Leader"
  /\ LastLogIndex(log[i]) < MaxLog
  /\ log' = [log EXCEPT ![i] =
       Append(@, [term |-> currentTerm[i], index |-> LastLogIndex(@) + 1, cmd |-> cmd])]
  /\ UNCHANGED <<currentTerm, votedFor, role, machine, leaderVars, goroutines,
                 voteRPC, appendRPC, history>>

\* broadcastAppendEntries: captures the commit index and spawns one
\* replicateToPeer per peer, which may run much later.
Broadcast(i) ==
  /\ state[i] = "Leader"
  /\ announced' = [announced EXCEPT ![i] = @ \cup {commitIndex[i]}]
  /\ UNCHANGED <<persistent, role, machine, leaderVars, votes, lateTimer, voteRPC,
                 appendRPC, history>>

\* replicateToPeer, first critical section and the send.
ReplicateToPeer(i, j, commit) ==
  LET next == IF nextIndex[i][j] = 0 THEN 1 ELSE nextIndex[i][j]
  IN
  /\ state[i] = "Leader"
  /\ commit \in announced[i]
  /\ Cardinality({m \in appendRequests : m.awaited \/ m.term >= currentTerm[m.dst]})
       < MaxRequests
  /\ appendRequests' = appendRequests \cup
       {[src |-> i, dst |-> j, term |-> currentTerm[i],
         prevIndex |-> next - 1, prevTerm |-> TermAt(log[i], next - 1),
         entries |-> EntriesFrom(log[i], next),
         commit |-> commit, awaited |-> TRUE]}
  /\ UNCHANGED <<persistent, role, machine, leaderVars, goroutines, voteRPC,
                 appendReplies, history>>

\* A heartbeat repeats what an earlier one said, so an element of appendRequests
\* or appendReplies stands for one or more equal messages: taking one of them
\* may leave others behind.
Take(m, messages) == {messages, messages \ {m}}

\* The reply reaches a goroutine whose leadership still holds.
Current(m) ==
  /\ m.term <= currentTerm[m.dst]
  /\ state[m.dst] = "Leader"
  /\ currentTerm[m.dst] = m.call

\* Terms only grow and a node leads a term once: the other replies will be
\* ignored whenever they arrive, and the bound does not count them.
Relevant(m) == m.term > currentTerm[m.dst] \/ Current(m)

AnswerAppend(m, term, success) ==
  /\ appendRequests' \in Take(m, appendRequests)
  /\ appendReplies' = IF m.awaited
                      THEN appendReplies \cup
                             {[src |-> m.dst, dst |-> m.src, term |-> term,
                               call |-> m.term,
                               match |-> IF success THEN m.prevIndex + Len(m.entries) ELSE 0,
                               success |-> success]}
                      ELSE appendReplies
  /\ Cardinality({r \in appendReplies' : Relevant(r)}) <= MaxReplies

\* HandleAppendEntries, rule 1.
RejectStaleLeader(m) ==
  /\ m.term < currentTerm[m.dst]
  /\ AnswerAppend(m, currentTerm[m.dst], FALSE)
  /\ UNCHANGED <<persistent, role, machine, leaderVars, goroutines, voteRPC, history>>

\* HandleAppendEntries, the consistency check fails.
RejectMismatch(m) ==
  /\ m.term >= currentTerm[m.dst]
  /\ ~PrevMatches(log[m.dst], m.prevIndex, m.prevTerm)
  /\ BecomeFollower(m.dst, m.term, m.src)
  /\ AnswerAppend(m, m.term, FALSE)
  /\ UNCHANGED <<log, machine, leaderVars, goroutines, voteRPC, history>>

Smaller(a, b) == IF a < b THEN a ELSE b

\* HandleAppendEntries, the entries are integrated and the commit index follows
\* the leader's as far as this request reaches.
AcceptEntries(m) ==
  LET newLog    == IntegrateEntries(log[m.dst], m.entries)
      newCommit == Smaller(m.commit, m.prevIndex + Len(m.entries))
  IN
  /\ m.term >= currentTerm[m.dst]
  /\ PrevMatches(log[m.dst], m.prevIndex, m.prevTerm)
  /\ BecomeFollower(m.dst, m.term, m.src)
  /\ log' = [log EXCEPT ![m.dst] = newLog]
  /\ IF newCommit > commitIndex[m.dst]
     THEN CommitAndApply(m.dst, newCommit, newLog)
     ELSE UNCHANGED machine
  /\ AnswerAppend(m, m.term, TRUE)
  /\ UNCHANGED <<leaderVars, goroutines, voteRPC, history>>

\* The goroutine of replicateToPeer that waits for this reply.
StepDownOnAppendReply(m) ==
  /\ m.term > currentTerm[m.dst]
  /\ BecomeFollower(m.dst, m.term, Nil)
  /\ appendReplies' \in Take(m, appendReplies)
  /\ UNCHANGED <<log, machine, leaderVars, goroutines, voteRPC, appendRequests, history>>

IgnoreAppendReply(m) ==
  /\ m.term <= currentTerm[m.dst]
  /\ ~Current(m)
  /\ appendReplies' \in Take(m, appendReplies)
  /\ UNCHANGED <<persistent, role, machine, leaderVars, goroutines, voteRPC,
                 appendRequests, history>>

\* (Mutant: the log is read again when the reply arrives.)
AdvancePeerToEnd(m) ==
  LET match == [matchIndex[m.dst] EXCEPT ![m.src] = Len(log[m.dst])]
  IN
  /\ Current(m)
  /\ m.success
  /\ matchIndex' = [matchIndex EXCEPT ![m.dst] = match]
  /\ nextIndex' = [nextIndex EXCEPT ![m.dst][m.src] = Len(log[m.dst]) + 1]
  /\ MaybeAdvanceCommitIndex(m.dst, match)
  /\ appendReplies' \in Take(m, appendReplies)
  /\ UNCHANGED <<persistent, role, goroutines, voteRPC, appendRequests, ballots, elected,
                 crashes>>

\* nextIndex follows the reply at hand, even one that is older than the last;
\* matchIndex only grows.
AdvancePeer(m) ==
  LET known == matchIndex[m.dst][m.src]
      match == [matchIndex[m.dst] EXCEPT
                  ![m.src] = IF m.match > known THEN m.match ELSE known]
  IN
  /\ Current(m)
  /\ m.success
  /\ matchIndex' = [matchIndex EXCEPT ![m.dst] = match]
  /\ nextIndex' = [nextIndex EXCEPT ![m.dst][m.src] = m.match + 1]
  /\ MaybeAdvanceCommitIndex(m.dst, match)
  /\ appendReplies' \in Take(m, appendReplies)
  /\ UNCHANGED <<persistent, role, goroutines, voteRPC, appendRequests, ballots, elected,
                 crashes>>

\* (Mutant: nextIndex goes below 1.)
BackOffUnguarded(m) ==
  /\ Current(m)
  /\ ~m.success
  /\ nextIndex' = [nextIndex EXCEPT ![m.dst][m.src] = @ - 1]
  /\ appendReplies' \in Take(m, appendReplies)
  /\ UNCHANGED <<persistent, role, machine, matchIndex, goroutines, voteRPC,
                 appendRequests, history>>

\* (Mutant: the same request is tried again for ever.)
TryAgain(m) ==
  /\ Current(m)
  /\ ~m.success
  /\ appendReplies' \in Take(m, appendReplies)
  /\ UNCHANGED <<persistent, role, machine, leaderVars, goroutines, voteRPC,
                 appendRequests, history>>

\* The peer refused: one step back, never below the first entry.
BackOff(m) ==
  /\ Current(m)
  /\ ~m.success
  /\ nextIndex' = [nextIndex EXCEPT ![m.dst][m.src] = IF @ > 1 THEN @ - 1 ELSE @]
  /\ appendReplies' \in Take(m, appendReplies)
  /\ UNCHANGED <<persistent, role, machine, matchIndex, goroutines, voteRPC,
                 appendRequests, history>>
-------------------------------------------------------------------------------
(* Failures.                                                               *)

\* The network drops a message or the caller's rpcTimeout expires.  A vote RPC
\* that is lost is one that is never taken from its set.
LoseAppendRequest(m) ==
  /\ appendRequests' = appendRequests \ {m}
  /\ UNCHANGED <<persistent, role, machine, leaderVars, goroutines, voteRPC,
                 appendReplies, history>>

LoseAppendReply(m) ==
  /\ appendReplies' = appendReplies \ {m}
  /\ UNCHANGED <<persistent, role, machine, leaderVars, goroutines, voteRPC,
                 appendRequests, history>>

Abandon(i, requests) ==
  {IF m.src = i THEN [m EXCEPT !.awaited = FALSE] ELSE m : m \in requests}

\* The process dies and NewNode starts over from what Storage.load reads.  The
\* goroutines die with it: requests on the wire may still be handled, nobody
\* waits for the answers.  "pending" are the vote requests no handler has taken.
Reboot(i, pending) ==
  /\ crashes < MaxCrashes
  /\ crashes' = crashes + 1
  /\ state' = [state EXCEPT ![i] = "Follower"]
  /\ currentLeader' = [currentLeader EXCEPT ![i] = Nil]
  /\ commitIndex' = [commitIndex EXCEPT ![i] = 0]
  /\ applied' = [applied EXCEPT ![i] = <<>>]
  /\ nextIndex' = [nextIndex EXCEPT ![i] = [j \in Server |-> 0]]
  /\ matchIndex' = [matchIndex EXCEPT ![i] = [j \in Server |-> 0]]
  /\ votes' = [votes EXCEPT ![i] = 0]
  /\ lateTimer' = [lateTimer EXCEPT ![i] = FALSE]
  /\ announced' = [announced EXCEPT ![i] = {}]
  /\ voteRequests' = Abandon(i, pending)
  /\ voteReplies' = {m \in voteReplies : m.dst # i}
  /\ appendRequests' = Abandon(i, appendRequests)
  /\ appendReplies' = {m \in appendReplies : m.dst # i}

Crash(i) ==
  /\ Reboot(i, voteRequests)
  /\ UNCHANGED <<persistent, ballots, elected, chosen>>

\* HandleRequestVote dies between persisting the newer term and persisting the
\* vote it was about to grant.
CrashBeforeVote(m) ==
  /\ m.term > currentTerm[m.dst]
  /\ Reboot(m.dst, voteRequests \ {m})
  /\ SetTermAndVote(m.dst, m.term, Nil)
  /\ UNCHANGED <<log, ballots, elected, chosen>>

\* HandleAppendEntries dies after adopting the term, between two of the writes
\* of integrateEntriesLocked.
CrashWhileAppending(m) ==
  /\ m.term >= currentTerm[m.dst]
  /\ PrevMatches(log[m.dst], m.prevIndex, m.prevTerm)
  /\ Reboot(m.dst, voteRequests)
  /\ SetTermAndVote(m.dst, m.term, VoteIn(m.dst, m.term))
  /\ \E l \in InterruptedIntegrations(log[m.dst], m.entries) :
       log' = [log EXCEPT ![m.dst] = l]
  /\ UNCHANGED <<ballots, elected, chosen>>
-------------------------------------------------------------------------------
HandleRequestVote(m) == RejectStaleCandidate(m) \/ DenyVote(m) \/ GrantVote(m)

HandleVoteReply(m) == StepDownOnVoteReply(m) \/ IgnoreVoteReply(m) \/ CountVote(m)

HandleAppendEntries(m) == RejectStaleLeader(m) \/ RejectMismatch(m) \/ AcceptEntries(m)

HandleAppendReply(m) ==
  \/ StepDownOnAppendReply(m)
  \/ IgnoreAppendReply(m)
  \/ AdvancePeer(m)
  \/ BackOff(m)

NodeStep(i) ==
  \/ StartElection(i)
  \/ Broadcast(i)
  \/ \E cmd \in Command : Propose(i, cmd)
  \/ \E j \in Server \ {i} : \E commit \in announced[i] : ReplicateToPeer(i, j, commit)
  \/ Crash(i)

Next ==
  \/ \E i \in Server : NodeStep(i)
  \/ \E m \in voteRequests : HandleRequestVote(m) \/ CrashBeforeVote(m)
  \/ \E m \in voteReplies : HandleVoteReply(m)
  \/ \E m \in appendRequests :
       HandleAppendEntries(m) \/ CrashWhileAppending(m) \/ LoseAppendRequest(m)
  \/ \E m \in appendReplies : HandleAppendReply(m) \/ LoseAppendReply(m)

Spec == Init /\ [][Next]_vars
===============================================================================
