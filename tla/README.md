# A TLA+ development of the replicated key-value store

The repository is a key-value store replicated by an implementation of Raft
written from scratch (`internal/raft`, `internal/raftlog`), with a client proxy,
service discovery and a backup service around it. This directory holds
specifications of it, the TLC configurations that check them on small clusters,
and theorems that the TLA+ proof system checks for clusters of every size.

    tlc -workers 2 -config Crashes.cfg MCRaft.tla        # one run
    tlapm ProxyProofs.tla                                # one proof module

## 1. The system

| part | state | operations | talks to |
|---|---|---|---|
| `raft.Node` (`internal/raft/node.go`) | role, leader hint, commitIndex, lastApplied, nextIndex, matchIndex, all under one mutex; a vote counter per election in goroutines | `electionLoop`, `startElection`, `HandleRequestVote`, `HandleAppendEntries`, `Propose`/`waitForCommit`, `broadcastAppendEntries`, `replicateToPeer`, `SnapshotState`, `ClusterStatus` | peers by RPC, the storage, the store |
| `raftlog.Storage` | term, vote and log, in memory and in one JSON file | `SetTermAndVote`, `Append`, `Truncate`, each followed by `persist` (temporary file, rename); `load` at the start | the disk |
| `kvstore.Store` | a map | `Apply` (the only mutation), `Get`, `Snapshot` | called by the node |
| `raft.Server`, `raft.Client`, `convert.go` | connections | one gRPC method per handler, one call per outgoing RPC, deadline `rpcTimeout` | the network |
| `raft.KVServer` | none | `Get`, `Put`, `Delete`, refused unless leader | the node |
| `proxy.Proxy`, `circuitBreaker`, `discovery.Discovery` | a breaker per address, a view of peers and leader | `callLeader` with retries, `Allow`/`RecordSuccess`/`RecordFailure`, `Refresh`/`LeaderAddress` | any node's `GetStatus`, the leader's `KVServer` |
| `snapshot.Service` | the last checkpoint file | `RunOnce`: refresh, download the state of the leader or of any peer, replace the file | `GetSnapshot`, the disk |
| `config`, `cmd`, `experiments`, `proto` | – | parsing, wiring, measuring, generated code | – |

What makes it hard:

* *Interleaving.* A node is one election goroutine, a replication loop, one
  goroutine per outgoing RPC and one per incoming. Every RPC is sent with the
  mutex released, so each answer meets a node that may have changed its role,
  its term and its log. `electionLoop` reads the role under one lock and acts
  under another.
* *Failure.* Requests and answers are lost, delayed past the caller's timeout,
  overtaken by later ones. A process dies between any two writes of the storage
  and starts over from the file with an empty store.
* *Ordering.* Several `replicateToPeer` goroutines for one peer overlap (a
  heartbeat every `heartbeatInterval` and one per `Propose`).
* *Caches that go stale.* The leader hint, the discovery view, the breaker, and
  the index `waitForCommit` looks at.

What makes each part correct:

* election: one leader per term, one vote per node and term, the leader hint
  names an elected node;
* replication: logs that agree at an index agree below it, the leader never
  overstates what a peer stores, indexes and positions coincide; once failures
  are over the logs become one;
* commitment: what a leader committed stays on a majority and in every later
  leader, stores execute one sequence, and what the leader's term covers is
  executed everywhere in the end;
* storage: what was acknowledged is on disk, and a crash leaves the old or the
  new file;
* transport: a message arrives as it was sent;
* client API: an acknowledged write is committed (the code keeps this only for
  an unbroken leadership), a read returns it (kept only at a settled leader);
* breaker: it opens after a threshold of failures in a row, and what happened
  while it was open or half open is not held against the node afterwards; half
  open, it lets one call through (not kept);
* discovery and proxy: calls are booked on the node that was called, a view that is
  stale when a request begins costs it one attempt at most, every further one is
  the work of a late answer of another request, and in the end the leader is used;
* snapshot: the checkpoint with the log behind it restores the state, and in the
  end it holds all there is.

`PROJECT.json` lists the hazards one by one, at their lines, with the properties
that would notice.

## 2. The modules

| module | what it is |
|---|---|
| `RaftLog` | what the code computes with a log: last index and term, term at an index, truncation, the election restriction, the consistency check, the integration of received entries. No state. |
| `Raft` | the consensus core of a cluster. |
| `RaftSafety` | its type invariant, its safety properties, the inductive invariant of elections, and the statement that it implements `ReplicatedLog`. |
| `RaftLedger` | the inductive invariant of the logs and of commitment, in terms of what the leaders had and how far every node stored it. |
| `ReplicatedLog` | the abstract specification: one sequence of commands that only grows; each store has executed a prefix of it since its process started. |
| `IntegrateLoop` | the loop of `integrateEntriesLocked`, one persisted write at a time. |
| `MCRaft` | initial states, view and symmetry for TLC. |
| `Storage` | `raftlog.Storage`: memory, file and temporary file, one system call at a time, calls that fail, crashes between them. |
| `DurableState` | what `Storage` promises: a value in memory and a durable one, equal after a write that reported success. |
| `NodeDisk` | the handlers of one node over a storage whose writes may fail. |
| `Progress` | fairness for `Raft`, with a minority of dead nodes, and what it is enough for. |
| `Clients`, `MCClients` | the client API of a node composed with `Raft`: `Put` and `Delete` through `waitForCommit`, `Get` in its two steps; and its initial states and view for TLC. |
| `Transport` | the conversions to protobuf and back, and what becomes of a field on the wire. |
| `KVStore` | the map of `kvstore.Store` and what a command does to it. |
| `Snapshot` | the backup service over a cluster that behaves as `ReplicatedLog`. |
| `CircuitBreaker` | the breakers of the registry with concurrent requests and a clock. |
| `Proxy` | `callLeader` and the discovery view, composed with `CircuitBreaker`. |
| `RaftLogProofs`, `RaftProofs`, `RaftCommitProofs` | the proofs about the log operators; about types, elections and matching logs; about commitment, the refinement of `ReplicatedLog` and the clients. |
| `IntegrateLoopProofs`, `StorageProofs`, `NodeDiskProofs`, `ProxyProofs`, `SnapshotProofs` | the proofs about these modules. What is said of messages is proved where they are used: the two between nodes in the first, those of the proxy and of the backup service in the last. |

`RaftLog` and `Raft` are the core; `RaftSafety`, `RaftLedger`, `MCRaft`, `Progress` and
`Clients` extend them. `Proxy` extends `CircuitBreaker`, `Snapshot` extends `KVStore`, which extends
`Transport`, as `IntegrateLoop` does. The abstract specifications are
`ReplicatedLog` (for `Raft`), `DurableState` (for `Storage`) and `Breakers` of
`CircuitBreaker` (for `Proxy`).

Recursive operators are avoided everywhere, so that every module can be proved
about.

### Raft and the code

One action is one critical section under `Node.mu`. The lock is released before
an RPC and taken again for its answer, so an RPC is three actions: send, handle,
receive the answer.

| action | code |
|---|---|
| `StartElection` | the timer of `electionLoop` fires and `startElection` runs up to the vote requests |
| `RejectStaleCandidate`, `DenyVote`, `GrantVote` | the returns of `HandleRequestVote` |
| `StepDownOnVoteReply`, `IgnoreVoteReply`, `CountVote` | the goroutine of `startElection` after its RPC; `CountVote` includes `becomeLeaderLocked` |
| `Propose` | `Propose` up to the release of the lock |
| `Broadcast` | `broadcastAppendEntries`, called by `Propose` and by every tick of `runLeaderReplicationLoop` |
| `ReplicateToPeer` | first critical section of `replicateToPeer`, and the send |
| `RejectStaleLeader`, `RejectMismatch`, `AcceptEntries` | the returns of `HandleAppendEntries` |
| `StepDownOnAppendReply`, `IgnoreAppendReply`, `AdvancePeer`, `BackOff` | second critical section of `replicateToPeer`; `AdvancePeer` includes `maybeAdvanceCommitIndexLocked` and the application to the store |
| `LoseAppendRequest`, `LoseAppendReply` | the error return of the RPC: lost, refused, or too late |
| `Crash`, `CrashBeforeVote`, `CrashWhileAppending` | the process dies, idle or between two writes of a handler, and `NewNode` starts over what `Storage.load` reads |

State:

* `currentTerm`, `votedFor`, `log` are `Storage.state`; writes do not fail in
  this module, so memory and disk are the same.
* `applied[i]` is the sequence of commands `Store.Apply` has executed since the
  process started, of which the map is a function; its length is `lastApplied`.
* `votes[i]` is the counter that the goroutines of one election share. Every
  election has a counter of its own in the code; a goroutine reaches its counter
  only while the node is candidate of its election (`node.go:617`), so one
  variable, reset by `StartElection`, holds the only counter that is in reach.
* `lateTimer[i]`: `electionLoop` has read "not leader" and `startElection` waits
  for the lock. It matters only if the node becomes leader in between, so
  `BecomeLeader` chooses whether that is the case.
* `announced[i]`: the values of `leaderCommit` that broadcasts of this leadership
  captured. The goroutines they spawned may run at any later time of it; those of
  an earlier leadership return at once because their term is over. The log is
  read after `leaderCommit` was, so the minimum that `HandleAppendEntries`
  takes is always `leaderCommit` for requests of this code; the model takes it
  all the same.
* Messages are records in sets. A reply carries what the goroutine that receives
  it remembers (`election`; `call` and `match`). Heartbeats repeat each other
  word for word, so taking a message may or may not leave an equal one behind
  (`Take`). A vote request exists once per election and peer and is taken once;
  one that is never taken is a lost one. `awaited` turns false when the caller
  crashed: the request is still handled, the answer goes nowhere.
* `ballots`, `elected`, `chosen` are history, and no guard reads them. `chosen`
  is what leaders committed, each entry with the term of the leader that did.

Not in the code, so not in the model: no-op entries of a new leader, membership
changes, log compaction, transfer of snapshots to followers.

Abstractions: commands are opaque; time is absent, the election timer may expire
whenever `electionLoop` could be at its `select`; `resetElectionCh` therefore has
no counterpart, it only delays the timer.

### The abstract log

`ReplicatedLog` has two variables. `Decide` extends the sequence and moves the
deciding node's store to its end, `CatchUp` moves a store forward, `Restart`
empties one. The refinement mapping takes `decided` from `chosen` and `applied`
from itself. It fails if a leader commits something else at an index that was
committed before, if a store executes an entry nobody committed, or if it skips
or repeats one.

### Storage and NodeDisk

`Storage` cuts `persist` at its system calls: `os.WriteFile` empties the temporary
file (`BeginWrite`) and fills it (`FinishWrite`), `os.Rename` replaces the file
(`Rename`). Each may return an error (`PersistFails`), which leaves the change in
memory, and the process may die in front of each (`Crash`). The operating system
survives: `persist` does not call `fsync`, and what a power cut makes of the file
is not modelled. The refinement mapping takes `disk` from what `load` makes of the
file. Since it holds, the other modules write the storage in one step.

`Raft` leaves failing writes out. `NodeDisk` puts them under one node, whose
handlers it cuts at their writes: `ReceiveVoteRequest` and `ReceiveAppendEntries`
contain `becomeFollowerLocked`, which drops the error; `GrantVote` and
`StartElection` keep the vote to themselves if the write failed; `CutConflict` and
`AppendEntry` end the handler. `Node.mu` is held from the first step of a handler
to the last (`request`), so only a crash comes between them. The other nodes are the
environment, as permissive as the cluster: any candidate with any last entry, and for every
term a log of which a request is a piece, all of them compatible in the sense of
`LogMatching`.

### Clients

`Submit` is `Propose` with the handler that now waits; what it waits for is the
index alone, as in `waitForCommit` (the term in the record is for the properties).
`Acknowledge` is the branch `committed`, which comes before the question for the
role, and `GiveUp` every other end of the wait. A `Get` asks for the role under
`Node.mu` (`CheckRole`) and reads the store under the store's own lock
(`ReadStore`); what it reads is known from `applied` of that node. `acked` is
history: the writes whose leadership was unbroken when the success was
given. `Owed` is what a `Get` is held to, and says when: no later leader exists and
this one has committed an entry of its own term. Neither is in the code, and a `Get` at a
leader for which they do not hold may miss acknowledged writes, as section 3 tells
among the disagreements.

### Transport and KVStore

proto3 does not send a field that has the zero value of its type, and the getter of
a field that was not received answers with that value. `Marshal` and `Unmarshal`
say this once; each message type is the record of its zero values. A Go map has no
order and becomes a set of pairs. Between them stand the
conversions of the code, one operator per direction and message. `IntegrateLoop` integrates the
entries that arrive (`Arriving`), `Snapshot` restores what arrives, and
`KVStore!Proposals` are the commands that reach a leader through the proxy. `Raft`
takes messages as they were sent, which `IntegrateLoopProofs` justifies.

### Snapshot

`RunOnce` is one action per call: `Refresh`, the leader (`AskLeader`), then the
peers in any order (`AskPeer`). `Node.SnapshotState` reads `lastApplied` under
`Node.mu` (`ReadMetadata`) and copies the store under another lock (`ReadData`);
commands may be executed in between. `writeCheckpoint` is cut at its system calls
as in `Storage`. The nodes execute prefixes of `decided`, as `ReplicatedLog` says
and as the run `crashes` checks for `Raft`; a restart empties a store. `FetchFails`
is an error of the call or of the disk, `RestartService` a crash of the service,
whose files stay. Until `Settle` everything may fail; afterwards the nodes of `Lost` are
silent and the others answer, but may still name a lost leader.

The service and its comments promise less than a reader may expect: data may be newer than the
metadata (`node.go:214` speaks of the metadata of "that state"), and a
checkpoint may be replaced by an older one when a peer that is behind answers.
`RestoreIsExact` is what is true and what a restore needs: executing a command twice
does no harm if everything after it is executed again too.

### CircuitBreaker and Proxy

`callLeader` asks `Allow` (`Pass`, `Try`, `Refuse`), calls the node with no lock
held, and then calls `RecordSuccess` or `RecordFailure`, so calls end in an order
and in a state of the breaker that have nothing to do with those they began in.
`openUntil` is the countdown `cooling`; only its distance from now is looked at.
`failed` is history.

`Proxy` follows each request through `callLeader`: `pc` is "loop" at the head of the
loop, "discover" while the first `Refresh` waits, "discovered" after it, "allow" between
the reading of the leader's address (`ReadLeader`, kept in `addr`) and the answer of its
breaker, "call" in `invoke`, "refresh" in the `Refresh` after a refused or failed call. `Refresh` asks (`Ask`) and stores
(`Store`) in two steps, with other requests between them, so an old answer may replace a
newer one. A call of a settled cluster fails only if it is old or went to another
node than the leader; the answer "not leader" and a timeout are both failures, as
in the code. `old`, `refused` and `undone` are history and say which requests the properties
speak of; `undone` counts, for each request, how often an answer from the time of trouble has taken the
leader off the view since it began.

The comments on the breaker promise more than the code keeps. `Allow` lets every call
through in half-open (`circuitbreaker.go:55`), line 16 says one. A call from before the breaker opened closes it when it ends well
(`circuitbreaker.go:75`), line 14 says that calls are refused until `resetTimeout` is over. No
property demands either.

### Progress

`Progress` adds fairness to `Raft`. `Dead` is a minority that handles nothing; what is
sent to it is lost. `UpToDateRequest` names the request that the latest broadcast
sends; older ones may arrive, be lost or be overtaken.

## 3. The runs

The runs of `Raft` are on three nodes, the smallest cluster in which a majority is not everyone and
two majorities differ, with symmetry over the nodes (those whose timer may expire
among themselves, the others among themselves) and over the commands; not where
liveness is checked, and not in `clients`, where the nodes have their parts from the start. No invariant, action property or abstract specification
distinguishes them.

| run | from | bounds | shows |
|---|---|---|---|
| `crashes` | a leader of term 1 | 2 terms, 2 commands, logs of 1, 1 crash, two nodes campaign | `TypeOK`, `IndexIsPosition`, `AppliedMatchesLog`, `ElectionSafety`, `VoteOnce`, `HintIsElected`, `ImplementsReplicatedLog` |
| `reordering` | a leader of term 1 | 1 term, logs of 2, two requests in flight | `MatchIndexTruthful`, `ChosenOnMajority` |
| `restart` | a whole-cluster restart | third term over disks of two terms, logs of 2 | `LogMatching`, `LeaderCompleteness`, `ElectableHoldsChosen` |
| `progress` | a whole-cluster restart, one node dead | third term, logs of 3 | `LogsConverge`, `ExecutedEverywhere` |
| `integrate_loop` | every log and request | 3 terms, logs and requests of 3 | `ResultIsIntegrateEntries`, `DiskIsAnticipated`, `AgreementSurvives` |
| `storage` | no files | 2 terms, logs of 2, 2 candidates; failures and crashes unbounded | `StorageInv`, `ImplementsDurableState` |
| `failing_writes` | a new node | 2 terms, leader logs of 2, 2 candidates, 2 failures, 1 crash | `VotedOnce`, `EntriesWithinTerm` |
| `unwritten_entry` | a new node | as `failing_writes` | violates `AckedOnDisk` |
| `clients` | a leader whose first write is committed and acknowledged | 2 terms, logs of 2, 1 crash | `SureAckIsChosen`, `ReadsSeeAcks` |
| `lost_write` | as `clients` | 2 commands, no crash | violates `AckedIsChosen` |
| `proxy` | no leader known | 2 requests, 2 nodes, threshold 2, 2 ticks, 2 attempts | `CountsFailures`, `OpensAfterThreshold`, `UsesBreakers`, `FailsForAReason`, `ServesInTheEnd` |
| `snapshot` | nothing decided, no files | 2 nodes, 2 commands, 1 restart | `RestoreIsExact`, `BackupCatchesUp` |

Why these bounds are enough to be interesting. Two campaigning nodes and two
terms give split votes and a crash between vote and answer; a vote of an earlier election
that finds its node campaigning again, and a timer that fires at a node elected meanwhile, need a
third term, and there `ElectionSafety` rests on the theorem `ElectionSafe`, as
`IndexIsPosition` on `PositionsCorrect` for requests of several entries. Two terms of entries give conflicts, truncation and `nextIndex`
backing off to 1, and the disks of `restart` conflicts behind common entries. Two requests of one leader in flight give the delayed short
request behind the longer one. The classical trap of commitment by counting needs
three terms and three entries of work before it; the run `restart` therefore
starts from the disks that two terms may leave (`Disks` in `MCRaft`), with
followers, empty stores and nothing in flight, as after a restart of every
container. In `clients` the second leader overwrites an unacknowledged entry of the
first, commits one of its own and lets the first know, while a `Get` stands between
its two locks. Two requests of the proxy are two answers
of discovery that cross, and two calls that end in the wrong order; of two attempts one is lost to the
view as the request finds it and one to a late answer of the other request, so
all that `FailsForAReason` allows for happens. Two commands of the backup
service are a key that is put and deleted while the data are read. A leader's log
of 2 in `failing_writes` has a conflict with another term and an entry behind it;
two failures are a truncation and an append, or a term and a vote; one crash tells
memory from disk. Each property has a mutant of the code, in `PROJECT.json`, that the same run
refutes: the bounds reach the case it is about.

*Initial states.* No run of `Raft` starts from `Init`; the theorems do. `WarmInit`
is a state that `Init` leads to: one node campaigned, both others voted for it,
every answer arrived. `OneWrite` follows it: the leader proposed, one follower stored
the entry and its answer arrived; the third node has voted and heard of nothing since, so
it has no entry and no leader hint. `ColdInit` gives disks and history
that two terms of elections with one vote each and lost messages produce; the
comments at `Disks` say how. `FairInit` is `ColdInit` without what would make
the one node that campaigns lose the votes of the living.

*View.* Two states that differ only in what can no longer make a difference are one
to TLC (`View` in `MCRaft`): the replication state of a node that is not leader,
a counter of an election that is over, messages whose handler will refuse them
and whose caller is gone, votes of a term their voter has left. Terms only grow, so
none of it comes back to life: every guard and every property, `VoteOnce` included,
compares a new vote or message with those of the node's current term. The election
theorem holds without any view. `ClientsView` drops in addition the `Get`s that are owed
nothing and the writes whose leadership is over: `clients` asks nothing of them, and
`lost_write`, which does, has no view. It also drops the leader hints. A client that
gives up on a write while the leadership lasts sees nothing that a patient one
would not, so in these runs nobody does (`Waits`).

*Bounds in guards.* `MaxTerm`, `MaxLog`, `MaxCrashes`, and the numbers of append
messages in flight that may still have an effect. `OutOfTerms` lets a
cluster whose terms are used up stand still; any other deadlock is reported, and
there is none. `IntegrateLoop` is a function call and ends, so its run does not
look for deadlock.

*Disagreements.* `unwritten_entry`: a failed `Append` leaves its entry in memory. The follower
refuses that request, the leader sends the entry again, and this time
`integrateEntriesLocked` finds it in `Storage.Log()`, skips it as a duplicate (`SkipEntry`) and
the request succeeds. The leader counts an entry that no restart of this node
will find: `AckedOnDisk` is about the entries that a leader has sent and was told are stored. Any
later successful write repairs it, a crash before that loses it.

`lost_write`: a leader is deposed while a `Put` waits in `waitForCommit`. The next leader
overwrites the entry with another at the same index, commits it and says so: in
the same critical section the deposed node truncates, appends and raises `commitIndex`. If the waiting
goroutine polls only then (`commitPollInterval` later), it finds
`commitIndex >= index` and answers success for a write that is gone.
`SureAckIsChosen` says when a success can be relied on.

Three more, without a run, since what the code does is plain once said:

* A follower has stored an entry, the leader has committed it on the strength of that and answered
  its client, and no later request has told the follower. Elected, it does not know that
  the entry is committed: `KVServer.Get` finds it leader and reads its store (`kvserver.go:32`), into which
  the write is executed only once a write of the new term is committed (`node.go:762`). A
  deposed leader that has not heard of its successor answers with old data as well. The comment at
  `kvserver.go:17` expects strong consistency of reads at the leader. `ReadsSeeAcks` says what can be relied on.
* In half-open every call passes (`circuitbreaker.go:55`), where line 16 promises one: while the trial waits
  for a node that may be down, every other request calls it too. In the end the
  leader is used all the same (`ServesInTheEnd`).
* `electionLoop` checks `State()` and then calls
  `startElection`, which takes the lock again without looking at the role. A node
  elected in between (`lateTimer`) campaigns against itself, which the comment at `node.go:548`
  excludes. Nothing unsafe follows: every property of `Raft` holds with it, and
  the cluster loses a leader.

*Fairness.* `Proxy`: time passes, every step of a request that can be taken is taken,
which the deadlines of `invoke`, `Refresh` and the backoff ensure, and trouble ends
(`Settle`); nothing is assumed of requests arriving or ending well before that.
`Snapshot`: the ticker ticks, calls have deadlines, trouble ends, and a node that is
behind catches up, which is what `Progress` shows of `Raft`. `Progress`: timers and
tickers fire, calls time out (`rpcTimeout`), the two messages of a vote arrive, and
of the AppendEntries that are sent again with every tick one arrives in the end, with its
answer (strong fairness). One node's timer is the only one to fire, and its log
wins the votes: the code draws timeouts at random, and
configuration enforces that heartbeats and RPCs are shorter than they are, so
that such a round comes with probability one and is not disturbed by the others afterwards;
TLA+ has no probabilities, so the run begins in that round.

`ExecutedEverywhere` has a premise, an entry of the leader's own term at the end of
its log. Without a proposal the entries of earlier terms stay uncommitted, however
long the cluster runs: the code has no entry with which a new leader begins.

## 4. The proofs

Every safety property that a passing run checks is also a theorem, for every set of nodes
that is finite, every set of commands and every value of the bounds. `Nil` is no node. These are
the assumptions `ServerAssumption`, `NilAssumption`, `BoundAssumption` of `Raft`; the other
modules name theirs likewise, and TLC evaluates them in the runs.

| module | theorems |
|---|---|
| `RaftProofs` | `TypeCorrect`, `PositionsCorrect`, `ElectionSafe`, `VotesOnce`, `LogsMatch`, `HintsElected` |
| `RaftCommitProofs` | `MatchIndexSafe`, `ChosenStays`, `LeadersComplete`, `ElectionsKeepChosen`, `StoresFollowLogs`, `RaftImplementsReplicatedLog`; `SureAcksChosen`, `ReadsSafe` |
| `IntegrateLoopProofs` | `LoopIntegrates`, `LoopCrashesAnticipated`, `LoopKeepsAgreement`; `RequestVoteArrives`, `AppendEntriesArrives` |
| `StorageProofs`, `NodeDiskProofs` | `StorageSafe`, `StorageImplements`; `VoteSurvives`, `TermSurvives` |
| `ProxyProofs` | `BreakerCounts`, `OpensInTime`, `ProxyUsesBreakers`, `ProxyCounts`, `ProxyOpensInTime`, `FailuresHaveReasons` |
| `SnapshotProofs` | `ExecuteIsAfter`, `RestoresExactly`; `SnapshotArrives`, `StatusArrives`, `WritesArrive`, `ReadsArrive` |

*Types and positions.* `RaftLogProofs`: the log operators return logs, with the index of every
entry its position. The integration lemma finds the first entry that is not a duplicate
(a least element of a set of numbers) and shows that it fits on the truncated log.
`TypeOK` and `IndexIsPosition` are proved together, because one needs the other: a follower's
log stays a sequence without holes only because the entries of a request continue
at `prevIndex`.

*Elections.* `ElectionSafety` is not inductive. What counts votes
is a number in memory, raised by goroutines that may outlive the election. The
invariant `ElectionInv` of `RaftSafety` therefore ties it to the votes on disk:

* `BallotInv`: nobody has voted, or been voted for, in a term it has not reached,
  and the disk remembers the vote of the current term;
* `VoteRequestInv`: a request is unique for its election and peer, and while its
  caller waits the peer has not voted for it;
* `VoteReplyInv`: a favourable answer stands for a vote on disk;
* `VotesInv`: the counter of a candidate is at most the number of its voters whose
  answer is not underway any more;
* `ElectedInv`: whoever became leader has a majority of ballots.

Two majorities share a node, and it voted once. Of the steps, three create votes or
count them (`StartElection`, `GrantVote`, `CountVote`) and have lemmas of their own;
all the others satisfy `NoNewVote`, for which preservation is proved once. The
restriction that `CountVote` checks, same term and still candidate, is what keeps
`VotesInv`: without it a vote of an older election would be counted.

*Logs.* `LogMatching` is not inductive either. Logs are cut by conflicts and by crashes
inside `integrateEntriesLocked`, and a delayed request may arrive when no log holds
what it was made from any more. `LedgerInv` of `RaftLedger` therefore says that there is a
function `L` that remembers: `L[t]` is the log of the leader of term `t`, as long as it got, and

* every entry comes from the leader of its term, with all that was before it there
  (`EntriesFromLeaders`);
* the log of every node is a beginning of some `L[t]`, a leader's is the whole of its own
  (`LogsFromLeaders`);
* every request is a piece of its leader's, beginning after the entry it names as
  its predecessor (`IsPiece`).

The heart: a log that agrees with `g` at `prevIndex` and integrates what follows there in
`g`, stopped wherever a crash may stop it, is a beginning of `g` or was a beginning of a leader's
log already. `Propose` makes `L[t]` longer at its end, `CountVote` starts one; both rest on
`ElectionSafety`. All other steps leave `L` alone.
`HintIsElected` is proved beside it, because a request's sender must be an elected
leader (`RoleInv`).

*Commitment.* Votes are given and entries stored in any order, so what a later leader has
must be known before anything is committed. A second function, `S`, says how far each node stored
`L[t]` while it was in `t`. An entry is `Choosable` if the nodes that stored it in its own term,
together with those that have not left that term yet, are a majority: it has been committed or may still be.
A node that moves on without the entry ends its chance for good, so what is choosable now was
choosable before (`ChoosableBefore`). A majority that elected a leader of a later term has left
the entry's term; so if the entry is choosable, one of the voters stored it
(`SupporterStored`), found the candidate's log up to date against its own, and the
candidate's log holds the entry (`UpToDateHolds`). This makes "every later leader has every
choosable entry of an earlier term's leader's own making" (`LeadersHoldChoosable`) inductive. The entry has
to be of the leader's own making (`Own`): it is where `maybeAdvanceCommitIndexLocked` refuses to
count replicas for entries of earlier terms. `CommitInv` says of each commit index, wherever it is
on its way, that a leader of that term or before could commit it. The invariant of all of Raft is
`SafetyInv`: `TypeInv`, `ElectionInv`, `RoleInv`, and functions `L` and `S` with `Safe(L, S)`; each
action has a lemma that names the `L` and `S` of the next state.

*Refinement.* From `SafetyInv`, each step of `Raft` is `Decide`, `CatchUp`, `Restart` or nothing for
`ReplicatedLog` (`StepImplements`); what a commit index that rises by several
entries does in one critical section is the one point where `ReplicatedLog` had to be as
coarse as the code.

*Clients.* A client changes nothing of Raft, so `SafetyInv` holds in `Clients` too. Added to it: a
write that waits is in its leader's log while that leadership lasts (`Waits`), one that this
leadership acknowledged is committed (`Sure`), and the node of a `Get` has executed what the
`Get` is owed (`Served`). `SureAcksChosen` and `ReadsSafe` follow; what breaks the first without its
premise is the run `lost_write`.

*The loop.* `LoopInv` says where the loop of `integrateEntriesLocked` is: either everything so far was a
duplicate and the log is the old one, or the first new entry is behind it, and the log is the old one cut there
with the entries up to here. At the end this is `IntegrateEntries`, at each crash one of
`InterruptedIntegrations`. The entries are those that were sent because `AppendEntriesArrives`.

*Proxy.* `BreakerCounts` is inductive. `OpensInTime` follows from it step by step.
`ProxyUsesBreakers` shows that every step of `Proxy` is a step of the breakers or leaves
them alone, so that both carry over to `Proxy`, whatever the cluster does.

`FailuresHaveReasons` counts. A request of a settled cluster that the leader's breaker does not refuse loses
an attempt only because the view is wrong when it reads it, and its `Refresh` puts the view right before the next.
The view is wrong again only if another request stores an answer from before the cluster settled, which
`undone` records. So the attempts that a request has lost are at most one more
than its `undone` (`Lost`), whoever else is at the proxy; how many old answers there
can be is nothing the code bounds, and the theorem does not either.

*Transport.* Two theorems about the calls between nodes, each about the request and the answer, and four about the
messages of the proxy and of the backup service that carry data: what was marshalled, sent and
unmarshalled is what the caller had. The reason is each time that a field that is not sent
has the value the getter returns; the theorems are about there being no field that a
conversion drops or confuses, for entries of every number and commands of every
kind.

*Storage.* `StorageProofs` proves `StorageInv` (what is about to
replace the file is complete) and, from it, that every step of `Storage` is a step
of `DurableState` or none; what the operations do to the state does not matter for it.
`NodeDiskProofs!VoteSurvives` proves `VotedOnce` from `VotesOnDisk`: a vote that
left is on disk or the disk is at a later term, and memory is never behind the disk. It
needs no fact about how often writes fail, and the dropped error of
`becomeFollowerLocked` is harmless because the next write that succeeds writes
the whole state. `TermSurvives` proves `EntriesWithinTerm`, which speaks of the last entry, from
`TermsBounded`, which speaks of all of them: a truncation makes another entry the last.

*Snapshot.* Here the data are a fold over the commands, of any number. `ExecuteIsAfter` gives it a
closed form: at every key the last command about it decides (`After`). The fold is a recursive
function in the library; that it is equal to the closed form is shown with the least set of positions where
they would differ, which needs no induction theorem. `Replay` follows: commands
executed again, in order and up to the end of the log, leave a map that had them already
as executing all of them once would. The invariant `CheckpointInv` says that whatever `SnapshotState`, the answer, the
temporary file and the checkpoint hold is an index and the map of a store that has executed at least
that far.

*Model-checked only.* Liveness, which the prover does not reach: `LogsConverge` and
`ExecutedEverywhere` of `Progress`, `ServesInTheEnd` of `Proxy`, `BackupCatchesUp` of `Snapshot`. They hold on
the bounds of their runs. The invariants that the proofs rest on were
themselves checked with TLC on these bounds before they were proved.

## 5. Not modelled

* *A leader whose own `Append` fails* (`node.go:254`). `Propose` returns the error, but the
  entry stays in memory, is replicated, and is counted for the leader
  (`node.go:765`). `NodeDisk` has a follower's disk only; this needs the disks of a whole
  cluster in `Raft`.
* *What a retried write does* (`proxy.go:122`). A write whose answer timed out is sent
  again and may be executed twice, the second time after a write of another
  client. No operation has an identity, and nothing in the code or its documentation
  promises otherwise. `Proxy` models the retry, not the data.
* *Two replication loops* of a leader that is deposed and elected again between two ticks
  (`node.go:642`) broadcast more often, which `Broadcast` allows at any time; the loops are no
  actors of their own.
* *A cluster of one node* (`node.go:587`) requests no vote and never becomes leader. The
  model shares this with the code; no configuration of the repository is of this kind.
* *`Node.Stop` without the end of the process*, which tests use: the handlers of a
  stopped node still answer.
* *What a power cut makes of a file*: neither `persist` nor `writeCheckpoint` calls
  `fsync`.
* *The cache of connections* of `raft.Client`, a map under a mutex.
* *Configuration*: parsing and validation, without state. What validation guarantees
  is assumed of the constants.
* *Experiments*, the command line client, the wiring in `cmd`, protobuf descriptors and gRPC
  stubs.
