-------------------------------- MODULE Snapshot --------------------------------
(***************************************************************************)
(* The snapshot and backup service, internal/snapshot/snapshot.go, with    *)
(* what a node does for it (Node.SnapshotState, internal/raft/node.go).    *)
(*                                                                         *)
(* The cluster is the environment: it behaves as ReplicatedLog says, and   *)
(* its nodes may answer anything about the leader or nothing at all.  From *)
(* some moment on (Settle) the nodes of Lost are silent for good and the   *)
(* others answer.                                                          *)
(***************************************************************************)
EXTENDS KVStore

CONSTANTS
  Server,
  Seeds,         \* the nodes in the service's configuration
  Lost,
  Nil,
  Missing,       \* no such file
  Torn,          \* a file that is not complete
  MaxLog,        \* bound: the cluster decides no more commands
  MaxRestarts    \* bound: restarts of nodes and of the service, in all

\* LoadSnapshotConfig: validate.  One of the seeds survives.  What is not complete is
\* no checkpoint.
ASSUME SnapshotAssumption ==
  /\ Seeds \subseteq Server /\ Lost \subseteq Server
  /\ \E i \in Seeds : i \notin Lost
  /\ MaxLog \in Nat
  /\ MaxRestarts \in Nat
  /\ Torn \notin [lastIncludedIndex : Nat, data : UNION {[K -> Text] : K \in SUBSET Text}]

VARIABLES
  decided, applied,  \* the cluster, as in ReplicatedLog
  settled,           \* the trouble is over
  restarts,
  peers, leaderID,   \* Discovery
  pc,                \* where RunOnce is, "idle" between two rounds
  left,              \* the peers its loop has not tried yet
  asked,             \* the node GetSnapshot is called on
  answer,            \* what SnapshotState has read so far
  tmp, file          \* checkpoint.json.tmp and checkpoint.json

cluster == <<decided, applied>>
trouble == <<settled, restarts>>
view    == <<peers, leaderID>>
round   == <<pc, left, asked, answer>>
disk    == <<tmp, file>>
vars    == <<cluster, trouble, view, round, disk>>

Init ==
  /\ decided = <<>>
  /\ applied = [i \in Server |-> <<>>]
  /\ settled = FALSE
  /\ restarts = 0
  /\ peers = Seeds
  /\ leaderID = Nil
  /\ pc = "idle"
  /\ left = {}
  /\ asked = Nil
  /\ answer = Nil
  /\ tmp = Missing
  /\ file = Missing
-------------------------------------------------------------------------------
(* The cluster.                                                            *)

\* A node that has executed everything commits one command more.
Decide(i, cmd) ==
  /\ Len(decided) < MaxLog
  /\ applied[i] = decided
  /\ decided' = Append(decided, cmd)
  /\ applied' = [applied EXCEPT ![i] = decided']
  /\ UNCHANGED <<trouble, view, round, disk>>

CatchUp(i) ==
  /\ Len(applied[i]) < Len(decided)
  /\ applied' = [applied EXCEPT ![i] = Append(@, decided[Len(@) + 1])]
  /\ UNCHANGED <<decided, trouble, view, round, disk>>

\* A call the node is handling ends with it.
Restart(i) ==
  /\ ~settled
  /\ restarts < MaxRestarts
  /\ restarts' = restarts + 1
  /\ applied' = [applied EXCEPT ![i] = <<>>]
  /\ IF asked = i /\ pc = "data" THEN answer' = Nil ELSE UNCHANGED answer
  /\ UNCHANGED <<decided, settled, view, pc, left, asked, disk>>

Settle ==
  /\ ~settled
  /\ settled' = TRUE
  /\ UNCHANGED <<cluster, restarts, view, round, disk>>

MayAnswer(i) == settled => i \notin Lost
MayFail(i)   == settled => i \in Lost
-------------------------------------------------------------------------------
(* RunOnce.                                                                *)

\* Run: at the start, and whenever the ticker ticks.
BeginRound ==
  /\ pc = "idle"
  /\ pc' = "refresh"
  /\ UNCHANGED <<cluster, trouble, view, left, asked, answer, disk>>

\* Discovery.Refresh, whose error is ignored.
Refresh ==
  /\ pc = "refresh"
  /\ pc' = "leader"
  /\ \/ /\ \E i \in peers : MayAnswer(i)
        /\ leaderID' \in Server \cup {Nil}
        /\ peers' = Server
     \/ /\ \A i \in peers : MayFail(i)
        /\ UNCHANGED view
  /\ UNCHANGED <<cluster, trouble, left, asked, answer, disk>>

\* LeaderAddress, and the call of fetchAndWrite for it.
AskLeader ==
  /\ pc = "leader"
  /\ left' = peers
  /\ IF leaderID \in peers
     THEN pc' = "metadata" /\ asked' = leaderID
     ELSE pc' = "peers" /\ UNCHANGED asked
  /\ UNCHANGED <<cluster, trouble, view, answer, disk>>

AskPeer(i) ==
  /\ pc = "peers"
  /\ i \in left
  /\ left' = left \ {i}
  /\ pc' = "metadata"
  /\ asked' = i
  /\ UNCHANGED <<cluster, trouble, view, answer, disk>>

\* (Mutant: the service ends with the first round that fails.)
RoundEndsService ==
  /\ pc = "peers"
  /\ left = {}
  /\ pc' = "ended"
  /\ UNCHANGED <<cluster, trouble, view, left, asked, answer, disk>>

\* Nobody was of use.  runOnceAndLog drops the error.
RoundFails ==
  /\ pc = "peers"
  /\ left = {}
  /\ pc' = "idle"
  /\ UNCHANGED <<cluster, trouble, view, left, asked, answer, disk>>

\* (Mutant: the index of the next entry, off by one.)
ReadNextIndex ==
  /\ pc = "metadata"
  /\ MayAnswer(asked)
  /\ answer' = [lastIncludedIndex |-> Len(applied[asked]) + 1, data |-> New]
  /\ pc' = "data"
  /\ UNCHANGED <<cluster, trouble, view, left, asked, disk>>

\* SnapshotState under Node.mu; the data are not read yet.  The term of the entry
\* at that index goes with it.
ReadMetadata ==
  /\ pc = "metadata"
  /\ MayAnswer(asked)
  /\ answer' = [lastIncludedIndex |-> Len(applied[asked]), data |-> New]
  /\ pc' = "data"
  /\ UNCHANGED <<cluster, trouble, view, left, asked, disk>>

\* Then Store.Snapshot, under the lock of the store; GetSnapshot's answer arrives.
\* (lastIncludedTerm is left out.)
ReadData ==
  /\ pc = "data"
  /\ answer # Nil
  /\ LET wire == SnapshotToWire(Execute(New, applied[asked]),
                                answer.lastIncludedIndex, 0)
     IN  answer' = [f \in DOMAIN answer |-> SnapshotFromWire(wire)[f]]
  /\ pc' = "write"
  /\ UNCHANGED <<cluster, trouble, view, left, asked, disk>>

\* writeCheckpoint: the temporary file is being written, is complete, is renamed.
BeginWrite ==
  /\ pc = "write"
  /\ tmp' = Torn
  /\ pc' = "writing"
  /\ UNCHANGED <<cluster, trouble, view, left, asked, answer, file>>

FinishWrite ==
  /\ pc = "writing"
  /\ tmp' = answer
  /\ pc' = "rename"
  /\ UNCHANGED <<cluster, trouble, view, left, asked, answer, file>>

Rename ==
  /\ pc = "rename"
  /\ file' = tmp
  /\ tmp' = Missing
  /\ pc' = "idle"
  /\ asked' = Nil
  /\ answer' = Nil
  /\ UNCHANGED <<cluster, trouble, view, left>>

\* fetchAndWrite returns an error, of the call or of the disk: the next peer.
FetchFails ==
  /\ \/ pc = "metadata" /\ MayFail(asked)
     \/ pc = "data" /\ (MayFail(asked) \/ answer = Nil)
     \/ pc \in {"write", "writing", "rename"} /\ ~settled
  /\ pc' = "peers"
  /\ asked' = Nil
  /\ answer' = Nil
  /\ UNCHANGED <<cluster, trouble, view, left, disk>>

RunOnce ==
  \/ Refresh \/ AskLeader \/ RoundFails \/ FetchFails
  \/ \E i \in Server : AskPeer(i)
  \/ ReadMetadata \/ ReadData \/ BeginWrite \/ FinishWrite \/ Rename

\* The service is stateless: it starts over, and the two files stay.
RestartService ==
  /\ ~settled
  /\ restarts < MaxRestarts
  /\ restarts' = restarts + 1
  /\ peers' = Seeds
  /\ leaderID' = Nil
  /\ pc' = "idle"
  /\ left' = {}
  /\ asked' = Nil
  /\ answer' = Nil
  /\ UNCHANGED <<cluster, settled, disk>>

Next ==
  \/ \E i \in Server : CatchUp(i) \/ Restart(i) \/ \E cmd \in Proposals : Decide(i, cmd)
  \/ Settle
  \/ BeginRound
  \/ RunOnce
  \/ RestartService

\* The ticker goes on, every call has a deadline, trouble ends, and a node that
\* is behind catches up.
Spec ==
  /\ Init
  /\ [][Next]_vars
  /\ WF_vars(BeginRound)
  /\ WF_vars(RunOnce)
  /\ WF_vars(Settle)
  /\ \A i \in Server : WF_vars(CatchUp(i))
-------------------------------------------------------------------------------
\* Whoever restores the checkpoint and executes the commands of the log after
\* lastIncludedIndex has the state of the cluster: although the data may be newer
\* than the index (SnapshotState releases one lock before it takes the other), may
\* come from a node that is far behind, and although writing can stop anywhere.
RestoreIsExact ==
  file # Missing =>
    /\ file # Torn
    /\ file.lastIncludedIndex <= Len(decided)
    /\ Execute(file.data, SubSeq(decided, file.lastIncludedIndex + 1, Len(decided)))
         = Execute(New, decided)

\* In the end the checkpoint holds all there is to hold, as long as one node
\* answers: neither failed rounds nor a leader that everybody names and nobody
\* reaches keep the service from it (RunOnce: "preferendo il Leader, se
\* conosciuto, altrimenti un peer qualsiasi").
BackupCatchesUp ==
  <>[](file = [lastIncludedIndex |-> Len(decided), data |-> Execute(New, decided)])
===============================================================================
