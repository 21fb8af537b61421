-------------------------------- MODULE Clients --------------------------------
(***************************************************************************)
(* The client API of a node, internal/raft/kvserver.go over Node.Propose,  *)
(* Node.waitForCommit and Node.Get, composed with the consensus core: Put  *)
(* and Delete propose a command and poll commitIndex and the role until    *)
(* they know what to answer, Get looks at the role and then, under another *)
(* lock, at the store.                                                     *)
(*                                                                         *)
(* Put and Delete are one operation here, a command; what a Get returns is *)
(* known from the sequence of commands the store has executed.             *)
(***************************************************************************)
EXTENDS RaftSafety

VARIABLES
  waiting,   \* the handlers inside waitForCommit, with what they proposed
  acked,     \* history: the writes answered with success by their leadership
  gets       \* the Gets that have passed their check of the role

clientVars == <<waiting, acked, gets>>

\* "term" is not in the handler's hands: waitForCommit is given the index alone.
Write == [node : Server, index : Nat, term : Nat, cmd : Command]

ClientsInit ==
  /\ waiting = {}
  /\ acked = {}
  /\ gets = {}
-------------------------------------------------------------------------------
\* Put and Delete up to the polling: the entry is in the leader's log.
Submit(i, cmd) ==
  /\ Propose(i, cmd)
  /\ waiting' = waiting \cup
       {[node |-> i, index |-> LastLogIndex(log[i]) + 1, term |-> currentTerm[i],
         cmd |-> cmd]}
  /\ UNCHANGED <<acked, gets>>

\* (Mutant: the handler trusts that what is in its log will be committed.)
Logged(w) == LastLogIndex(log[w.node]) >= w.index

Committed(w) == commitIndex[w.node] >= w.index

\* Still the leadership the write was proposed in.  The code does not ask.
SameLeadership(w) == state[w.node] = "Leader" /\ currentTerm[w.node] = w.term

\* waitForCommit, committed: success, whatever the role is by now.
Acknowledge(w) ==
  /\ Committed(w)
  /\ waiting' = waiting \ {w}
  /\ acked' = IF SameLeadership(w) THEN acked \cup {w} ELSE acked
  /\ UNCHANGED <<vars, gets>>

\* waitForCommit, no longer leader: ErrNotLeader; or the client's deadline, its
\* cancellation or Stop ends the wait.  The entry stays where it is.
GiveUp(w) ==
  /\ waiting' = waiting \ {w}
  /\ UNCHANGED <<vars, acked, gets>>

\* What a Get that begins at leader i is held to: the writes acknowledged so far,
\* if no later leader exists and this one has committed an entry of its own term.
Owed(i) ==
  IF /\ \A e \in elected : e.term <= currentTerm[i]
     /\ commitIndex[i] > 0
     /\ log[i][commitIndex[i]].term = currentTerm[i]
  THEN acked
  ELSE {}

\* KVServer.Get, the check of the role.  Bound: one Get at a time is owed anything.
CheckRole(i) ==
  /\ state[i] = "Leader"
  /\ \A g \in gets : g.owed = {}
  /\ gets' = gets \cup {[node |-> i, owed |-> Owed(i)]}
  /\ UNCHANGED <<vars, waiting, acked>>

\* KVServer.Get, the raw read of the store: whatever has become of the role.
ReadStore(g) ==
  /\ gets' = gets \ {g}
  /\ UNCHANGED <<vars, waiting, acked>>

\* A node dies and its handlers with it: the clients see a broken connection.
HangUp(i) ==
  /\ waiting' = {w \in waiting : w.node # i}
  /\ gets' = {g \in gets : g.node # i}
  /\ UNCHANGED acked

Died ==
  \/ \E i \in Server : Crash(i) /\ HangUp(i)
  \/ \E m \in voteRequests : CrashBeforeVote(m) /\ HangUp(m.dst)
  \/ \E m \in appendRequests : CrashWhileAppending(m) /\ HangUp(m.dst)

\* What the cluster does by itself: every step of Raft but Propose and a crash.
Replicate ==
  /\ \/ \E i \in Server :
          \/ StartElection(i)
          \/ Broadcast(i)
          \/ \E j \in Server \ {i} : \E commit \in announced[i] :
               ReplicateToPeer(i, j, commit)
     \/ \E m \in voteRequests : HandleRequestVote(m)
     \/ \E m \in voteReplies : HandleVoteReply(m)
     \/ \E m \in appendRequests : HandleAppendEntries(m) \/ LoseAppendRequest(m)
     \/ \E m \in appendReplies : HandleAppendReply(m) \/ LoseAppendReply(m)
  /\ UNCHANGED clientVars

Serve ==
  \/ \E i \in Server : CheckRole(i) \/ \E cmd \in Command : Submit(i, cmd)
  \/ \E w \in waiting : Acknowledge(w) \/ GiveUp(w)
  \/ \E g \in gets : ReadStore(g)

ClientsNext == Serve \/ Replicate \/ Died

ClientsSpec == Init /\ ClientsInit /\ [][ClientsNext]_<<vars, clientVars>>
-------------------------------------------------------------------------------
IsChosen(w) ==
  /\ w.index \in DOMAIN chosen
  /\ chosen[w.index].entry = [term |-> w.term, index |-> w.index, cmd |-> w.cmd]

\* A write acknowledged by the leadership it was proposed to is committed for
\* good: as long as the node was not deposed meanwhile, commitIndex alone is
\* evidence enough (waitForCommit).
SureAckIsChosen == \A w \in acked : IsChosen(w)

\* A Get that begins at the newest leader, once that has committed an entry of
\* its own term, returns every write acknowledged before it began, although the
\* role and the store are read under two locks and the node may be deposed in
\* between (KVServer.Get).
ReadsSeeAcks ==
  [][\A g \in gets : ReadStore(g) =>
       \A w \in g.owed : w.index \in DOMAIN applied[g.node]
                           /\ applied[g.node][w.index] = w.cmd]_<<vars, clientVars>>

\* node.go:240, Propose "attende che l'entry venga committata dalla maggioranza
\* prima di ritornare": what is acknowledged is the command committed there.
AckedIsChosen ==
  [][\A w \in waiting : Acknowledge(w) =>
       w.index \in DOMAIN chosen /\ chosen[w.index].entry.cmd = w.cmd]_<<vars, clientVars>>
===============================================================================
