------------------------------- MODULE NodeDisk -------------------------------
(***************************************************************************)
(* The handlers of raft.Node (internal/raft/node.go) over a storage whose  *)
(* writes may fail.  A failed write leaves its change in memory (Storage   *)
(* shows it), and the handlers differ in what they do about the error:     *)
(* becomeFollowerLocked ignores it, the others stop where they are.  A     *)
(* crash brings back the disk.                                             *)
(*                                                                         *)
(* One node, every write of a handler a step of its own.  The others are   *)
(* its environment: any candidate may ask for a vote, and each term has a  *)
(* leader whose log, leaderLog, is what it has appended when its           *)
(* leadership ends; its requests are pieces of it.  Only what writes the   *)
(* storage is modelled; roles, timers and commitment are in Raft.          *)
(***************************************************************************)
EXTENDS RaftLog

CONSTANTS
  Me,           \* this node
  Candidate,    \* the other nodes
  Nil,          \* the "" of VotedFor
  MaxTerm,      \* bound: the terms
  MaxLength,    \* bound: the length of a leader's log
  MaxFailures,  \* bound: the number of writes that fail
  MaxCrashes    \* bound: the number of crashes

ASSUME NodeAssumption ==
  /\ Me \notin Candidate /\ Nil \notin Candidate \cup {Me}
  /\ MaxTerm \in Nat /\ MaxLength \in Nat
  /\ MaxFailures \in Nat /\ MaxCrashes \in Nat

VARIABLES
  leaderLog,  \* for every term, the log of its leader
  mem,        \* Storage.state
  disk,       \* what a restart reads
  request,    \* the request being handled, or Idle
  granted,    \* history: <<term, candidate>> of every vote that left the node
  acked,      \* history: <<term, index>> of the entries that the leader of a term sent
              \* and was told to be stored
  failures,   \* writes that failed
  crashes     \* crashes so far

vars == <<leaderLog, mem, disk, request, granted, acked, failures, crashes>>
history == <<granted, acked>>

Term == 1..MaxTerm
Idle == [type |-> "idle"]

\* The identifier of the entry at an index is its term, as in Storage.
Entry(term, index) == [term |-> term, index |-> index]

LogsUpTo(term) ==
  {l \in UNION {[1..n -> {Entry(t, k) : t \in 1..term, k \in 1..n}] : n \in 0..MaxLength} :
     \A k \in DOMAIN l : l[k].index = k /\ \A before \in 1..k : l[before].term <= l[k].term}

\* Logs of a cluster agree up to every index at which they hold the same entry.
Compatible(l1, l2) ==
  \A k \in DOMAIN l1 \cap DOMAIN l2 :
    l1[k] = l2[k] => \A before \in 1..k : l1[before] = l2[before]

Init ==
  /\ leaderLog \in [Term -> LogsUpTo(MaxTerm)]
  /\ \A t \in Term : leaderLog[t] \in LogsUpTo(t)
  /\ \A t1, t2 \in Term : Compatible(leaderLog[t1], leaderLog[t2])
  /\ mem = [term |-> 0, vote |-> Nil, log |-> <<>>]
  /\ disk = mem
  /\ request = Idle
  /\ granted = {}
  /\ acked = {}
  /\ failures = 0
  /\ crashes = 0

\* A storage operation that makes new the state and returns nil, or an error.
Write(new) == mem' = new /\ disk' = new /\ UNCHANGED failures
WriteFails(new) ==
  /\ failures < MaxFailures
  /\ failures' = failures + 1
  /\ mem' = new
  /\ UNCHANGED disk

\* (Mutant: only the log goes to the file.)
WriteLogOnly(new) ==
  /\ mem' = new
  /\ disk' = [disk EXCEPT !.log = new.log]
  /\ UNCHANGED failures

\* Storage.Append and Storage.Truncate write as SetTermAndVote does.
WriteLog(new) == Write(new)

\* becomeFollowerLocked: no one looks at the error.
BecomeFollower(term) ==
  IF term > mem.term
  THEN LET new == [mem EXCEPT !.term = term, !.vote = Nil]
       IN  Write(new) \/ WriteFails(new)
  ELSE UNCHANGED <<mem, disk, failures>>

\* HandleRequestVote, up to the vote.  A stale request changes nothing.
ReceiveVoteRequest(term, candidate) ==
  /\ request = Idle
  /\ term >= mem.term
  /\ BecomeFollower(term)
  /\ request' = [type |-> "vote", term |-> term, candidate |-> candidate]
  /\ UNCHANGED <<leaderLog, history, crashes>>

\* Whether the candidate's log is up to date is up to the candidate: any last
\* entry may be in the request.
CanGrant(lastTerm, lastIndex) ==
  /\ mem.vote \in {Nil, request.candidate}
  /\ UpToDate(lastTerm, lastIndex, mem.log)

DenyVote(lastTerm, lastIndex) ==
  /\ request.type = "vote"
  /\ ~CanGrant(lastTerm, lastIndex)
  /\ request' = Idle
  /\ UNCHANGED <<leaderLog, mem, disk, history, failures, crashes>>

\* (Mutant: the error of the write is only logged.)
GrantAnyway(lastTerm, lastIndex) ==
  /\ request.type = "vote"
  /\ CanGrant(lastTerm, lastIndex)
  /\ LET new == [mem EXCEPT !.vote = request.candidate]
     IN  Write(new) \/ WriteFails(new)
  /\ granted' = granted \cup {<<mem.term, request.candidate>>}
  /\ request' = Idle
  /\ UNCHANGED <<leaderLog, acked, crashes>>

\* The vote leaves only if it is on disk.
GrantVote(lastTerm, lastIndex) ==
  /\ request.type = "vote"
  /\ CanGrant(lastTerm, lastIndex)
  /\ LET new == [mem EXCEPT !.vote = request.candidate]
     IN  \/ Write(new) /\ granted' = granted \cup {<<mem.term, request.candidate>>}
         \/ WriteFails(new) /\ UNCHANGED granted
  /\ request' = Idle
  /\ UNCHANGED <<leaderLog, acked, crashes>>

\* startElection: no vote is asked for, and so none counted, if the write fails.
StartElection ==
  /\ request = Idle
  /\ mem.term < MaxTerm
  /\ LET new == [term |-> mem.term + 1, vote |-> Me, log |-> mem.log]
     IN  \/ Write(new) /\ granted' = granted \cup {<<new.term, Me>>}
         \/ WriteFails(new) /\ UNCHANGED granted
  /\ UNCHANGED <<leaderLog, request, acked, crashes>>

\* HandleAppendEntries, up to the integration of the entries.
ReceiveAppendEntries(term, prev, last) ==
  LET l == leaderLog[term] IN
  /\ request = Idle
  /\ term >= mem.term
  /\ BecomeFollower(term)
  /\ request' = IF PrevMatches(mem.log, prev, TermAt(l, prev))
                THEN [type |-> "append", term |-> term, first |-> prev + 1, last |-> last,
                      entries |-> SubSeq(l, prev + 1, last)]
                ELSE Idle
  /\ UNCHANGED <<leaderLog, history, crashes>>

\* integrateEntriesLocked: the first entry that is left is in the log,
SkipEntry ==
  /\ request.type = "append" /\ request.entries # <<>>
  /\ TermAt(mem.log, Head(request.entries).index) = Head(request.entries).term
  /\ request' = [request EXCEPT !.entries = Tail(@)]
  /\ UNCHANGED <<leaderLog, mem, disk, history, failures, crashes>>

\* or another one is in its place,
CutConflict ==
  /\ request.type = "append" /\ request.entries # <<>>
  /\ TermAt(mem.log, Head(request.entries).index) \notin {0, Head(request.entries).term}
  /\ LET new == [mem EXCEPT !.log = Truncate(@, Head(request.entries).index)]
     IN  \/ WriteLog(new) /\ UNCHANGED request
         \/ WriteFails(new) /\ request' = Idle
  /\ UNCHANGED <<leaderLog, history, crashes>>

\* or nothing is.  An error ends the handler, which refuses the request.
AppendEntry ==
  /\ request.type = "append" /\ request.entries # <<>>
  /\ Head(request.entries).index > Len(mem.log)
  /\ LET new == [mem EXCEPT !.log = Append(@, Head(request.entries))]
     IN  \/ WriteLog(new) /\ request' = [request EXCEPT !.entries = Tail(@)]
         \/ WriteFails(new) /\ request' = Idle
  /\ UNCHANGED <<leaderLog, history, crashes>>

\* Success: true.
Acknowledge ==
  /\ request.type = "append" /\ request.entries = <<>>
  /\ acked' = acked \cup {<<request.term, k>> : k \in request.first..request.last}
  /\ request' = Idle
  /\ UNCHANGED <<leaderLog, mem, disk, granted, failures, crashes>>

\* The process dies between two writes, and starts again from the disk.
Crash ==
  /\ crashes < MaxCrashes
  /\ crashes' = crashes + 1
  /\ mem' = disk
  /\ request' = Idle
  /\ UNCHANGED <<leaderLog, disk, history, failures>>

HandleRequestVote ==
  \/ \E term \in Term, candidate \in Candidate : ReceiveVoteRequest(term, candidate)
  \/ \E lastTerm \in 0..MaxTerm, lastIndex \in 0..MaxLength :
       DenyVote(lastTerm, lastIndex) \/ GrantVote(lastTerm, lastIndex)

HandleAppendEntries ==
  \/ \E term \in Term : \E last \in 0..Len(leaderLog[term]) : \E prev \in 0..last :
       ReceiveAppendEntries(term, prev, last)
  \/ SkipEntry \/ CutConflict \/ AppendEntry \/ Acknowledge

Next == HandleRequestVote \/ StartElection \/ HandleAppendEntries \/ Crash

Spec == Init /\ [][Next]_vars
-------------------------------------------------------------------------------
\* One vote for one candidate in every term leaves the node, its own candidacies
\* included, through failing writes and restarts (node.go: HandleRequestVote,
\* startElection; storage.go: SetTermAndVote, "evita di votare due volte").
VotedOnce ==
  \A v1, v2 \in granted : v1[1] = v2[1] => v1 = v2

RequestShape ==
  /\ request.type = "vote" => request.candidate \in Candidate
  /\ request.type = "append" =>
       request = [type |-> "append", term |-> request.term, first |-> request.first,
                  last |-> request.last, entries |-> request.entries]

\* The invariant behind it: a vote that left is on disk, or the disk is at a later
\* term; memory and disk both remember the votes of their own terms.
VotesOnDisk ==
  /\ VotedOnce
  /\ \A s \in {mem, disk} :
       /\ s = [term |-> s.term, vote |-> s.vote, log |-> s.log]
       /\ s.term \in Nat
  /\ disk.term <= mem.term
  /\ RequestShape
  /\ \A v \in granted :
       /\ v = <<v[1], v[2]>> /\ v[1] \in Nat /\ v[2] \in Candidate \cup {Me}
       /\ v[1] <= disk.term
       /\ v[1] = disk.term => disk.vote = v[2]
       /\ v[1] = mem.term => mem.vote = v[2]

\* No entry on disk is of a later term than the one on disk.  It is what makes
\* the error that becomeFollowerLocked drops harmless to the entries that follow:
\* a node that restarts does not fall behind its own log (storage.go: persist
\* writes the whole state).
EntriesWithinTerm == LastLogTerm(disk.log) <= disk.term

\* An entry that a leader sent and was told to be stored is on disk as long as the
\* leader's term lasts (storage.go, Storage: "Ogni mutazione viene persistita
\* immediatamente").
AckedOnDisk ==
  \A e \in acked : e[1] = mem.term =>
    e[2] <= Len(disk.log) /\ disk.log[e[2]] = leaderLog[e[1]][e[2]]
===============================================================================
