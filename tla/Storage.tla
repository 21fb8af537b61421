------------------------------- MODULE Storage -------------------------------
(***************************************************************************)
(* raftlog.Storage (internal/raftlog/storage.go): the persistent state of  *)
(* a node, in memory and in one file that is replaced by way of a          *)
(* temporary one.  Calls come one at a time, under Node.mu.  Writing and   *)
(* renaming may fail, and the process may die between any two system       *)
(* calls; the operating system survives.                                   *)
(***************************************************************************)
EXTENDS RaftLog

CONSTANTS
  Candidate,  \* the identifiers a vote may name
  Nil,        \* the "" of VotedFor
  MaxTerm,    \* bound: the terms callers set
  MaxLength   \* bound: the length of the log

ASSUME StorageAssumption ==
  Nil \notin Candidate /\ MaxTerm \in Nat /\ MaxLength \in Nat

VARIABLES
  state,   \* Storage.state
  file,    \* raft_state.json
  tmp,     \* raft_state.json.tmp
  at,      \* "down", "idle", or the system call that persist is about to make
  result   \* how the latest persist ended, "none" while it runs

vars == <<state, file, tmp, at, result>>

\* A file is missing, cut off in the middle, or holds a whole state.
Missing == [content |-> "missing"]
Torn == [content |-> "torn"]
Whole(s) == [content |-> "whole", state |-> s]

Zero == [term |-> 0, vote |-> Nil, log |-> <<>>]

\* What load makes of the file.
Loaded == IF file.content = "whole" THEN file.state ELSE Zero

\* The identifier of the entry at an index is its term: a term has one leader,
\* who writes one entry at an index.
Entry(term, index) == [term |-> term, index |-> index]

Init ==
  /\ state = Zero
  /\ file = Missing
  /\ tmp = Missing
  /\ at = "down"
  /\ result = "error"

\* Open and load; a file that cannot be parsed ends the process at once.
Open ==
  /\ at = "down"
  /\ file.content # "torn"
  /\ state' = Loaded
  /\ at' = "idle"
  /\ UNCHANGED <<file, tmp, result>>

\* An operation changes the memory and calls persist.
Change(new) ==
  /\ at = "idle"
  /\ state' = new
  /\ at' = "write"
  /\ result' = "none"
  /\ UNCHANGED <<file, tmp>>

\* Callers never go back to an earlier term.
SetTermAndVote(term, vote) ==
  /\ term >= state.term
  /\ Change([state EXCEPT !.term = term, !.vote = vote])

\* Both callers append at the index after the last.
AppendEntry(term) ==
  /\ term \in LastLogTerm(state.log)..state.term
  /\ Len(state.log) < MaxLength
  /\ Change([state EXCEPT !.log = Append(@, Entry(term, LastLogIndex(@) + 1))])

\* Storage.Truncate: outside the log it returns at once.
TruncateFrom(index) ==
  /\ index \in 1..Len(state.log)
  /\ Change([state EXCEPT !.log = Truncate(@, index)])

\* (Mutant: the file itself is overwritten.)
BeginWriteInPlace ==
  /\ at = "write"
  /\ file' = Torn
  /\ at' = "finish"
  /\ UNCHANGED <<state, tmp, result>>

\* os.WriteFile opens, and so empties, the temporary file ...
BeginWrite ==
  /\ at = "write"
  /\ tmp' = Torn
  /\ at' = "finish"
  /\ UNCHANGED <<state, file, result>>

\* ... and fills it.
FinishWrite ==
  /\ at = "finish"
  /\ tmp' = Whole(state)
  /\ at' = "rename"
  /\ UNCHANGED <<state, file, result>>

Rename ==
  /\ at = "rename"
  /\ file' = tmp
  /\ tmp' = Missing
  /\ at' = "idle"
  /\ result' = "ok"
  /\ UNCHANGED state

\* (Mutant: an error of the system calls is dropped.)
ErrorDropped ==
  /\ at \in {"write", "finish", "rename"}
  /\ at' = "idle"
  /\ result' = "ok"
  /\ UNCHANGED <<state, file, tmp>>

\* A system call fails: persist returns its error, and the change in memory
\* stays.
PersistFails ==
  /\ at \in {"write", "finish", "rename"}
  /\ at' = "idle"
  /\ result' = "error"
  /\ UNCHANGED <<state, file, tmp>>

Crash ==
  /\ at # "down"
  /\ state' = Zero
  /\ at' = "down"
  /\ result' = "error"
  /\ UNCHANGED <<file, tmp>>

Next ==
  \/ Open
  \/ \E term \in 0..MaxTerm : \E vote \in Candidate \cup {Nil} : SetTermAndVote(term, vote)
  \/ \E term \in 0..MaxTerm : AppendEntry(term)
  \/ \E index \in 1..MaxLength : TruncateFrom(index)
  \/ BeginWrite
  \/ FinishWrite
  \/ Rename
  \/ PersistFails
  \/ Crash

Spec == Init /\ [][Next]_vars
-------------------------------------------------------------------------------
Abstract == INSTANCE DurableState WITH
  mem <- state, disk <- Loaded, up <- at # "down", answer <- result

\* What a restart finds is the state of the last write that reported success,
\* whatever failed or was cut off since, and however often (storage.go: persist,
\* "mai uno stato a metà").
ImplementsDurableState == Abstract!Spec

\* A node can always be started again: no crash or error leaves a file that load
\* cannot parse (storage.go: persist, load).
FileIsReadable == file.content # "torn"

\* What makes both true: while persist is underway no result is reported, and the
\* temporary file that is about to replace the file holds the state in memory.
StorageInv ==
  /\ FileIsReadable
  /\ at \in {"down", "idle", "write", "finish", "rename"}
  /\ at \in {"write", "finish", "rename"} <=> result = "none"
  /\ at = "rename" => tmp = Whole(state)
===============================================================================
