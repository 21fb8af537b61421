----------------------------- MODULE IntegrateLoop -----------------------------
(***************************************************************************)
(* integrateEntriesLocked (internal/raft/node.go) one loop step at a time, *)
(* with the calls of raftlog.Storage it makes, each of which persists the  *)
(* log before it returns.  Raft takes the whole call as one operator,      *)
(* IntegrateEntries, and what a crash inside it may leave behind as        *)
(* another, InterruptedIntegrations: this module checks both against the   *)
(* loop.  The request arrives as Transport says, field by field; Raft has  *)
(* it arrive as it was sent.                                               *)
(***************************************************************************)
EXTENDS RaftLog, Transport

CONSTANTS
  Term,      \* the terms entries may carry
  MaxLength  \* bound: the length of a log and of a request's entries

ASSUME LoopAssumption == Term \subseteq Nat \ {0} /\ MaxLength \in Nat

VARIABLES
  before,   \* Storage.state.Log when the call starts
  sent,     \* the entries as the leader has them
  entries,  \* the argument newEntries
  log,      \* Storage.state.Log, in memory and on disk
  next,     \* the position in entries the loop is at
  at        \* "check" at the head of an iteration, "append" before Storage.Append

vars == <<before, sent, entries, log, next, at>>

\* Entries as the cluster writes them: consecutive indexes, and terms that never
\* decrease.
Sequence(first, terms, cmds) ==
  [k \in DOMAIN terms |->
     [term |-> terms[k], index |-> first + k - 1, cmd |-> cmds[terms[k]]]]

Terms ==
  {t \in UNION {[1..n -> Term] : n \in 0..MaxLength} :
     \A k \in DOMAIN t : \A later \in k..Len(t) : t[k] <= t[later]}

\* Client.AppendEntries and Server.AppendEntries, around a request for these entries.
Arriving(es) ==
  AppendRequestFromWire(AppendRequestToWire(
    [term |-> 1, leaderID |-> Empty, prevLogIndex |-> 0, prevLogTerm |-> 0,
     entries |-> es, leaderCommit |-> 0])).entries

\* The call is reached when the entry at prevIndex, if there is one, is also the
\* sender's.  The commands are one per term: entries of one term and index are one
\* entry (RaftSafety: LogMatching).
Init ==
  \E mine, theirs \in Terms, cmds \in [Term -> Command] : \E prevIndex \in 0..Len(mine) :
    /\ prevIndex > 0 /\ theirs # <<>> => mine[prevIndex] <= theirs[1]
    /\ before = Sequence(1, mine, cmds)
    /\ sent = Sequence(prevIndex + 1, theirs, cmds)
    /\ entries = Arriving(sent)
    /\ log = before
    /\ next = 1
    /\ at = "check"

\* (Mutants, used by no definition: a check of the index alone, an off-by-one in
\* the call of Truncate, a cut at the start of the request.)
SkipAnyTerm ==
  /\ at = "check"
  /\ next <= Len(entries)
  /\ entries[next].index <= Len(log)
  /\ next' = next + 1
  /\ UNCHANGED <<before, sent, entries, log, at>>

CutAfterConflict ==
  /\ at = "check"
  /\ next <= Len(entries)
  /\ entries[next].index <= Len(log)
  /\ log[entries[next].index].term # entries[next].term
  /\ log' = Truncate(log, entries[next].index + 1)
  /\ at' = "append"
  /\ UNCHANGED <<before, sent, entries, next>>

CutFromFirst ==
  /\ at = "check"
  /\ next <= Len(entries)
  /\ entries[next].index <= Len(log)
  /\ log[entries[next].index].term # entries[next].term
  /\ log' = Truncate(log, entries[1].index)
  /\ at' = "append"
  /\ UNCHANGED <<before, sent, entries, next>>

\* "continue": the entry is there already.
Skip ==
  /\ at = "check"
  /\ next <= Len(entries)
  /\ entries[next].index <= Len(log)
  /\ log[entries[next].index].term = entries[next].term
  /\ next' = next + 1
  /\ UNCHANGED <<before, sent, entries, log, at>>

\* Another entry is in the way: Storage.Truncate.
CutConflict ==
  /\ at = "check"
  /\ next <= Len(entries)
  /\ entries[next].index <= Len(log)
  /\ log[entries[next].index].term # entries[next].term
  /\ log' = Truncate(log, entries[next].index)
  /\ at' = "append"
  /\ UNCHANGED <<before, sent, entries, next>>

\* Nothing is in the way.
ReachEnd ==
  /\ at = "check"
  /\ next <= Len(entries)
  /\ entries[next].index > Len(log)
  /\ at' = "append"
  /\ UNCHANGED <<before, sent, entries, log, next>>

\* Storage.Append.
AppendEntry ==
  /\ at = "append"
  /\ log' = Append(log, entries[next])
  /\ next' = next + 1
  /\ at' = "check"
  /\ UNCHANGED <<before, sent, entries>>

Next == Skip \/ CutConflict \/ ReachEnd \/ AppendEntry

Spec == Init /\ [][Next]_vars
-------------------------------------------------------------------------------
\* When the loop ends, the log is what IntegrateEntries says of the entries the
\* leader sent.
ResultIsIntegrateEntries ==
  at = "check" /\ next > Len(entries) => log = IntegrateEntries(before, sent)

\* Wherever the process dies inside the call, the disk holds a log that
\* InterruptedIntegrations lists.
DiskIsAnticipated ==
  log \in InterruptedIntegrations(before, sent)

\* No crash inside the call costs an entry the sender agrees with: the entries
\* before the request, and those it repeats up to the first conflict, are on
\* disk throughout; and if nothing conflicts, so is the whole log.
AgreementSurvives ==
  LET conflicts == {k \in DOMAIN entries :
                      /\ entries[k].index <= Len(before)
                      /\ before[entries[k].index].term # entries[k].term}
  IN  \A k \in DOMAIN before :
        (\A c \in conflicts : k < entries[c].index)
          => k \in DOMAIN log /\ log[k] = before[k]
===============================================================================
