------------------------------- MODULE RaftLog -------------------------------
(***************************************************************************)
(* The operators of internal/raft and internal/raftlog that only compute   *)
(* with a log.  A log is the sequence Storage.state.Log; an entry is       *)
(* [term, index, cmd], as raftlog.Entry.  The module has no state: the     *)
(* specifications Raft, IntegrateLoop, Storage and NodeDisk use it.        *)
(***************************************************************************)
EXTENDS Integers, Sequences, FiniteSets

\* Storage.LastLogIndex: the Index FIELD of the last entry, not the length.
LastLogIndex(l) == IF l = <<>> THEN 0 ELSE l[Len(l)].index

\* Storage.LastLogTerm.
LastLogTerm(l) == IF l = <<>> THEN 0 ELSE l[Len(l)].term

\* termAtIndexLocked: 0 stands for "no entry there".
TermAt(l, index) == IF index \in 1..Len(l) THEN l[index].term ELSE 0

\* entriesFromLocked, for a start of at least 1.
EntriesFrom(l, start) == SubSeq(l, start, Len(l))

\* (Mutant: an off-by-one that keeps the conflicting entry.)
TruncateAfter(l, from) == IF from \in 1..Len(l) THEN SubSeq(l, 1, from) ELSE l

\* Storage.Truncate: drops the entry at position "from" and all after it.
Truncate(l, from) == IF from \in 1..Len(l) THEN SubSeq(l, 1, from - 1) ELSE l

\* (Mutants: no election restriction, or one that compares lengths alone.)
AnyLog(lastTerm, lastIndex, l) == TRUE
LongerLog(lastTerm, lastIndex, l) == lastIndex >= LastLogIndex(l)

\* The election restriction of HandleRequestVote.
UpToDate(lastTerm, lastIndex, l) ==
  \/ lastTerm > LastLogTerm(l)
  \/ lastTerm = LastLogTerm(l) /\ lastIndex >= LastLogIndex(l)

\* (Mutant: the entry has to be there, of whatever term.)
PrevExists(l, prevIndex, prevTerm) == prevIndex > 0 => TermAt(l, prevIndex) # 0

\* The consistency check of HandleAppendEntries.
PrevMatches(l, prevIndex, prevTerm) ==
  prevIndex > 0 => TermAt(l, prevIndex) # 0 /\ TermAt(l, prevIndex) = prevTerm

\* The entries integrateEntriesLocked does not skip: those whose index the log
\* lacks, or where it holds an entry of another term.
NewEntries(l, es) ==
  {k \in DOMAIN es : es[k].index \in DOMAIN l => l[es[k].index].term # es[k].term}

FirstNew(l, es) ==
  CHOOSE k \in NewEntries(l, es) : \A other \in NewEntries(l, es) : k <= other

\* (Mutants: everything after the request's start is replaced, the famous mistake
\* with delayed requests; or what is in the way stays.)
ReplaceTail(l, es) == IF es = <<>> THEN l ELSE Truncate(l, es[1].index) \o es
KeepConflicts(l, es) ==
  LET kept == {k \in DOMAIN es : es[k].index <= Len(l)}
  IN  l \o SubSeq(es, Cardinality(kept) + 1, Len(es))

\* integrateEntriesLocked.  The first entry that is not a duplicate truncates
\* the log at its index when something is in the way; from then on every entry
\* lands beyond the end of the log and is appended.
IntegrateEntries(l, es) ==
  IF NewEntries(l, es) = {} THEN l
  ELSE LET k == FirstNew(l, es)
       IN  Truncate(l, es[k].index) \o SubSeq(es, k, Len(es))

\* What the disk may hold if the process dies inside integrateEntriesLocked:
\* Truncate and each Append are persisted one by one.
InterruptedIntegrations(l, es) ==
  {l} \cup
  (IF NewEntries(l, es) = {} THEN {}
   ELSE LET k == FirstNew(l, es)
        IN  {Truncate(l, es[k].index) \o SubSeq(es, k, last) :
                 last \in (k - 1)..Len(es)})
==============================================================================
