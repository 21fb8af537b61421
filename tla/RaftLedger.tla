------------------------------ MODULE RaftLedger ------------------------------
(***************************************************************************)
(* Why the logs of Raft match and why what is committed stays: the         *)
(* inductive invariant behind LogMatching, LeaderCompleteness,             *)
(* ChosenOnMajority and the rest of RaftSafety.                            *)
(*                                                                         *)
(* Logs are cut, nodes move to later terms and messages arrive late, so    *)
(* the invariant speaks of two functions that remember:                    *)
(*                                                                         *)
(*   L[t]     the log of the leader of term t, as long as it got while it  *)
(*            led; empty if t has no leader.  A leader only appends.       *)
(*   S[t][j]  how far j has stored L[t] while it was in term t.            *)
(*                                                                         *)
(* Neither is a variable of Raft.  The proofs show that there are such     *)
(* functions in every reachable state.                                     *)
(***************************************************************************)
EXTENDS RaftSafety

\* a and b are the same up to k.
Agree(a, b, k) ==
  /\ k <= Len(a)
  /\ k <= Len(b)
  /\ \A n \in 1..k : a[n] = b[n]

\* a is a beginning of b.
Begins(a, b) == Agree(a, b, Len(a))

\* The leader of t made the entry k of its log itself.
Own(L, t, k) == k \in DOMAIN L[t] /\ L[t][k].term = t

\* A majority has stored the entry k of term t, or may still do so: a node that
\* has left a term stores nothing in it.
Choosable(S, t, k) ==
  Cardinality({j \in Server : currentTerm[j] <= t \/ k <= S[t][j]}) >= Majority

\* A majority has.
Stored(S, t, k) == Cardinality({j \in Server : k <= S[t][j]}) >= Majority

-------------------------------------------------------------------------------
(* The logs.                                                               *)

\* The request carries a piece of g, the one that follows prevIndex; or its leader
\* had no entry at prevIndex, and everybody refuses it.
IsPiece(m, g) ==
  \/ m.prevIndex > 0 /\ m.prevTerm = 0
  \/ /\ m.prevIndex + Len(m.entries) <= Len(g)
     /\ m.prevIndex > 0 => m.prevTerm = g[m.prevIndex].term
     /\ \A n \in DOMAIN m.entries : m.entries[n] = g[m.prevIndex + n]

\* Every entry comes from the leader of its term, with all that was before it.
EntriesFromLeaders(L) ==
  \A t \in Nat : \A k \in DOMAIN L[t] :
    L[t][k].term <= t /\ Agree(L[t], L[L[t][k].term], k)

\* Every log is a beginning of what some leader had, up to the node's own term.
LogsFromLeaders(L) ==
  \A i \in Server :
    /\ \E t \in 0..currentTerm[i] : Begins(log[i], L[t])
    /\ state[i] = "Leader" => log[i] = L[currentTerm[i]]

LedgerInv(L) ==
  /\ L \in [Nat -> Seq(Entry)]
  /\ \A t \in Nat : \A k \in DOMAIN L[t] : L[t][k].index = k
  /\ \A t \in Nat : L[t] # <<>> => \E e \in elected : e.term = t
  /\ EntriesFromLeaders(L)
  /\ LogsFromLeaders(L)
  /\ \A m \in appendRequests : IsPiece(m, L[m.term])

-------------------------------------------------------------------------------
(* What the nodes have stored.                                             *)

\* In the term itself, and as long as a majority may have the entry also later.
StoredIsKept(L, S) ==
  \A j \in Server : \A t \in Nat : \A k \in 1..S[t][j] :
    t = currentTerm[j] \/ (Own(L, t, k) /\ Choosable(S, t, k)) => Agree(log[j], L[t], k)

\* The leader counts only what is stored; a reply reports only what is.
CountsStored(S) ==
  /\ \A i \in Server : state[i] = "Leader" =>
       /\ S[currentTerm[i]][i] = Len(log[i])
       /\ \A j \in Server : matchIndex[i][j] <= S[currentTerm[i]][j]
  /\ \A m \in appendReplies : m.success => m.match <= S[m.call][m.src]

StoredInv(L, S) ==
  /\ S \in [Nat -> [Server -> Nat]]
  /\ \A t \in Nat : \A j \in Server :
       S[t][j] <= Len(L[t]) /\ (S[t][j] > 0 => t <= currentTerm[j])
  /\ StoredIsKept(L, S)
  /\ CountsStored(S)

-------------------------------------------------------------------------------
(* The elections.                                                          *)

\* A later leader has every entry that a majority may have stored.
LeadersHoldChoosable(L, S) ==
  \A e \in elected : \A t \in 0..(e.term - 1) : \A k \in DOMAIN L[t] :
    Own(L, t, k) /\ Choosable(S, t, k) => Agree(L[e.term], L[t], k)

\* So has a candidate, of those that somebody who voted for it has stored.
CandidatesHoldChoosable(L, S) ==
  \A i \in Server : state[i] = "Candidate" =>
    \A j \in Supporters(currentTerm[i], i) :
      \A t \in 0..(currentTerm[i] - 1) : \A k \in 1..S[t][j] :
        Own(L, t, k) /\ Choosable(S, t, k) => Agree(log[i], L[t], k)

\* The log of a candidate is the one its vote requests speak of.
RequestsDescribeLog ==
  \A m \in voteRequests :
    state[m.src] = "Candidate" /\ currentTerm[m.src] = m.term =>
      m.lastIndex = LastLogIndex(log[m.src]) /\ m.lastTerm = LastLogTerm(log[m.src])

CampaignInv(L, S) ==
  /\ LeadersHoldChoosable(L, S)
  /\ CandidatesHoldChoosable(L, S)
  /\ RequestsDescribeLog

-------------------------------------------------------------------------------
(* What is committed.                                                      *)

\* The leader of t may commit n: it made the entry itself and a majority has it.
Confirmed(L, S, t, n) == Own(L, t, n) /\ Stored(S, t, n)

\* A leader of a term up to "term" committed everything up to c.
Known(L, S, c, term) ==
  /\ c <= Len(chosen)
  /\ c > 0 => \E t \in 0..term : \E n \in DOMAIN L[t] : c <= n /\ Confirmed(L, S, t, n)

\* What was chosen is the log of the leader that chose it.
ChosenFromLeaders(L, S) ==
  \A k \in DOMAIN chosen :
    LET t == chosen[k].at
    IN  /\ \E n \in DOMAIN L[t] : k <= n /\ Confirmed(L, S, t, n)
        /\ L[t][k] = chosen[k].entry

\* A commit index, wherever it stands, is one of a leader up to that term.
CommitIndexesKnown(L, S) ==
  /\ \A i \in Server : Known(L, S, commitIndex[i], currentTerm[i])
  /\ \A i \in Server : state[i] = "Leader" =>
       \A c \in announced[i] : Known(L, S, c, currentTerm[i])
  /\ \A m \in appendRequests : Known(L, S, m.commit, m.term)

\* What a node has executed is in its log and is what was chosen.
ExecutedIsChosen ==
  \A i \in Server :
    /\ commitIndex[i] <= Len(log[i])
    /\ \A k \in 1..commitIndex[i] : log[i][k] = chosen[k].entry
    /\ applied[i] = [k \in 1..commitIndex[i] |-> chosen[k].entry.cmd]

CommitInv(L, S) ==
  /\ ChosenFromLeaders(L, S)
  /\ CommitIndexesKnown(L, S)
  /\ ExecutedIsChosen
===============================================================================
