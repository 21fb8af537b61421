--------------------------- MODULE RaftCommitProofs ---------------------------
(***************************************************************************)
(* Raft for every cluster, every set of commands and every value of the    *)
(* bounds: what is committed stays committed, later leaders have it, the   *)
(* stores execute it in order, and so the cluster implements               *)
(* ReplicatedLog.                                                          *)
(*                                                                         *)
(* The invariant is that of RaftLedger: there are functions L, what the    *)
(* leader of each term had, and S, how far each node stored it, such that  *)
(* Safe(L, S) holds.  A step changes them to M and R (Advance): L[t] grows *)
(* at its end, S[t][j] grows while j is in t.                              *)
(*                                                                         *)
(* The argument turns on Choosable.  A majority has stored the entry k of  *)
(* term t, or may still: the nodes that are in t, or before it, count as   *)
(* well.  A node that moves on without the entry ends its chance for good, *)
(* so what is choosable was choosable before (ChoosableBefore).  A         *)
(* majority that elected a leader of a later term has left t, so if the    *)
(* entry is choosable now, one of the voters stored it (SupporterStored),  *)
(* and the candidate's log was up to date for that voter, hence contains   *)
(* it (UpToDateHolds).  That makes LeadersHoldChoosable inductive, and     *)
(* with it everything that logs and commit indexes are promised: a         *)
(* committed entry is on a majority, so it is choosable forever.           *)
(*                                                                         *)
(* The clients change nothing of Raft, so the same invariant holds with    *)
(* them.  What is added: a write that waits is in its leader's log for as  *)
(* long as that leadership lasts (Waits), one that was acknowledged by it  *)
(* is committed (Sure), and a Get's node has executed what the Get is owed *)
(* (Served).                                                               *)
(***************************************************************************)
EXTENDS RaftProofs, Clients

(* What the invariant says of one state.                                   *)

\* The functions of RaftLedger, value by value.
LEMMA LedgerTypes ==
  ASSUME TypeInv, NEW L, LedgerInv(L)
  PROVE  /\ \A t \in Nat : /\ L[t] \in Seq(Entry)
                           /\ Len(L[t]) \in Nat
                           /\ DOMAIN L[t] = 1..Len(L[t])
                           /\ \A k \in DOMAIN L[t] : L[t][k].term \in Nat
         /\ \A i \in Server : /\ log[i] \in Seq(Entry)
                              /\ Len(log[i]) \in Nat
                              /\ DOMAIN log[i] = 1..Len(log[i])
                              /\ currentTerm[i] \in Nat
<1>1. ASSUME NEW a \in Seq(Entry)
      PROVE  /\ Len(a) \in Nat
             /\ DOMAIN a = 1..Len(a)
             /\ \A k \in DOMAIN a : a[k].term \in Nat
  <2>1. \A k \in DOMAIN a : a[k] \in Entry
    OBVIOUS
  <2> QED BY <2>1 DEF Entry
<1>2. \A t \in Nat : L[t] \in Seq(Entry)
  BY DEF LedgerInv
<1>3. \A i \in Server : log[i] \in Seq(Entry) /\ currentTerm[i] \in Nat
  BY DEF TypeInv, TypeOK
<1> QED BY <1>1, <1>2, <1>3

\* The chosen sequence, entry by entry.
LEMMA ChosenTypes ==
  ASSUME TypeInv
  PROVE  /\ Len(chosen) \in Nat
         /\ DOMAIN chosen = 1..Len(chosen)
         /\ \A k \in DOMAIN chosen : chosen[k].at \in Nat /\ k \in Nat \ {0}
<1> DEFINE R == [entry : Entry, at : Nat]
<1>1. chosen \in Seq(R)
  BY DEF TypeInv, TypeOK
<1>2. \A r \in R : r.at \in Nat
  OBVIOUS
<1> HIDE DEF R
<1>3. \A k \in DOMAIN chosen : chosen[k] \in R
  BY <1>1
<1> QED BY <1>1, <1>2, <1>3

\* AgreeTransitive as one formula, for steps that use it several times.
LEMMA Transitive ==
  \A a, b, c \in Seq(Entry) : \A k, n, x \in Nat :
    Agree(a, b, k) /\ Agree(b, c, n) /\ x <= k /\ x <= n => Agree(a, c, x)
BY AgreeTransitive

\* The terms in what a leader had never decrease.
LEMMA TermsGrow ==
  ASSUME TypeInv, NEW L, LedgerInv(L), NEW t \in Nat,
         NEW a \in DOMAIN L[t], NEW b \in DOMAIN L[t], a <= b
  PROVE  L[t][a].term <= L[t][b].term
<1>1. PICK u \in Nat : u = L[t][b].term
  BY LedgerTypes
<1>2. Agree(L[t], L[u], b)
  BY <1>1 DEF LedgerInv, EntriesFromLeaders
<1>3. a \in 1..b /\ a \in DOMAIN L[u]
  BY <1>1, <1>2, LedgerTypes DEF Agree
<1>4. L[t][a] = L[u][a]
  BY <1>2, <1>3 DEF Agree
<1>5. L[u][a].term <= u
  BY <1>1, <1>3 DEF LedgerInv, EntriesFromLeaders
<1> QED BY <1>1, <1>4, <1>5

\* A log agrees with what the leader of its last term had.
LEMMA LastTermAgrees ==
  ASSUME TypeInv, NEW L, LedgerInv(L), NEW i \in Server, log[i] # <<>>
  PROVE  /\ Len(log[i]) \in DOMAIN log[i]
         /\ LastLogTerm(log[i]) \in Nat
         /\ LastLogIndex(log[i]) = Len(log[i])
         /\ Agree(log[i], L[LastLogTerm(log[i])], Len(log[i]))
         /\ L[LastLogTerm(log[i])][Len(log[i])].term = LastLogTerm(log[i])
<1>1. PICK l \in Seq(Entry) : l = log[i] /\ l # <<>>
  BY LedgerTypes
<1>2. PICK n \in Nat \ {0} : n = Len(l) /\ n \in DOMAIN l
  BY <1>1
<1>3. l[n].index = n
  BY <1>1, <1>2 DEF TypeInv, IndexIsPosition
<1>4. PICK s \in 0..currentTerm[i] : Begins(l, L[s])
  BY <1>1 DEF LedgerInv, LogsFromLeaders
<1>5. PICK h \in Seq(Entry) : h = L[s] /\ s \in Nat
  BY <1>4, LedgerTypes
<1>6. Agree(l, h, n) /\ n \in DOMAIN h /\ l[n] = h[n]
  BY <1>2, <1>4, <1>5 DEF Begins, Agree
<1>7. PICK u \in Nat : u = l[n].term
  BY <1>5, <1>6, LedgerTypes
<1>8. Agree(h, L[u], n)
  BY <1>5, <1>6, <1>7 DEF LedgerInv, EntriesFromLeaders
<1>9. n \in Nat /\ n <= n /\ L[u] \in Seq(Entry)
  BY <1>2, LedgerTypes
<1>10. Agree(l, L[u], n)
  BY <1>6, <1>8, <1>9, Transitive
<1>11. n \in 1..n
  BY <1>2
<1>12. L[u][n] = l[n]
  BY <1>10, <1>11 DEF Agree
<1>13. LastLogTerm(l) = u /\ LastLogIndex(l) = n
  BY <1>1, <1>2, <1>3, <1>7 DEF LastLogTerm, LastLogIndex
<1> QED BY <1>1, <1>2, <1>7, <1>10, <1>12, <1>13

\* The election restriction is enough: a log that j finds up to date has what j's own
\* log shares with the leader of t, as long as a majority may have stored it.
LEMMA UpToDateHolds ==
  ASSUME TypeInv, NEW L, LedgerInv(L), NEW S, LeadersHoldChoosable(L, S),
         NEW i \in Server, NEW j \in Server,
         UpToDate(LastLogTerm(log[i]), LastLogIndex(log[i]), log[j]),
         NEW t \in Nat, NEW k, Own(L, t, k), Choosable(S, t, k), Agree(log[j], L[t], k)
  PROVE  Agree(log[i], L[t], k)
<1>1. k \in Nat \ {0} /\ k \in DOMAIN L[t] /\ L[t][k].term = t /\ k <= Len(log[j])
  BY LedgerTypes DEF Own, Agree
<1>2. log[j] # <<>> /\ Len(log[j]) \in Nat
  BY <1>1, LedgerTypes
<1>3. PICK y \in Nat : y = Len(log[j])
  BY <1>2
<1>4. PICK q \in Nat :
        /\ q = LastLogTerm(log[j])
        /\ LastLogIndex(log[j]) = y
        /\ Agree(log[j], L[q], y)
        /\ L[q][y].term = q
  BY <1>2, <1>3, LastTermAgrees
<1>5. t <= q
  <2>1. k \in 1..y /\ y \in DOMAIN L[q] /\ k \in DOMAIN L[q] /\ k \in 1..k
    BY <1>1, <1>3, <1>4, LedgerTypes DEF Agree
  <2>2. log[j][k] = L[q][k] /\ log[j][k] = L[t][k]
    BY <1>4, <2>1 DEF Agree
  <2>3. L[q][k].term <= q
    BY <2>1 DEF LedgerInv, EntriesFromLeaders
  <2> QED BY <1>1, <2>2, <2>3
<1>6. log[i] # <<>>
  <2>1. y > 0
    BY <1>1, <1>3
  <2>2. ASSUME log[i] = <<>>
        PROVE  FALSE
    <3>1. LastLogTerm(log[i]) = 0 /\ LastLogIndex(log[i]) = 0
      BY <2>2 DEF LastLogTerm, LastLogIndex
    <3> QED BY <1>4, <2>1, <3>1 DEF UpToDate
  <2> QED BY <2>2
<1>7. PICK x \in Nat : x = Len(log[i])
  BY LedgerTypes
<1>8. PICK p \in Nat :
        /\ p = LastLogTerm(log[i])
        /\ LastLogIndex(log[i]) = x
        /\ x \in DOMAIN log[i]
        /\ Agree(log[i], L[p], x)
        /\ L[p][x].term = p
  BY <1>6, <1>7, LastTermAgrees
<1>9. p > q \/ (p = q /\ x >= y)
  BY <1>4, <1>8 DEF UpToDate
<1>10. /\ log[i] \in Seq(Entry) /\ L[p] \in Seq(Entry) /\ L[t] \in Seq(Entry)
       /\ x \in DOMAIN L[p] /\ x \in Nat \ {0}
  BY <1>7, <1>8, LedgerTypes DEF Agree
<1>11. CASE p > t
  <2>1. PICK e \in elected : e.term = p
    <3>1. L[p] # <<>>
      BY <1>10
    <3> QED BY <3>1 DEF LedgerInv
  <2>2. t \in 0..(e.term - 1)
    BY <1>11, <2>1
  <2>3. Agree(L[p], L[t], k)
    BY <1>1, <2>1, <2>2 DEF LeadersHoldChoosable
  <2>4. k <= x
    <3>1. ASSUME x < k
          PROVE  FALSE
      <4>1. k \in DOMAIN L[p] /\ k \in 1..k
        BY <1>1, <2>3, LedgerTypes DEF Agree
      <4>2. L[p][k] = L[t][k]
        BY <2>3, <4>1 DEF Agree
      <4>3. x <= k
        BY <1>1, <1>10, <3>1
      <4>4. L[p][x].term <= L[p][k].term
        BY <1>10, <4>1, <4>3, TermsGrow
      <4>5. p <= t
        BY <1>1, <1>8, <4>2, <4>4
      <4> QED BY <1>11, <4>5
    <3> QED BY <1>1, <1>10, <3>1
  <2>5. k \in Nat /\ k <= k
    BY <1>1
  <2> QED BY <1>8, <1>10, <2>3, <2>4, <2>5, Transitive
<1>12. CASE p = t
  <2>1. Agree(log[i], L[t], x) /\ k <= x
    BY <1>1, <1>3, <1>5, <1>8, <1>9, <1>12
  <2>2. \A n \in 1..k : n \in 1..x
    BY <1>1, <1>10, <2>1
  <2>3. k <= Len(log[i]) /\ k <= Len(L[t])
    BY <1>1, <1>7, <2>1, LedgerTypes DEF Agree
  <2> QED BY <2>1, <2>2, <2>3 DEF Agree
<1>13. p >= t
  BY <1>5, <1>9
<1> QED BY <1>11, <1>12, <1>13

\* A majority that has stored an entry may have it.
LEMMA StoredIsChoosable ==
  ASSUME NEW S, NEW t, NEW n, Stored(S, t, n)
  PROVE  Choosable(S, t, n)
<1> DEFINE A == {j \in Server : n <= S[t][j]}
           B == {j \in Server : currentTerm[j] <= t \/ n <= S[t][j]}
<1>1. A \subseteq B /\ B \subseteq Server
  OBVIOUS
<1>2. /\ Cardinality(A) <= Cardinality(B)
      /\ Cardinality(A) \in Nat /\ Cardinality(B) \in Nat
  BY <1>1, ServerSets
<1>3. Cardinality(A) >= Majority
  BY DEF Stored
<1> QED BY <1>2, <1>3, MajorityType DEF Choosable

\* What an earlier leader may have committed, a later one has.
LEMMA CommittedStays ==
  ASSUME TypeInv, NEW L, LedgerInv(L), NEW S, LeadersHoldChoosable(L, S),
         NEW t \in Nat, NEW n, Confirmed(L, S, t, n),
         NEW e \in elected, t <= e.term
  PROVE  /\ n \in Nat \ {0} /\ n \in DOMAIN L[t] /\ n \in DOMAIN L[e.term]
         /\ Agree(L[e.term], L[t], n)
<1>1. e.term \in Nat
  BY DEF TypeInv, TypeOK
<1>2. n \in Nat \ {0} /\ n \in DOMAIN L[t] /\ n <= Len(L[t])
  BY LedgerTypes DEF Confirmed, Own
<1>3. Agree(L[e.term], L[t], n)
  <2>1. CASE e.term = t
    BY <1>2, <2>1 DEF Agree
  <2>2. CASE e.term # t
    <3>1. t \in 0..(e.term - 1)
      BY <1>1, <2>2
    <3>2. Own(L, t, n) /\ Choosable(S, t, n)
      BY StoredIsChoosable DEF Confirmed
    <3> QED BY <1>2, <3>1, <3>2 DEF LeadersHoldChoosable
  <2> QED BY <2>1, <2>2
<1>4. n \in DOMAIN L[e.term]
  BY <1>1, <1>2, <1>3, LedgerTypes DEF Agree
<1> QED BY <1>2, <1>3, <1>4

\* What two leaders committed is the same as far as both reach.
LEMMA CommittedAgree ==
  ASSUME TypeInv, NEW L, LedgerInv(L), NEW S, LeadersHoldChoosable(L, S),
         NEW t \in Nat, NEW n, Confirmed(L, S, t, n),
         NEW u \in Nat, NEW p, Confirmed(L, S, u, p)
  PROVE  \A k \in 1..n : k \in 1..p => L[t][k] = L[u][k]
<1>1. \A w \in Nat : \A x : Confirmed(L, S, w, x) => \E e \in elected : e.term = w
  <2> SUFFICES ASSUME NEW w \in Nat, NEW x, Confirmed(L, S, w, x)
               PROVE  \E e \in elected : e.term = w
    OBVIOUS
  <2>1. L[w] # <<>>
    BY LedgerTypes DEF Confirmed, Own
  <2> QED BY <2>1 DEF LedgerInv
<1>2. PICK e \in elected, f \in elected : e.term = t /\ f.term = u
  BY <1>1
<1>3. CASE t <= u
  <2>1. Agree(L[u], L[t], n)
    BY <1>2, <1>3, CommittedStays
  <2> QED BY <2>1 DEF Agree
<1>4. CASE u <= t
  <2>1. Agree(L[t], L[u], p)
    BY <1>2, <1>4, CommittedStays
  <2> QED BY <2>1 DEF Agree
<1> QED BY <1>3, <1>4

\* Every leader up to whose term c is known has what was chosen up to c.
LEMMA KnownInLeader ==
  ASSUME TypeInv, NEW L, LedgerInv(L), NEW S, LeadersHoldChoosable(L, S),
         ChosenFromLeaders(L, S),
         NEW c \in Nat, NEW e \in elected, Known(L, S, c, e.term)
  PROVE  /\ c <= Len(chosen)
         /\ c <= Len(L[e.term])
         /\ \A k \in 1..c : k \in DOMAIN chosen /\ L[e.term][k] = chosen[k].entry
<1>1. /\ e.term \in Nat
      /\ Len(chosen) \in Nat /\ DOMAIN chosen = 1..Len(chosen)
  BY ChosenTypes DEF TypeInv, TypeOK
<1>2. CASE c = 0
  BY <1>1, <1>2, LedgerTypes
<1>3. CASE c > 0
  <2>1. PICK t \in 0..e.term : \E n \in DOMAIN L[t] : c <= n /\ Confirmed(L, S, t, n)
    BY <1>3 DEF Known
  <2>2. PICK n \in DOMAIN L[t] : c <= n /\ Confirmed(L, S, t, n)
    BY <2>1
  <2>3. t \in Nat /\ t <= e.term
    BY <1>1
  <2>4. n \in Nat \ {0} /\ n \in DOMAIN L[e.term] /\ Agree(L[e.term], L[t], n)
    BY <2>2, <2>3, CommittedStays
  <2>5. c <= Len(chosen) /\ c <= Len(L[e.term])
    BY <1>1, <2>2, <2>4, LedgerTypes DEF Known
  <2>6. ASSUME NEW k \in 1..c
        PROVE  k \in DOMAIN chosen /\ L[e.term][k] = chosen[k].entry
    <3>1. k \in DOMAIN chosen /\ k \in 1..n
      BY <1>1, <2>2, <2>4, <2>5
    <3>2. PICK u \in Nat : u = chosen[k].at
      BY <3>1, ChosenTypes
    <3>3. PICK p \in DOMAIN L[u] : k <= p /\ Confirmed(L, S, u, p)
      BY <3>1, <3>2 DEF ChosenFromLeaders
    <3>4. k \in 1..p
      BY <3>1, <3>3, LedgerTypes
    <3>5. L[t][k] = L[u][k]
      BY <2>2, <2>3, <3>1, <3>3, <3>4, CommittedAgree
    <3>6. L[e.term][k] = L[t][k]
      BY <2>4, <3>1 DEF Agree
    <3>7. L[u][k] = chosen[k].entry
      BY <3>1, <3>2 DEF ChosenFromLeaders
    <3> QED BY <3>1, <3>5, <3>6, <3>7
  <2> QED BY <2>5, <2>6
<1> QED BY <1>2, <1>3

-------------------------------------------------------------------------------
(* What follows from the invariant.                                        *)

\* What somebody has stored of a committed piece is in its log.
LEMMA StoredInLog ==
  ASSUME TypeInv, NEW L, LedgerInv(L), NEW S, StoredInv(L, S),
         NEW t \in Nat, NEW n, Confirmed(L, S, t, n),
         NEW j \in Server, n <= S[t][j]
  PROVE  n \in Nat \ {0} /\ Agree(log[j], L[t], n)
<1>1. n \in Nat \ {0} /\ Own(L, t, n) /\ Choosable(S, t, n)
  BY LedgerTypes, StoredIsChoosable DEF Confirmed, Own
<1>2. S[t][j] \in Nat
  BY DEF StoredInv
<1>3. n \in 1..S[t][j]
  BY <1>1, <1>2
<1> QED BY <1>1, <1>3 DEF StoredInv, StoredIsKept

\* Logs that agree have the same beginnings.
LEMMA PrefixSame ==
  ASSUME NEW a \in Seq(Entry), NEW b \in Seq(Entry), NEW k \in Nat, Agree(a, b, k)
  PROVE  Prefix(a, k) = Prefix(b, k)
<1>1. /\ SubSeq(a, 1, k) = [n \in 1..k |-> a[n]]
      /\ SubSeq(b, 1, k) = [n \in 1..k |-> b[n]]
  BY DEF Agree
<1>2. \A n \in 1..k : a[n] = b[n]
  BY DEF Agree
<1> QED BY <1>1, <1>2 DEF Prefix

\* MatchIndexTruthful: what the leader counts is stored in its term.
LEMMA TruthfulFromStored ==
  ASSUME TypeInv, NEW L, LedgerInv(L), NEW S, StoredInv(L, S)
  PROVE  MatchIndexTruthful
<1> SUFFICES ASSUME NEW i \in Server, NEW j \in Server,
                    state[i] = "Leader", currentTerm[j] = currentTerm[i]
             PROVE  /\ matchIndex[i][j] <= Len(log[j])
                    /\ Prefix(log[j], matchIndex[i][j]) = Prefix(log[i], matchIndex[i][j])
  BY DEF MatchIndexTruthful
<1>1. PICK T \in Nat, n \in Nat : T = currentTerm[i] /\ n = matchIndex[i][j]
  BY DEF TypeInv, TypeOK
<1>2. n <= S[T][j] /\ S[T][j] \in Nat /\ log[i] = L[T]
  <2>1. n <= S[T][j]
    BY <1>1 DEF StoredInv, CountsStored
  <2>2. S[T][j] \in Nat
    BY DEF StoredInv
  <2>3. log[i] = L[T]
    BY <1>1 DEF LedgerInv, LogsFromLeaders
  <2> QED BY <2>1, <2>2, <2>3
<1>3. Agree(log[j], log[i], n)
  <2>1. CASE n = 0
    BY <2>1, LedgerTypes DEF Agree
  <2>2. CASE n > 0
    <3>1. n \in 1..S[T][j]
      BY <1>2, <2>2
    <3> QED BY <1>1, <1>2, <3>1 DEF StoredInv, StoredIsKept
  <2> QED BY <2>1, <2>2
<1>4. n <= Len(log[j])
  BY <1>3 DEF Agree
<1>5. Prefix(log[j], n) = Prefix(log[i], n)
  BY <1>3, LedgerTypes, PrefixSame
<1> QED BY <1>1, <1>4, <1>5

\* The leader that chose the entry k had it as far as n, and committed n.
LEMMA ChosenByLeader ==
  ASSUME TypeInv, NEW L, LedgerInv(L), NEW S, ChosenFromLeaders(L, S),
         NEW k \in DOMAIN chosen
  PROVE  /\ chosen[k].at \in Nat
         /\ k \in Nat \ {0}
         /\ \E n \in DOMAIN L[chosen[k].at] :
              k \in 1..n /\ Confirmed(L, S, chosen[k].at, n)
         /\ L[chosen[k].at][k] = chosen[k].entry
<1>1. k \in Nat \ {0}
  BY ChosenTypes
<1>2. PICK t \in Nat : t = chosen[k].at
  BY ChosenTypes
<1>3. PICK n \in DOMAIN L[t] : k <= n /\ Confirmed(L, S, t, n)
  BY <1>2 DEF ChosenFromLeaders
<1>4. k \in 1..n
  BY <1>1, <1>3, LedgerTypes
<1> QED BY <1>1, <1>2, <1>3, <1>4 DEF ChosenFromLeaders

\* A log that agrees with the leader of a chosen entry holds it.
LEMMA HoldsFromAgree ==
  ASSUME TypeInv, NEW L, LedgerInv(L), NEW i \in Server, NEW t \in Nat,
         NEW n \in Nat, Agree(log[i], L[t], n), NEW k \in 1..n
  PROVE  Holds(i, k, L[t][k])
BY LedgerTypes DEF Agree, Holds

\* ChosenOnMajority: the majority that stored a chosen entry still has it.
LEMMA OnMajorityFromStored ==
  ASSUME TypeInv, NEW L, LedgerInv(L), NEW S, StoredInv(L, S), ChosenFromLeaders(L, S)
  PROVE  ChosenOnMajority
<1> SUFFICES ASSUME NEW k \in DOMAIN chosen
             PROVE  Cardinality({i \in Server : Holds(i, k, chosen[k].entry)}) >= Majority
  BY DEF ChosenOnMajority
<1>1. PICK t \in Nat : t = chosen[k].at
  BY ChosenByLeader
<1>2. PICK n \in DOMAIN L[t] : k \in 1..n /\ Confirmed(L, S, t, n)
  BY <1>1, ChosenByLeader
<1>3. L[t][k] = chosen[k].entry
  BY <1>1, ChosenByLeader
<1>4. n \in Nat
  BY LedgerTypes
<1> DEFINE A == {i \in Server : n <= S[t][i]}
           B == {i \in Server : Holds(i, k, chosen[k].entry)}
<1>5. \A i \in Server : n <= S[t][i] => Holds(i, k, chosen[k].entry)
  <2> SUFFICES ASSUME NEW i \in Server, n <= S[t][i]
               PROVE  Holds(i, k, chosen[k].entry)
    OBVIOUS
  <2>1. Agree(log[i], L[t], n)
    BY <1>2, StoredInLog
  <2> QED BY <1>2, <1>3, <1>4, <2>1, HoldsFromAgree
<1>6. A \subseteq B /\ B \subseteq Server
  BY <1>5
<1>7. /\ Cardinality(A) <= Cardinality(B)
      /\ Cardinality(A) \in Nat /\ Cardinality(B) \in Nat
  BY <1>6, ServerSets
<1>8. Cardinality(A) >= Majority
  BY <1>2 DEF Confirmed, Stored
<1> QED BY <1>7, <1>8, MajorityType

\* LeaderCompleteness: what is chosen is choosable, and later leaders hold that.
LEMMA CompletenessFromLedger ==
  ASSUME TypeInv, RoleInv, NEW L, LedgerInv(L), NEW S, LeadersHoldChoosable(L, S),
         ChosenFromLeaders(L, S)
  PROVE  LeaderCompleteness
<1> SUFFICES ASSUME NEW i \in Server, NEW k \in DOMAIN chosen,
                    state[i] = "Leader", chosen[k].at < currentTerm[i]
             PROVE  Holds(i, k, chosen[k].entry)
  BY DEF LeaderCompleteness
<1>1. PICK t \in Nat : t = chosen[k].at
  BY ChosenByLeader
<1>2. PICK n \in DOMAIN L[t] : k \in 1..n /\ Confirmed(L, S, t, n)
  BY <1>1, ChosenByLeader
<1>3. L[t][k] = chosen[k].entry
  BY <1>1, ChosenByLeader
<1>4. /\ [term |-> currentTerm[i], node |-> i] \in elected
      /\ log[i] = L[currentTerm[i]]
      /\ t <= currentTerm[i]
  <2>1. [term |-> currentTerm[i], node |-> i] \in elected
    BY DEF RoleInv
  <2>2. log[i] = L[currentTerm[i]]
    BY DEF LedgerInv, LogsFromLeaders
  <2>3. t <= currentTerm[i]
    BY <1>1, LedgerTypes
  <2> QED BY <2>1, <2>2, <2>3
<1>5. n \in Nat /\ Agree(log[i], L[t], n)
  BY <1>2, <1>4, CommittedStays
<1> QED BY <1>2, <1>3, <1>5, HoldsFromAgree

\* ElectableHoldsChosen: of a majority that finds a log up to date, one has it.
LEMMA ElectableFromStored ==
  ASSUME TypeInv, NEW L, LedgerInv(L), NEW S, StoredInv(L, S),
         LeadersHoldChoosable(L, S), ChosenFromLeaders(L, S)
  PROVE  ElectableHoldsChosen
<1> SUFFICES ASSUME NEW i \in Server, NEW k \in DOMAIN chosen,
                    Cardinality({j \in Server :
                      UpToDate(LastLogTerm(log[i]), LastLogIndex(log[i]), log[j])})
                      >= Majority
             PROVE  Holds(i, k, chosen[k].entry)
  BY DEF ElectableHoldsChosen
<1>1. PICK t \in Nat : t = chosen[k].at
  BY ChosenByLeader
<1>2. PICK n \in DOMAIN L[t] : k \in 1..n /\ Confirmed(L, S, t, n)
  BY <1>1, ChosenByLeader
<1>3. L[t][k] = chosen[k].entry /\ n \in Nat
  BY <1>1, ChosenByLeader, LedgerTypes
<1>4. PICK j \in Server :
        /\ UpToDate(LastLogTerm(log[i]), LastLogIndex(log[i]), log[j])
        /\ n <= S[t][j]
  <2> DEFINE A == {j \in Server :
                     UpToDate(LastLogTerm(log[i]), LastLogIndex(log[i]), log[j])}
             B == {j \in Server : n <= S[t][j]}
  <2>1. A \subseteq Server /\ B \subseteq Server
    OBVIOUS
  <2>2. Cardinality(A) >= Majority /\ Cardinality(B) >= Majority
    BY <1>2 DEF Confirmed, Stored
  <2> HIDE DEF A, B
  <2>3. \E v \in Server : v \in A /\ v \in B
    BY <2>1, <2>2, MajoritiesIntersect
  <2> QED BY <2>3 DEF A, B
<1>5. Agree(log[j], L[t], n)
  BY <1>2, <1>4, StoredInLog
<1>6. Own(L, t, n) /\ Choosable(S, t, n)
  BY <1>2, StoredIsChoosable DEF Confirmed
<1>7. Agree(log[i], L[t], n)
  BY <1>4, <1>5, <1>6, UpToDateHolds
<1> QED BY <1>2, <1>3, <1>7, HoldsFromAgree

\* AppliedMatchesLog: what was executed is a beginning of the log.
LEMMA AppliedFromExecuted ==
  ASSUME ExecutedIsChosen
  PROVE  AppliedMatchesLog
BY DEF ExecutedIsChosen, AppliedMatchesLog

-------------------------------------------------------------------------------
(* What all steps have in common.                                          *)

\* Leaders append, nodes store more of what the leader of their term has, and a log
\* grows or follows the leader of its term.
Advance(L, S, M, R) ==
  /\ \A t \in Nat : M[t] \in Seq(Entry) /\ Begins(L[t], M[t])
  /\ \A j \in Server : currentTerm'[j] >= currentTerm[j]
  /\ \A t \in Nat : \A j \in Server :
       /\ R[t][j] \in Nat
       /\ \/ R[t][j] = S[t][j]
          \/ /\ R[t][j] > S[t][j]
             /\ t = currentTerm'[j]
             /\ Agree(log'[j], M[t], R[t][j])
  /\ \A j \in Server :
       \/ Begins(log[j], log'[j])
       \/ /\ \E e \in elected : e.term = currentTerm'[j]
          /\ Merged(log'[j], log[j], L[currentTerm'[j]])

\* What agrees with b agrees with whatever b begins.
LEMMA AgreeGrows ==
  ASSUME NEW a \in Seq(Entry), NEW b \in Seq(Entry), NEW c \in Seq(Entry),
         NEW k \in Nat, Agree(a, b, k), Begins(b, c)
  PROVE  Agree(a, c, k)
<1>1. Len(b) \in Nat /\ k <= Len(b) /\ k <= k /\ Agree(b, c, Len(b))
  BY DEF Agree, Begins
<1> QED BY <1>1, Transitive

\* Whatever a majority may still store afterwards, it may store before.
LEMMA ChoosableBefore ==
  ASSUME TypeInv, TypeInv', NEW L, NEW S, NEW M, NEW R, Advance(L, S, M, R),
         NEW t \in Nat, NEW k, Choosable(R, t, k)'
  PROVE  Choosable(S, t, k)
<1> DEFINE A == {j \in Server : currentTerm'[j] <= t \/ k <= R[t][j]}
           B == {j \in Server : currentTerm[j] <= t \/ k <= S[t][j]}
<1>1. ASSUME NEW j \in Server, currentTerm'[j] <= t \/ k <= R[t][j]
      PROVE  currentTerm[j] <= t \/ k <= S[t][j]
  <2>1. currentTerm[j] \in Nat /\ currentTerm'[j] \in Nat /\ currentTerm'[j] >= currentTerm[j]
    BY DEF TypeInv, TypeOK, Advance
  <2>2. R[t][j] = S[t][j] \/ t = currentTerm'[j]
    BY DEF Advance
  <2> QED BY <1>1, <2>1, <2>2
<1>2. A \subseteq B /\ B \subseteq Server
  BY <1>1
<1>3. /\ Cardinality(A) <= Cardinality(B)
      /\ Cardinality(A) \in Nat /\ Cardinality(B) \in Nat
  BY <1>2, ServerSets
<1>4. Cardinality(A) >= Majority
  BY DEF Choosable, Majority
<1> QED BY <1>3, <1>4, MajorityType DEF Choosable

\* Nothing is lost that has to be kept.
LEMMA AgreementKept ==
  ASSUME TypeInv, TypeInv', NEW L, LedgerInv(L), NEW S, StoredInv(L, S),
         LeadersHoldChoosable(L, S), NEW M, NEW R, Advance(L, S, M, R),
         NEW j \in Server, NEW t \in Nat, NEW k \in 1..S[t][j],
         Agree(log[j], L[t], k),
         t = currentTerm'[j] \/ (Own(L, t, k) /\ Choosable(S, t, k))
  PROVE  Agree(log'[j], M[t], k)
<1>1. /\ log[j] \in Seq(Entry) /\ log'[j] \in Seq(Entry)
      /\ currentTerm[j] \in Nat /\ currentTerm'[j] \in Nat
      /\ currentTerm'[j] >= currentTerm[j]
      /\ S[t][j] \in Nat
      /\ M[t] \in Seq(Entry) /\ Begins(L[t], M[t])
  BY DEF TypeInv, TypeOK, Advance, StoredInv
<1>2. \A u \in Nat : L[u] \in Seq(Entry)
  BY LedgerTypes
<1>3. k \in Nat \ {0} /\ k <= k /\ k \in DOMAIN L[t]
  BY <1>1, <1>2 DEF Agree
<1>4. Agree(log'[j], L[t], k)
  <2>1. CASE Begins(log[j], log'[j])
    <3>1. Agree(L[t], log[j], k)
      BY AgreeSymmetric
    <3>2. Agree(L[t], log'[j], k)
      BY <1>1, <1>2, <1>3, <2>1, <3>1, AgreeGrows
    <3> QED BY <3>2, AgreeSymmetric
  <2>2. CASE /\ \E e \in elected : e.term = currentTerm'[j]
             /\ Merged(log'[j], log[j], L[currentTerm'[j]])
    <3>1. PICK T \in Nat : T = currentTerm'[j]
      BY <1>1
    <3>2. Agree(L[T], L[t], k)
      <4>1. CASE t = T
        BY <1>2, <1>3, <4>1 DEF Agree
      <4>2. CASE t # T
        <5>1. t <= currentTerm[j]
          BY <1>1 DEF StoredInv
        <5>2. PICK e \in elected : e.term = T
          BY <2>2, <3>1
        <5>3. t \in 0..(e.term - 1)
          BY <1>1, <3>1, <4>2, <5>1, <5>2
        <5> QED BY <1>3, <3>1, <4>2, <5>2, <5>3 DEF LeadersHoldChoosable
      <4> QED BY <4>1, <4>2
    <3>3. Agree(L[t], L[T], k)
      BY <3>2, AgreeSymmetric
    <3>4. Agree(log[j], L[T], k)
      BY <1>1, <1>2, <1>3, <3>3, Transitive
    <3>5. Agree(log'[j], L[T], k)
      BY <1>3, <2>2, <3>1, <3>4 DEF Merged
    <3> QED BY <1>1, <1>2, <1>3, <3>2, <3>5, Transitive
  <2> QED BY <2>1, <2>2 DEF Advance
<1> QED BY <1>1, <1>2, <1>3, <1>4, AgreeGrows

\* An entry of its own that a leader had stored before was its own before.
LEMMA OwnBefore ==
  ASSUME TypeInv, NEW L, LedgerInv(L), NEW S, NEW M, NEW R, Advance(L, S, M, R),
         NEW t \in Nat, NEW k \in DOMAIN L[t], Own(M, t, k)
  PROVE  Own(L, t, k)
<1>1. k \in 1..Len(L[t])
  BY LedgerTypes
<1>2. L[t][k] = M[t][k]
  BY <1>1 DEF Advance, Begins, Agree
<1> QED BY <1>2 DEF Own

\* Agreement up to n is agreement up to every k below it.
LEMMA AgreeUpTo ==
  ASSUME NEW a \in Seq(Entry), NEW b \in Seq(Entry), NEW n \in Nat,
         Agree(a, b, n), NEW k \in 1..n
  PROVE  Agree(a, b, k)
<1>1. n <= Len(a) /\ n <= Len(b) /\ Len(a) \in Nat /\ Len(b) \in Nat
  BY DEF Agree
<1>2. \A p \in 1..k : p \in 1..n
  OBVIOUS
<1> QED BY <1>1, <1>2 DEF Agree

\* StoredInv is kept by a step that advances L and S and whose counts are truthful.
LEMMA StoredStep ==
  ASSUME TypeInv, TypeInv', NEW L, LedgerInv(L), NEW S, StoredInv(L, S),
         LeadersHoldChoosable(L, S), NEW M, NEW R, Advance(L, S, M, R),
         R \in [Nat -> [Server -> Nat]], CountsStored(R)'
  PROVE  StoredInv(M, R)'
<1>1. ASSUME NEW t \in Nat, NEW j \in Server
      PROVE  /\ R[t][j] <= Len(M[t])
             /\ R[t][j] > 0 => t <= currentTerm'[j]
             /\ \A k \in 1..R[t][j] :
                  t = currentTerm'[j] \/ (Own(M, t, k) /\ Choosable(R, t, k)')
                    => Agree(log'[j], M[t], k)
  <2>1. /\ currentTerm[j] \in Nat /\ currentTerm'[j] \in Nat
        /\ currentTerm'[j] >= currentTerm[j]
        /\ S[t][j] \in Nat /\ R[t][j] \in Nat
        /\ S[t][j] <= Len(L[t])
        /\ S[t][j] > 0 => t <= currentTerm[j]
    <3>1. currentTerm[j] \in Nat /\ currentTerm'[j] \in Nat
      BY DEF TypeInv, TypeOK
    <3>2. currentTerm'[j] >= currentTerm[j] /\ R[t][j] \in Nat
      BY DEF Advance
    <3>3. /\ S[t][j] \in Nat
          /\ S[t][j] <= Len(L[t])
          /\ S[t][j] > 0 => t <= currentTerm[j]
      BY DEF StoredInv
    <3> QED BY <3>1, <3>2, <3>3
  <2>2. /\ L[t] \in Seq(Entry) /\ M[t] \in Seq(Entry) /\ Begins(L[t], M[t])
        /\ Len(L[t]) <= Len(M[t]) /\ Len(L[t]) \in Nat /\ Len(M[t]) \in Nat
        /\ DOMAIN L[t] = 1..Len(L[t])
    <3>1. L[t] \in Seq(Entry) /\ Len(L[t]) \in Nat /\ DOMAIN L[t] = 1..Len(L[t])
      BY LedgerTypes
    <3>2. M[t] \in Seq(Entry) /\ Begins(L[t], M[t])
      BY DEF Advance
    <3>3. Len(L[t]) <= Len(M[t])
      BY <3>2 DEF Begins, Agree
    <3> QED BY <3>1, <3>2, <3>3
  <2>3. ASSUME NEW k \in 1..S[t][j],
               t = currentTerm'[j] \/ (Own(M, t, k) /\ Choosable(R, t, k)')
        PROVE  Agree(log'[j], M[t], k)
    <3>1. k \in DOMAIN L[t]
      <4>1. PICK s \in Nat, x \in Nat : s = S[t][j] /\ x = Len(L[t])
        BY <2>1, <2>2
      <4>2. k \in 1..s /\ s <= x /\ DOMAIN L[t] = 1..x
        BY <2>1, <2>2, <2>3, <4>1
      <4> QED BY <4>2
    <3>2. CASE t = currentTerm'[j]
      <4>1. t = currentTerm[j]
        <5>1. PICK s \in Nat, c \in Nat, d \in Nat :
                s = S[t][j] /\ c = currentTerm[j] /\ d = currentTerm'[j]
          BY <2>1
        <5>2. k \in 1..s /\ d >= c /\ (s > 0 => t <= c) /\ t = d
          BY <2>1, <2>3, <3>2, <5>1
        <5>3. s > 0
          BY <5>2
        <5>4. t = c
          BY <5>2, <5>3
        <5> QED BY <5>1, <5>4
      <4>2. Agree(log[j], L[t], k)
        BY <4>1 DEF StoredInv, StoredIsKept
      <4> QED BY <3>2, <4>2, AgreementKept
    <3>3. CASE Own(M, t, k) /\ Choosable(R, t, k)'
      <4>1. Own(L, t, k)
        BY <3>1, <3>3, OwnBefore
      <4>2. Choosable(S, t, k)
        BY <3>3, ChoosableBefore
      <4>3. Agree(log[j], L[t], k)
        BY <4>1, <4>2 DEF StoredInv, StoredIsKept
      <4> QED BY <4>1, <4>2, <4>3, AgreementKept
    <3> QED BY <2>3, <3>2, <3>3
  <2>4. CASE R[t][j] = S[t][j]
    <3>1. PICK s \in Nat, x \in Nat, y \in Nat, c \in Nat, d \in Nat :
            /\ s = S[t][j] /\ x = Len(L[t]) /\ y = Len(M[t])
            /\ c = currentTerm[j] /\ d = currentTerm'[j]
      BY <2>1, <2>2
    <3>2. s <= x /\ x <= y /\ d >= c /\ (s > 0 => t <= c)
      BY <2>1, <2>2, <3>1
    <3>3. s <= y /\ (s > 0 => t <= d)
      BY <3>2
    <3> QED BY <2>3, <2>4, <3>1, <3>3
  <2>5. CASE t = currentTerm'[j] /\ Agree(log'[j], M[t], R[t][j])
    <3>1. ASSUME NEW k \in 1..R[t][j]
          PROVE  Agree(log'[j], M[t], k)
      <4>1. PICK a \in Seq(Entry), b \in Seq(Entry), n \in Nat :
              a = log'[j] /\ b = M[t] /\ n = R[t][j]
        BY <2>1, <2>2 DEF TypeInv, TypeOK
      <4>2. Agree(a, b, n) /\ k \in 1..n
        BY <2>5, <4>1
      <4>3. Agree(a, b, k)
        BY <4>2, AgreeUpTo
      <4> QED BY <4>1, <4>3
    <3>2. t <= currentTerm'[j]
      BY <2>1, <2>5
    <3>4. R[t][j] <= Len(M[t])
      BY <2>5 DEF Agree
    <3> QED BY <3>1, <3>2, <3>4
  <2> QED BY <2>4, <2>5 DEF Advance
<1>2. StoredIsKept(M, R)'
  BY <1>1 DEF StoredIsKept
<1> QED BY <1>1, <1>2 DEF StoredInv

\* Every log is a beginning of itself.
LEMMA BeginsItself ==
  ASSUME NEW a \in Seq(Entry)
  PROVE  Begins(a, a)
BY DEF Begins, Agree

\* Leaders and followers of a quiet step store at least what they had.
LEMMA QuietAdvance ==
  ASSUME TypeInv, TypeInv', NEW L, LedgerInv(L), NEW S, StoredInv(L, S), Quiet(L),
         NEW R, R \in [Nat -> [Server -> Nat]],
         \A t \in Nat : \A j \in Server :
           \/ R[t][j] = S[t][j]
           \/ /\ R[t][j] > S[t][j]
              /\ t = currentTerm'[j]
              /\ Agree(log'[j], L[t], R[t][j])
  PROVE  Advance(L, S, L, R)
<1>1. \A t \in Nat : L[t] \in Seq(Entry) /\ Begins(L[t], L[t])
  BY LedgerTypes, BeginsItself
<1>2. \A j \in Server : currentTerm'[j] >= currentTerm[j]
  <2> SUFFICES ASSUME NEW j \in Server
               PROVE  currentTerm'[j] >= currentTerm[j]
    OBVIOUS
  <2>1. currentTerm[j] \in Nat /\ currentTerm'[j] \in Nat
    BY DEF TypeInv, TypeOK
  <2>2. \/ currentTerm'[j] = currentTerm[j]
        \/ currentTerm'[j] >= currentTerm[j]
        \/ currentTerm'[j] > currentTerm[j]
    BY DEF Quiet, RolesKept
  <2> QED BY <2>1, <2>2
<1>3. \A t \in Nat : \A j \in Server : R[t][j] \in Nat
  OBVIOUS
<1>4. ASSUME NEW j \in Server
      PROVE  \/ Begins(log[j], log'[j])
             \/ /\ \E e \in elected : e.term = currentTerm'[j]
                /\ Merged(log'[j], log[j], L[currentTerm'[j]])
  <2>1. CASE log'[j] = log[j]
    BY <2>1, LedgerTypes, BeginsItself
  <2> QED BY <2>1 DEF Quiet, LogsKept
<1> QED BY <1>1, <1>2, <1>3, <1>4 DEF Advance

\* What a leader counts is what it counted, or what a reply to it reports.
MatchesReported ==
  \A i \in Server : state'[i] = "Leader" =>
    \A j \in Server :
      \/ matchIndex'[i][j] = matchIndex[i][j]
      \/ \E m \in appendReplies : /\ m.success
                                  /\ m.src = j
                                  /\ m.call = currentTerm[i]
                                  /\ matchIndex'[i][j] = m.match

\* A reply that reports something is an old one or tells the truth.
RepliesTruthful(R) ==
  \A m \in appendReplies' :
    m.success => m \in appendReplies \/ m.match <= R[m.call][m.src]

\* What a node has stored never gets less.
LEMMA StoredGrows ==
  ASSUME NEW L, NEW S, NEW M, NEW R, Advance(L, S, M, R), NEW t \in Nat, NEW j \in Server,
         S[t][j] \in Nat, NEW n \in Nat, n <= S[t][j]
  PROVE  n <= R[t][j]
<1>1. R[t][j] \in Nat /\ (R[t][j] = S[t][j] \/ R[t][j] > S[t][j])
  BY DEF Advance
<1> QED BY <1>1

\* CountsStored is kept if the counts come from truthful replies.
LEMMA CountsKept ==
  ASSUME TypeInv, TypeInv', NEW L, NEW S, StoredInv(L, S), Quiet(L),
         NEW M, NEW R, Advance(L, S, M, R), MatchesReported, RepliesTruthful(R)
  PROVE  CountsStored(R)'
<1>1. \A t \in Nat : \A j \in Server : S[t][j] \in Nat
  BY DEF StoredInv
<1>2. \A m \in appendReplies : m.match \in Nat /\ m.call \in Nat /\ m.src \in Server
  BY DEF TypeInv, TypeOK, AppendReply
<1>3. ASSUME NEW m \in appendReplies, m.success
      PROVE  m.match <= R[m.call][m.src]
  <2>1. m.match <= S[m.call][m.src]
    BY <1>3 DEF StoredInv, CountsStored
  <2> QED BY <1>1, <1>2, <2>1, StoredGrows
<1>4. ASSUME NEW i \in Server, state'[i] = "Leader"
      PROVE  /\ R[currentTerm'[i]][i] = Len(log'[i])
             /\ \A j \in Server : matchIndex'[i][j] <= R[currentTerm'[i]][j]
  <2>1. state[i] = "Leader" /\ currentTerm'[i] = currentTerm[i] /\ log'[i] = log[i]
    BY <1>4 DEF Quiet, RolesKept, LogsKept
  <2>2. PICK T \in Nat, n \in Nat : T = currentTerm[i] /\ n = Len(log[i])
    BY DEF TypeInv, TypeOK
  <2>3. S[T][i] = n
    BY <2>1, <2>2 DEF StoredInv, CountsStored
  <2>4. R[T][i] = n
    <3>1. CASE R[T][i] = S[T][i]
      BY <2>3, <3>1
    <3>2. CASE R[T][i] > S[T][i] /\ Agree(log'[i], M[T], R[T][i])
      <4>1. R[T][i] <= n
        BY <2>1, <2>2, <3>2 DEF Agree
      <4>2. R[T][i] \in Nat
        BY DEF Advance
      <4> QED BY <2>3, <3>2, <4>1, <4>2
    <3> QED BY <3>1, <3>2 DEF Advance
  <2>5. ASSUME NEW j \in Server
        PROVE  matchIndex'[i][j] <= R[T][j]
    <3>1. CASE matchIndex'[i][j] = matchIndex[i][j]
      <4>1. matchIndex[i][j] <= S[T][j]
        BY <2>1, <2>2 DEF StoredInv, CountsStored
      <4>2. matchIndex[i][j] \in Nat
        BY DEF TypeInv, TypeOK
      <4>3. matchIndex[i][j] <= R[T][j]
        BY <1>1, <4>1, <4>2, StoredGrows
      <4> QED BY <3>1, <4>3
    <3>2. CASE \E m \in appendReplies : /\ m.success
                                        /\ m.src = j
                                        /\ m.call = currentTerm[i]
                                        /\ matchIndex'[i][j] = m.match
      BY <1>3, <2>2, <3>2
    <3> QED BY <1>4, <3>1, <3>2 DEF MatchesReported
  <2> QED BY <2>1, <2>2, <2>4, <2>5
<1> QED BY <1>3, <1>4 DEF CountsStored, RepliesTruthful

-------------------------------------------------------------------------------
(* Elections.                                                              *)

\* Whoever voted in a later term has stored nothing more in this one.
LEMMA VoterStoredBefore ==
  ASSUME TypeInv, TypeInv', NEW L, NEW S, NEW M, NEW R, Advance(L, S, M, R),
         NEW t \in Nat, NEW v \in Server, NEW k \in Nat,
         currentTerm'[v] > t, currentTerm'[v] <= t \/ k <= R[t][v]
  PROVE  k <= S[t][v]
<1>1. currentTerm'[v] \in Nat
  BY DEF TypeInv, TypeOK
<1>2. R[t][v] = S[t][v] \/ t = currentTerm'[v]
  BY DEF Advance
<1> QED BY <1>1, <1>2

\* A majority that voted in a later term meets every majority that may have stored an
\* entry of this one.
LEMMA SupporterStored ==
  ASSUME TypeInv, TypeInv', NEW L, LedgerInv(L), NEW S, StoredInv(L, S),
         NEW M, NEW R, Advance(L, S, M, R),
         NEW V, V \subseteq Server, Cardinality(V) >= Majority,
         NEW t \in Nat, \A v \in V : currentTerm'[v] > t,
         NEW k \in Nat \ {0}, Choosable(R, t, k)'
  PROVE  \E v \in V : k \in 1..S[t][v] /\ k \in DOMAIN L[t]
<1> DEFINE A == {j \in Server : currentTerm'[j] <= t \/ k <= R[t][j]}
<1>1. A \subseteq Server /\ Cardinality(A) >= Majority
  BY DEF Choosable, Majority
<1>2. PICK v \in Server : v \in V /\ v \in A
  BY <1>1, MajoritiesIntersect
<1>3. k <= S[t][v]
  BY <1>2, VoterStoredBefore
<1>4. PICK s \in Nat, x \in Nat : s = S[t][v] /\ x = Len(L[t]) /\ s <= x /\ DOMAIN L[t] = 1..x
  <2>1. S[t][v] \in Nat /\ S[t][v] <= Len(L[t])
    BY DEF StoredInv
  <2> QED BY <2>1, LedgerTypes
<1>5. k \in 1..s /\ k \in 1..x
  BY <1>3, <1>4
<1> QED BY <1>2, <1>4, <1>5

\* The supporters of a leader have reached its term.
LEMMA SupportersReached ==
  ASSUME TypeInv, ElectionInv, NEW e \in elected
  PROVE  /\ Supporters(e.term, e.node) \subseteq Server
         /\ Cardinality(Supporters(e.term, e.node)) >= Majority
         /\ \A v \in Supporters(e.term, e.node) : currentTerm[v] >= e.term
<1>1. ASSUME NEW v \in Supporters(e.term, e.node)
      PROVE  currentTerm[v] >= e.term
  <2>1. PICK b \in ballots : b = [term |-> e.term, voter |-> v, candidate |-> e.node]
    BY DEF Supporters
  <2>2. b.term <= currentTerm[b.voter] /\ b.term = e.term /\ b.voter = v
    BY <2>1 DEF ElectionInv, BallotInv
  <2>3. v \in Server /\ currentTerm[v] \in Nat /\ e.term \in Nat
    BY DEF Supporters, TypeInv, TypeOK
  <2> QED BY <2>2, <2>3
<1> QED BY <1>1 DEF ElectionInv, ElectedInv, Supporters

\* A leader keeps what it has of earlier terms; nothing new becomes choosable there.
LEMMA OldLeadersStep ==
  ASSUME TypeInv, TypeInv', ElectionInv, NEW L, LedgerInv(L), NEW S, StoredInv(L, S),
         LeadersHoldChoosable(L, S), NEW M, NEW R, Advance(L, S, M, R),
         NEW e \in elected, NEW t \in 0..(e.term - 1), NEW k \in DOMAIN M[t],
         Own(M, t, k), Choosable(R, t, k)'
  PROVE  Agree(M[e.term], M[t], k)
<1>1. /\ t \in Nat /\ e.term \in Nat /\ t < e.term
      /\ M[t] \in Seq(Entry) /\ M[e.term] \in Seq(Entry)
      /\ L[t] \in Seq(Entry) /\ L[e.term] \in Seq(Entry)
      /\ Begins(L[t], M[t]) /\ Begins(L[e.term], M[e.term])
  <2>1. e.term \in Nat
    BY DEF TypeInv, TypeOK
  <2>2. t \in Nat /\ t < e.term
    BY <2>1
  <2> QED BY <2>1, <2>2, LedgerTypes DEF Advance
<1>2. k \in Nat \ {0}
  BY <1>1
<1>3. k \in DOMAIN L[t]
  <2>1. PICK V : V = Supporters(e.term, e.node)
    OBVIOUS
  <2>2. V \subseteq Server /\ Cardinality(V) >= Majority
    BY <2>1, SupportersReached
  <2>3. ASSUME NEW v \in V
        PROVE  currentTerm'[v] > t
    <3>1. v \in Server /\ currentTerm[v] >= e.term
      BY <2>1, <2>2, SupportersReached
    <3>2. currentTerm'[v] >= currentTerm[v]
      BY <3>1 DEF Advance
    <3>3. currentTerm'[v] \in Nat /\ currentTerm[v] \in Nat
      BY <3>1 DEF TypeInv, TypeOK
    <3> QED BY <1>1, <3>1, <3>2, <3>3
  <2> QED BY <1>1, <1>2, <2>2, <2>3, SupporterStored
<1>4. Own(L, t, k) /\ Choosable(S, t, k)
  BY <1>1, <1>3, OwnBefore, ChoosableBefore
<1>5. Agree(L[e.term], L[t], k)
  BY <1>3, <1>4 DEF LeadersHoldChoosable
<1>6. Agree(L[e.term], M[t], k)
  BY <1>1, <1>2, <1>5, AgreeGrows
<1>7. Agree(M[t], L[e.term], k)
  BY <1>6, AgreeSymmetric
<1>8. Agree(M[t], M[e.term], k)
  BY <1>1, <1>2, <1>7, AgreeGrows
<1> QED BY <1>8, AgreeSymmetric

\* LeadersHoldChoosable is kept by a step that elects nobody.
LEMMA LeadersStep ==
  ASSUME TypeInv, TypeInv', ElectionInv, NEW L, LedgerInv(L), NEW S, StoredInv(L, S),
         LeadersHoldChoosable(L, S), NEW M, NEW R, Advance(L, S, M, R),
         elected' = elected
  PROVE  LeadersHoldChoosable(M, R)'
<1> SUFFICES ASSUME NEW e \in elected, NEW t \in 0..(e.term - 1), NEW k \in DOMAIN M[t],
                    Own(M, t, k), Choosable(R, t, k)'
             PROVE  Agree(M[e.term], M[t], k)
  BY DEF LeadersHoldChoosable
<1> QED BY OldLeadersStep

\* A candidate keeps its log; a new supporter of it found that log up to date.
CandidatesKept ==
  \A i \in Server : state'[i] = "Candidate" =>
    /\ log'[i] = log[i]
    /\ \A j \in Supporters(currentTerm[i], i)' :
         \/ /\ state[i] = "Candidate"
            /\ currentTerm'[i] = currentTerm[i]
            /\ j \in Supporters(currentTerm[i], i)
         \/ UpToDate(LastLogTerm(log[i]), LastLogIndex(log[i]), log[j])

\* CandidatesHoldChoosable is kept by such a step.
LEMMA CandidatesStep ==
  ASSUME TypeInv, TypeInv', ElectionInv', NEW L, LedgerInv(L), NEW S, StoredInv(L, S),
         CampaignInv(L, S), NEW M, NEW R, Advance(L, S, M, R), CandidatesKept
  PROVE  CandidatesHoldChoosable(M, R)'
<1> SUFFICES ASSUME NEW i \in Server, state'[i] = "Candidate",
                    NEW j \in Supporters(currentTerm[i], i)',
                    NEW t \in 0..(currentTerm'[i] - 1), NEW k \in 1..R[t][j],
                    Own(M, t, k), Choosable(R, t, k)'
             PROVE  Agree(log'[i], M[t], k)
  BY DEF CandidatesHoldChoosable, Own
<1>1. PICK T \in Nat : T = currentTerm'[i]
  BY DEF TypeInv, TypeOK
<1>2. t \in Nat /\ t < T /\ j \in Server
  BY <1>1 DEF Supporters
<1>3. currentTerm'[j] >= T
  <2>1. PICK b \in ballots' : b = [term |-> T, voter |-> j, candidate |-> i]
    BY <1>1 DEF Supporters
  <2>2. b.term <= currentTerm'[b.voter] /\ b.term = T /\ b.voter = j
    BY <2>1 DEF ElectionInv, BallotInv
  <2>3. currentTerm'[j] \in Nat
    BY <1>2 DEF TypeInv, TypeOK
  <2> QED BY <2>2, <2>3
<1>4. R[t][j] = S[t][j]
  <2>1. t # currentTerm'[j]
    <3>1. currentTerm'[j] \in Nat
      BY <1>2 DEF TypeInv, TypeOK
    <3> QED BY <1>2, <1>3, <3>1
  <2> QED BY <1>2, <2>1 DEF Advance
<1>5. k \in 1..S[t][j]
  BY <1>4
<1>6. k \in DOMAIN L[t] /\ k \in Nat
  <2>1. PICK s \in Nat, x \in Nat : s = S[t][j] /\ x = Len(L[t]) /\ s <= x /\ DOMAIN L[t] = 1..x
    <3>1. S[t][j] \in Nat /\ S[t][j] <= Len(L[t])
      BY <1>2 DEF StoredInv
    <3> QED BY <1>2, <3>1, LedgerTypes
  <2>2. k \in 1..s
    BY <1>5, <2>1
  <2> QED BY <2>1, <2>2
<1>7. Own(L, t, k) /\ Choosable(S, t, k)
  BY <1>2, <1>6, OwnBefore, ChoosableBefore
<1>8. Agree(log[i], L[t], k)
  <2>1. CASE /\ state[i] = "Candidate"
             /\ currentTerm'[i] = currentTerm[i]
             /\ j \in Supporters(currentTerm[i], i)
    BY <1>5, <1>7, <2>1 DEF CampaignInv, CandidatesHoldChoosable
  <2>2. CASE UpToDate(LastLogTerm(log[i]), LastLogIndex(log[i]), log[j])
    <3>1. Agree(log[j], L[t], k)
      BY <1>2, <1>5, <1>7 DEF StoredInv, StoredIsKept
    <3> QED BY <1>2, <1>7, <2>2, <3>1, UpToDateHolds DEF CampaignInv
  <2> QED BY <2>1, <2>2 DEF CandidatesKept
<1>9. log'[i] = log[i]
  BY DEF CandidatesKept
<1>10. log[i] \in Seq(Entry) /\ L[t] \in Seq(Entry) /\ M[t] \in Seq(Entry) /\ Begins(L[t], M[t])
  BY <1>2, LedgerTypes DEF Advance
<1> QED BY <1>6, <1>8, <1>9, <1>10, AgreeGrows

\* In a quiet step without a new vote the candidates remain, and so do their requests.
LEMMA QuietCampaign ==
  ASSUME TypeInv, TypeInv', NEW L, Quiet(L), NoNewVote, RequestsDescribeLog
  PROVE  CandidatesKept /\ RequestsDescribeLog'
<1>1. ASSUME NEW i \in Server, state'[i] = "Candidate"
      PROVE  /\ state[i] = "Candidate"
             /\ currentTerm'[i] = currentTerm[i]
             /\ log'[i] = log[i]
             /\ Supporters(currentTerm[i], i)' = Supporters(currentTerm[i], i)
  BY <1>1 DEF NoNewVote, VotersKept, Quiet, LogsKept, Supporters
<1>2. CandidatesKept
  BY <1>1 DEF CandidatesKept
<1>3. ASSUME NEW m \in voteRequests', state'[m.src] = "Candidate", currentTerm'[m.src] = m.term
      PROVE  m.lastIndex = LastLogIndex(log'[m.src]) /\ m.lastTerm = LastLogTerm(log'[m.src])
  <2>1. PICK old \in voteRequests : m = old \/ m = [old EXCEPT !.awaited = FALSE]
    BY DEF NoNewVote, RequestsKept
  <2>2. old \in VoteRequest
    BY DEF TypeInv, TypeOK
  <2>3. /\ m.src = old.src /\ m.term = old.term /\ old.src \in Server
        /\ m.lastIndex = old.lastIndex /\ m.lastTerm = old.lastTerm
    BY <2>1, <2>2 DEF VoteRequest
  <2> QED BY <1>1, <1>3, <2>3 DEF RequestsDescribeLog
<1> QED BY <1>2, <1>3 DEF RequestsDescribeLog

\* The only vote of a new election is the candidate's own, and the requests are made
\* from its log.
LEMMA StartElectionCampaign ==
  ASSUME TypeInv, TypeInv', ElectionInv, RequestsDescribeLog,
         NEW i \in Server, StartElection(i)
  PROVE  CandidatesKept /\ RequestsDescribeLog'
<1>1. PICK T \in Nat : T = currentTerm[i]
  BY DEF TypeInv, TypeOK
<1>2. /\ log' = log
      /\ currentTerm'[i] = T + 1
      /\ \A j \in Server \ {i} : state'[j] = state[j] /\ currentTerm'[j] = currentTerm[j]
      /\ ballots' = ballots \cup {[term |-> T + 1, voter |-> i, candidate |-> i]}
  BY <1>1 DEF StartElection, SetTermAndVote, TypeInv, TypeOK
<1>3. \A v : v \in Supporters(currentTerm[i], i)' => v = i
  <2> SUFFICES ASSUME NEW v \in Supporters(currentTerm[i], i)'
               PROVE  v = i
    OBVIOUS
  <2>1. PICK b \in ballots' : b = [term |-> T + 1, voter |-> v, candidate |-> i]
    BY <1>2 DEF Supporters
  <2>2. ~(T + 1 <= T)
    BY <1>1
  <2>3. b \notin ballots
    <3>1. \A o \in ballots : o.term <= currentTerm[o.candidate]
      BY DEF ElectionInv, BallotInv
    <3> QED BY <1>1, <2>1, <2>2, <3>1
  <2> QED BY <1>2, <2>1, <2>3
<1>4. ASSUME NEW j \in Server \ {i}
      PROVE  Supporters(currentTerm[j], j)' = Supporters(currentTerm[j], j)
  BY <1>2 DEF Supporters
<1>5. CandidatesKept
  <2> SUFFICES ASSUME NEW j \in Server, state'[j] = "Candidate"
               PROVE  /\ log'[j] = log[j]
                      /\ \A v \in Supporters(currentTerm[j], j)' :
                           \/ /\ state[j] = "Candidate"
                              /\ currentTerm'[j] = currentTerm[j]
                              /\ v \in Supporters(currentTerm[j], j)
                           \/ UpToDate(LastLogTerm(log[j]), LastLogIndex(log[j]), log[v])
    BY DEF CandidatesKept
  <2>1. CASE j = i
    <3>1. LastLogTerm(log[i]) \in Nat /\ LastLogIndex(log[i]) \in Nat
      BY LastOfLog DEF TypeInv, TypeOK
    <3>2. UpToDate(LastLogTerm(log[i]), LastLogIndex(log[i]), log[i])
      BY <3>1 DEF UpToDate
    <3> QED BY <1>2, <1>3, <2>1, <3>2
  <2>2. CASE j # i
    BY <1>2, <1>4, <2>2
  <2> QED BY <2>1, <2>2
<1>6. ASSUME NEW m \in voteRequests', state'[m.src] = "Candidate", currentTerm'[m.src] = m.term
      PROVE  m.lastIndex = LastLogIndex(log'[m.src]) /\ m.lastTerm = LastLogTerm(log'[m.src])
  <2>1. CASE m \in voteRequests
    <3>1. m.src \in Server /\ m.term \in Nat
      BY <2>1 DEF TypeInv, TypeOK, VoteRequest
    <3>2. m.src # i
      <4>1. m.src = i => m.term <= T
        BY <1>1, <2>1 DEF ElectionInv, VoteRequestInv
      <4>2. m.src = i => m.term = T + 1
        BY <1>2, <1>6
      <4> QED BY <1>1, <3>1, <4>1, <4>2
    <3> QED BY <1>2, <1>6, <2>1, <3>1, <3>2 DEF RequestsDescribeLog
  <2>2. CASE m \notin voteRequests
    BY <1>2, <2>2 DEF StartElection
  <2> QED BY <2>1, <2>2
<1> QED BY <1>5, <1>6 DEF RequestsDescribeLog

\* A vote is only given to a log that is up to date.
LEMMA GrantVoteCampaign ==
  ASSUME TypeInv, TypeInv', ElectionInv, RequestsDescribeLog,
         NEW m \in voteRequests, GrantVote(m)
  PROVE  CandidatesKept /\ RequestsDescribeLog'
<1>1. PICK v \in Server, c \in Server, T \in Nat : v = m.dst /\ c = m.src /\ T = m.term
  BY DEF TypeInv, TypeOK, VoteRequest
<1>2. /\ log' = log
      /\ voteRequests' \subseteq voteRequests
      /\ ballots' = ballots \cup {[term |-> T, voter |-> v, candidate |-> c]}
      /\ UpToDate(m.lastTerm, m.lastIndex, log[v])
  BY <1>1 DEF GrantVote, AnswerVote, CanGrant
<1>3. /\ T >= currentTerm[v] /\ currentTerm[v] \in Nat
      /\ currentTerm' = [currentTerm EXCEPT ![v] = T]
      /\ T > currentTerm[v] => state' = [state EXCEPT ![v] = "Follower"]
      /\ ~(T > currentTerm[v]) => state' = state
  BY <1>1 DEF GrantVote, SetTermAndVote, role, TypeInv, TypeOK
<1>4. ASSUME NEW i \in Server, state'[i] = "Candidate"
      PROVE  state[i] = "Candidate" /\ currentTerm'[i] = currentTerm[i]
  <2>1. CASE T > currentTerm[v]
    BY <1>3, <1>4, <2>1 DEF TypeInv, TypeOK
  <2>2. CASE ~(T > currentTerm[v])
    <3>1. T = currentTerm[v]
      BY <1>3, <2>2
    <3> QED BY <1>3, <1>4, <2>2, <3>1 DEF TypeInv, TypeOK
  <2> QED BY <2>1, <2>2
<1>5. CandidatesKept
  <2> SUFFICES ASSUME NEW i \in Server, state'[i] = "Candidate",
                      NEW j \in Supporters(currentTerm[i], i)',
                      j \notin Supporters(currentTerm[i], i)
               PROVE  UpToDate(LastLogTerm(log[i]), LastLogIndex(log[i]), log[j])
    BY <1>2, <1>4 DEF CandidatesKept
  <2>1. PICK b \in ballots' : b = [term |-> currentTerm[i], voter |-> j, candidate |-> i]
    BY <1>4 DEF Supporters
  <2>2. b \notin ballots
    BY <2>1 DEF Supporters
  <2>3. b = [term |-> T, voter |-> v, candidate |-> c]
    BY <1>2, <2>1, <2>2
  <2>4. T = currentTerm[i] /\ v = j /\ c = i
    BY <2>1, <2>3
  <2>5. state[m.src] = "Candidate" /\ currentTerm[m.src] = m.term
    BY <1>1, <1>4, <2>4
  <2> QED BY <1>1, <1>2, <2>4, <2>5 DEF RequestsDescribeLog
<1>6. RequestsDescribeLog'
  <2>1. \A r \in voteRequests : r.src \in Server
    BY DEF TypeInv, TypeOK, VoteRequest
  <2> QED BY <1>2, <1>4, <2>1 DEF RequestsDescribeLog
<1> QED BY <1>5, <1>6

\* A step that keeps terms, votes, requests and the logs of candidates, and makes
\* nobody a candidate.
LEMMA SameCampaign ==
  ASSUME TypeInv, RequestsDescribeLog, UNCHANGED <<currentTerm, ballots, voteRequests>>,
         \A i \in Server : state'[i] = "Candidate" => state[i] = "Candidate" /\ log'[i] = log[i]
  PROVE  CandidatesKept /\ RequestsDescribeLog'
<1>1. \A i : Supporters(currentTerm[i], i)' = Supporters(currentTerm[i], i)
  BY DEF Supporters
<1>2. \A m \in voteRequests : m.src \in Server
  BY DEF TypeInv, TypeOK, VoteRequest
<1> QED BY <1>1, <1>2 DEF CandidatesKept, RequestsDescribeLog

\* Who is elected has what its supporters have stored.
LEMMA ElectedHolds ==
  ASSUME TypeInv, TypeInv', ElectionInv', NEW L, LedgerInv(L), NEW S, StoredInv(L, S),
         CampaignInv(L, S), NEW M, NEW R, Advance(L, S, M, R),
         NEW d \in Server, state[d] = "Candidate", UNCHANGED <<currentTerm, ballots>>,
         [term |-> currentTerm[d], node |-> d] \in elected', M[currentTerm[d]] = log[d],
         NEW t \in 0..(currentTerm[d] - 1), NEW k \in DOMAIN M[t],
         Own(M, t, k), Choosable(R, t, k)'
  PROVE  Agree(log[d], M[t], k)
<1>1. PICK T \in Nat : T = currentTerm[d]
  BY DEF TypeInv, TypeOK
<1>2. t \in Nat /\ t < T
  BY <1>1
<1>3. log[d] \in Seq(Entry) /\ L[t] \in Seq(Entry) /\ M[t] \in Seq(Entry) /\ Begins(L[t], M[t])
  BY <1>2, LedgerTypes DEF Advance
<1>4. k \in Nat \ {0}
  BY <1>3
<1>5. PICK V : V = Supporters(T, d)
  OBVIOUS
<1>6. PICK e \in elected' : e = [term |-> T, node |-> d]
  BY <1>1
<1>7. /\ V \subseteq Server /\ Cardinality(V) >= Majority
      /\ \A v \in V : currentTerm'[v] > t
  <2>1. Supporters(e.term, e.node)' = V
    BY <1>5, <1>6 DEF Supporters
  <2>2. Cardinality(V) >= Majority
    BY <2>1 DEF ElectionInv, ElectedInv, Majority
  <2>3. ASSUME NEW v \in V
        PROVE  v \in Server /\ currentTerm'[v] > t
    <3>1. PICK b \in ballots : b = [term |-> T, voter |-> v, candidate |-> d]
      BY <1>5 DEF Supporters
    <3>2. b.term <= currentTerm'[b.voter] /\ b.term = T /\ b.voter = v
      BY <3>1 DEF ElectionInv, BallotInv
    <3>3. v \in Server /\ currentTerm'[v] \in Nat
      BY <1>5 DEF Supporters, TypeInv, TypeOK
    <3> QED BY <1>2, <3>2, <3>3
  <2> QED BY <2>2, <2>3
<1>8. PICK v \in V : k \in 1..S[t][v] /\ k \in DOMAIN L[t]
  BY <1>2, <1>4, <1>7, SupporterStored
<1>9. Own(L, t, k) /\ Choosable(S, t, k)
  BY <1>2, <1>8, OwnBefore, ChoosableBefore
<1>10. Agree(log[d], L[t], k)
  BY <1>1, <1>5, <1>8, <1>9 DEF CampaignInv, CandidatesHoldChoosable
<1> QED BY <1>3, <1>4, <1>10, AgreeGrows

-------------------------------------------------------------------------------
(* Commitment.                                                             *)

\* What is committed stays committed.
LEMMA ConfirmedKept ==
  ASSUME TypeInv, NEW L, LedgerInv(L), NEW S, StoredInv(L, S),
         NEW M, NEW R, Advance(L, S, M, R),
         NEW t \in Nat, NEW n \in DOMAIN L[t], Confirmed(L, S, t, n)
  PROVE  n \in Nat \ {0} /\ n \in DOMAIN M[t] /\ Confirmed(M, R, t, n)
<1>1. L[t] \in Seq(Entry) /\ M[t] \in Seq(Entry) /\ Begins(L[t], M[t])
  BY LedgerTypes DEF Advance
<1>2. n \in Nat \ {0} /\ n \in 1..Len(L[t]) /\ n \in DOMAIN M[t]
  BY <1>1 DEF Begins, Agree
<1>3. M[t][n].term = t
  <2>1. L[t][n] = M[t][n]
    BY <1>1, <1>2 DEF Begins, Agree
  <2> QED BY <2>1 DEF Confirmed, Own
<1> DEFINE A == {j \in Server : n <= S[t][j]}
           B == {j \in Server : n <= R[t][j]}
<1>4. \A j \in Server : n <= S[t][j] => n <= R[t][j]
  <2>1. \A j \in Server : S[t][j] \in Nat
    BY DEF StoredInv
  <2> QED BY <1>2, <2>1, StoredGrows
<1>5. A \subseteq B /\ B \subseteq Server
  BY <1>4
<1>6. /\ Cardinality(A) <= Cardinality(B)
      /\ Cardinality(A) \in Nat /\ Cardinality(B) \in Nat
  BY <1>5, ServerSets
<1>7. Cardinality(A) >= Majority
  BY DEF Confirmed, Stored
<1>8. Stored(R, t, n)
  BY <1>6, <1>7, MajorityType DEF Stored
<1> QED BY <1>2, <1>3, <1>8 DEF Confirmed, Own

\* The sequence of chosen entries only grows.
ChosenGrows ==
  /\ Len(chosen) <= Len(chosen')
  /\ \A k \in DOMAIN chosen : chosen'[k] = chosen[k]

\* A commit index remains one in later states and for later terms.
LEMMA KnownKept ==
  ASSUME TypeInv, TypeInv', NEW L, LedgerInv(L), NEW S, StoredInv(L, S),
         NEW M, NEW R, Advance(L, S, M, R), ChosenGrows,
         NEW c \in Nat, NEW d \in Nat, d <= c, NEW term \in Nat, NEW later \in Nat,
         term <= later, Known(L, S, c, term)
  PROVE  Known(M, R, d, later)'
<1>1. d <= Len(chosen')
  <2>1. Len(chosen) \in Nat /\ Len(chosen') \in Nat
    BY DEF TypeInv, TypeOK
  <2> QED BY <2>1 DEF Known, ChosenGrows
<1>2. ASSUME d > 0
      PROVE  \E t \in 0..later : \E n \in DOMAIN M[t] : d <= n /\ Confirmed(M, R, t, n)
  <2>1. PICK t \in 0..term : \E n \in DOMAIN L[t] : c <= n /\ Confirmed(L, S, t, n)
    BY <1>2 DEF Known
  <2>2. PICK n \in DOMAIN L[t] : c <= n /\ Confirmed(L, S, t, n)
    BY <2>1
  <2>3. t \in Nat /\ t \in 0..later
    OBVIOUS
  <2>4. n \in Nat \ {0} /\ n \in DOMAIN M[t] /\ Confirmed(M, R, t, n)
    BY <2>2, <2>3, ConfirmedKept
  <2>5. d <= n
    BY <2>2, <2>4
  <2> QED BY <2>3, <2>4, <2>5
<1> QED BY <1>1, <1>2 DEF Known

\* What was chosen before a step still comes from the leader that chose it.
LEMMA ChosenKept ==
  ASSUME TypeInv, TypeInv', NEW L, LedgerInv(L), NEW S, StoredInv(L, S),
         NEW M, NEW R, Advance(L, S, M, R), ChosenFromLeaders(L, S),
         NEW k \in DOMAIN chosen
  PROVE  LET t == chosen[k].at
         IN  /\ \E n \in DOMAIN M[t] : k <= n /\ Confirmed(M, R, t, n)
             /\ M[t][k] = chosen[k].entry
<1>1. PICK t \in Nat : t = chosen[k].at
  BY ChosenByLeader
<1>2. PICK n \in DOMAIN L[t] : k \in 1..n /\ Confirmed(L, S, t, n)
  BY <1>1, ChosenByLeader
<1>3. n \in Nat \ {0} /\ n \in DOMAIN M[t] /\ Confirmed(M, R, t, n)
  BY <1>2, ConfirmedKept
<1>4. M[t][k] = L[t][k]
  <2>1. k \in 1..Len(L[t])
    BY <1>2, <1>3, LedgerTypes
  <2> QED BY <2>1 DEF Advance, Begins, Agree
<1> QED BY <1>1, <1>2, <1>3, <1>4, ChosenByLeader

\* Nothing that was executed is ever cut: the leader that a follower follows has it.
LEMMA ExecutedKept ==
  ASSUME TypeInv, TypeInv', NEW L, LedgerInv(L), NEW S, StoredInv(L, S),
         LeadersHoldChoosable(L, S), CommitInv(L, S),
         NEW M, NEW R, Advance(L, S, M, R), NEW i \in Server
  PROVE  /\ commitIndex[i] <= Len(log'[i])
         /\ \A k \in 1..commitIndex[i] : log'[i][k] = chosen[k].entry
<1>1. PICK c \in Nat, l \in Seq(Entry), r \in Seq(Entry) :
        c = commitIndex[i] /\ l = log[i] /\ r = log'[i]
  BY DEF TypeInv, TypeOK
<1>2. c <= Len(l) /\ \A k \in 1..c : l[k] = chosen[k].entry
  BY <1>1 DEF CommitInv, ExecutedIsChosen
<1>3. Agree(l, r, c)
  <2>1. CASE Begins(l, r)
    BY <1>2, <2>1 DEF Begins, Agree
  <2>2. CASE /\ \E e \in elected : e.term = currentTerm'[i]
             /\ Merged(log'[i], log[i], L[currentTerm'[i]])
    <3>1. PICK e \in elected : e.term = currentTerm'[i]
      BY <2>2
    <3>2. PICK T \in Nat : T = e.term
      BY DEF TypeInv, TypeOK
    <3>3. Known(L, S, c, T)
      <4>1. Known(L, S, c, currentTerm[i])
        BY <1>1 DEF CommitInv, CommitIndexesKnown
      <4>2. currentTerm[i] \in Nat /\ currentTerm[i] <= T
        BY <3>1, <3>2 DEF Advance, TypeInv, TypeOK
      <4>3. 0..currentTerm[i] \subseteq 0..T
        BY <3>2, <4>2
      <4> QED BY <4>1, <4>3 DEF Known
    <3>4. c <= Len(L[T]) /\ \A k \in 1..c : L[T][k] = chosen[k].entry
      BY <3>2, <3>3, KnownInLeader DEF CommitInv
    <3>5. Agree(l, L[T], c)
      BY <1>2, <3>4 DEF Agree
    <3>6. Agree(r, L[T], c)
      BY <1>1, <2>2, <3>1, <3>2, <3>5 DEF Merged
    <3> QED BY <1>2, <3>5, <3>6 DEF Agree
  <2> QED BY <1>1, <2>1, <2>2 DEF Advance
<1> QED BY <1>1, <1>2, <1>3 DEF Agree

\* c stood in some place as the commit index of a term up to "term".
Heard(c, term) ==
  \/ c = 0
  \/ \E i \in Server :
       /\ currentTerm[i] <= term
       /\ c = commitIndex[i] \/ (state[i] = "Leader" /\ c \in announced[i])
  \/ \E m \in appendRequests : m.term <= term /\ c <= m.commit

\* Whatever stood somewhere as a commit index is known, also after the step.
LEMMA HeardIsKnown ==
  ASSUME TypeInv, TypeInv', NEW L, LedgerInv(L), NEW S, StoredInv(L, S),
         CommitInv(L, S), NEW M, NEW R, Advance(L, S, M, R), ChosenGrows,
         NEW c \in Nat, NEW term \in Nat, Heard(c, term)
  PROVE  Known(M, R, c, term)'
<1>1. CASE c = 0
  <2>1. Len(chosen') \in Nat
    BY DEF TypeInv, TypeOK
  <2> QED BY <1>1, <2>1 DEF Known
<1>2. ASSUME NEW i \in Server, currentTerm[i] <= term,
             c = commitIndex[i] \/ (state[i] = "Leader" /\ c \in announced[i])
      PROVE  Known(M, R, c, term)'
  <2>1. Known(L, S, c, currentTerm[i])
    BY <1>2 DEF CommitInv, CommitIndexesKnown
  <2>2. currentTerm[i] \in Nat
    BY DEF TypeInv, TypeOK
  <2> QED BY <1>2, <2>1, <2>2, KnownKept
<1>3. ASSUME NEW m \in appendRequests, m.term <= term, c <= m.commit
      PROVE  Known(M, R, c, term)'
  <2>1. Known(L, S, m.commit, m.term)
    BY DEF CommitInv, CommitIndexesKnown
  <2>2. m.term \in Nat /\ m.commit \in Nat
    BY DEF TypeInv, TypeOK, AppendRequest
  <2> QED BY <1>3, <2>1, <2>2, KnownKept
<1> QED BY <1>1, <1>2, <1>3 DEF Heard

\* Leaders announce, and send, what they had heard.
CommitsHeard ==
  /\ \A i \in Server : state'[i] = "Leader" =>
       \A c \in announced'[i] : Heard(c, currentTerm'[i])
  /\ \A m \in appendRequests' : Heard(m.commit, m.term)

\* A node executes what is in its log up to its new commit index.
Executes(i) ==
  /\ commitIndex'[i] > commitIndex[i]
  /\ commitIndex'[i] <= Len(log'[i])
  /\ applied'[i] = applied[i] \o [k \in 1..(commitIndex'[i] - Len(applied[i])) |->
                                    log'[i][Len(applied[i]) + k].cmd]
  /\ \A k \in 1..commitIndex'[i] : log'[i][k] = chosen'[k].entry

\* The store executes the entries between the old and the new commit index.
LEMMA AppliedGrows ==
  ASSUME NEW l, NEW c \in Nat, NEW n \in Nat, c <= n,
         NEW done, done = [k \in 1..c |-> l[k].cmd]
  PROVE  done \o [k \in 1..(n - Len(done)) |-> l[Len(done) + k].cmd]
           = [k \in 1..n |-> l[k].cmd]
<1>1. Len(done) = c
  OBVIOUS
<1> QED BY <1>1

\* What a node did to its commit index and its store: nothing, a restart, or both moved
\* forward together.
Executing(i) ==
  \/ commitIndex'[i] = commitIndex[i] /\ applied'[i] = applied[i]
  \/ commitIndex'[i] = 0 /\ applied'[i] = <<>>
  \/ Executes(i)

\* ExecutedIsChosen is kept if every node executes along with its commit index.
LEMMA ExecutedStep ==
  ASSUME TypeInv, TypeInv', NEW L, LedgerInv(L), NEW S, StoredInv(L, S),
         LeadersHoldChoosable(L, S), CommitInv(L, S),
         NEW M, NEW R, Advance(L, S, M, R), ChosenGrows,
         \A i \in Server : Executing(i)
  PROVE  ExecutedIsChosen'
<1> SUFFICES ASSUME NEW i \in Server
             PROVE  /\ commitIndex'[i] <= Len(log'[i])
                    /\ \A k \in 1..commitIndex'[i] : log'[i][k] = chosen'[k].entry
                    /\ applied'[i] = [k \in 1..commitIndex'[i] |-> chosen'[k].entry.cmd]
  BY DEF ExecutedIsChosen
<1>1. PICK c \in Nat, n \in Nat, r \in Seq(Entry) :
        c = commitIndex[i] /\ n = commitIndex'[i] /\ r = log'[i]
  BY DEF TypeInv, TypeOK
<1>2. c <= Len(r) /\ \A k \in 1..c : r[k] = chosen[k].entry
  BY <1>1, ExecutedKept
<1>3. applied[i] = [k \in 1..c |-> chosen[k].entry.cmd]
  BY <1>1 DEF CommitInv, ExecutedIsChosen
<1>4. \A k \in 1..c : chosen'[k] = chosen[k]
  <2>1. c <= Len(chosen)
    BY <1>1 DEF CommitInv, CommitIndexesKnown, Known
  <2>2. Len(chosen) \in Nat /\ DOMAIN chosen = 1..Len(chosen)
    BY ChosenTypes
  <2>3. \A k \in 1..c : k \in DOMAIN chosen
    BY <2>1, <2>2
  <2> QED BY <2>3 DEF ChosenGrows
<1>5. CASE commitIndex'[i] = commitIndex[i] /\ applied'[i] = applied[i]
  <2>1. [k \in 1..c |-> chosen[k].entry.cmd] = [k \in 1..c |-> chosen'[k].entry.cmd]
    BY <1>4
  <2> QED BY <1>1, <1>2, <1>3, <1>4, <1>5, <2>1
<1>6. CASE commitIndex'[i] = 0 /\ applied'[i] = <<>>
  <2>1. [k \in 1..0 |-> chosen'[k].entry.cmd] = <<>>
    OBVIOUS
  <2>2. 0 <= Len(r)
    OBVIOUS
  <2> QED BY <1>1, <1>6, <2>1, <2>2
<1>7. CASE Executes(i)
  <2>1. /\ n > c
        /\ n <= Len(r)
        /\ \A k \in 1..n : r[k] = chosen'[k].entry
        /\ applied'[i] = applied[i] \o [k \in 1..(n - Len(applied[i])) |->
                                          r[Len(applied[i]) + k].cmd]
    BY <1>1, <1>7 DEF Executes
  <2>2. applied[i] = [k \in 1..c |-> r[k].cmd]
    BY <1>2, <1>3
  <2>3. applied'[i] = [k \in 1..n |-> r[k].cmd]
    BY <2>1, <2>2, AppliedGrows
  <2>4. [k \in 1..n |-> r[k].cmd] = [k \in 1..n |-> chosen'[k].entry.cmd]
    BY <2>1
  <2> QED BY <1>1, <2>1, <2>3, <2>4
<1> QED BY <1>5, <1>6, <1>7 DEF Executing

\* CommitInv is kept by a step whose commit indexes were heard of or are known.
LEMMA CommitStep ==
  ASSUME TypeInv, TypeInv', NEW L, LedgerInv(L), NEW S, StoredInv(L, S),
         LeadersHoldChoosable(L, S), CommitInv(L, S),
         NEW M, NEW R, Advance(L, S, M, R), ChosenGrows, CommitsHeard,
         \A i \in Server : Executing(i),
         \A i \in Server :
           Heard(commitIndex'[i], currentTerm'[i])
             \/ Known(M, R, commitIndex[i], currentTerm[i])',
         \A k \in DOMAIN chosen' : k \in DOMAIN chosen
           \/ LET t == chosen'[k].at
              IN  /\ \E n \in DOMAIN M[t] : k <= n /\ Confirmed(M, R, t, n)
                  /\ M[t][k] = chosen'[k].entry
  PROVE  CommitInv(M, R)'
<1>1. ChosenFromLeaders(M, R)'
  <2> SUFFICES ASSUME NEW k \in DOMAIN chosen'
               PROVE  LET t == chosen'[k].at
                      IN  /\ \E n \in DOMAIN M[t] : k <= n /\ Confirmed(M, R, t, n)
                          /\ M[t][k] = chosen'[k].entry
    BY DEF ChosenFromLeaders, Confirmed, Own, Stored, Majority
  <2>1. CASE k \in DOMAIN chosen
    <3>1. chosen'[k] = chosen[k]
      BY <2>1 DEF ChosenGrows
    <3>2. LET t == chosen[k].at
          IN  /\ \E n \in DOMAIN M[t] : k <= n /\ Confirmed(M, R, t, n)
              /\ M[t][k] = chosen[k].entry
      BY <2>1, ChosenKept DEF CommitInv
    <3> QED BY <3>1, <3>2
  <2> QED BY <2>1
<1>2. CommitIndexesKnown(M, R)'
  <2>1. ASSUME NEW i \in Server
        PROVE  Known(M, R, commitIndex[i], currentTerm[i])'
    <3>1. PICK c \in Nat, T \in Nat : c = commitIndex'[i] /\ T = currentTerm'[i]
      BY DEF TypeInv, TypeOK
    <3>2. CASE Heard(c, T)
      <4>1. Known(M, R, c, T)'
        BY <3>2, HeardIsKnown
      <4> QED BY <3>1, <4>1 DEF Known, Confirmed, Own, Stored, Majority
    <3> QED BY <3>1, <3>2
  <2>2. ASSUME NEW i \in Server, state'[i] = "Leader", NEW c \in announced'[i]
        PROVE  Known(M, R, c, currentTerm[i])'
    <3>1. PICK T \in Nat : T = currentTerm'[i]
      BY DEF TypeInv, TypeOK
    <3>2. c \in Nat /\ Heard(c, T)
      BY <2>2, <3>1 DEF CommitsHeard, TypeInv, TypeOK
    <3>3. Known(M, R, c, T)'
      BY <3>2, HeardIsKnown
    <3> QED BY <3>1, <3>3 DEF Known, Confirmed, Own, Stored, Majority
  <2>3. ASSUME NEW m \in appendRequests'
        PROVE  Known(M, R, m.commit, m.term)'
    <3>1. m.commit \in Nat /\ m.term \in Nat
      BY DEF TypeInv, TypeOK, AppendRequest
    <3>2. Heard(m.commit, m.term)
      BY DEF CommitsHeard
    <3> QED BY <3>1, <3>2, HeardIsKnown
  <2> QED BY <2>1, <2>2, <2>3 DEF CommitIndexesKnown
<1>3. ExecutedIsChosen'
  BY ExecutedStep
<1> QED BY <1>1, <1>2, <1>3 DEF CommitInv

-------------------------------------------------------------------------------
(* The invariant, and the steps that keep it quietly.                      *)

\* All of RaftLedger, for one choice of the two functions.
Safe(L, S) ==
  /\ LedgerInv(L)
  /\ StoredInv(L, S)
  /\ CampaignInv(L, S)
  /\ CommitInv(L, S)

\* The inductive invariant of Raft.
SafetyInv ==
  /\ TypeInv
  /\ ElectionInv
  /\ RoleInv
  /\ \E L, S : Safe(L, S)

\* R is S, or what a node stored just now from the leader of its term.
Stores(L, S, R) ==
  /\ R \in [Nat -> [Server -> Nat]]
  /\ \A t \in Nat : \A j \in Server :
       \/ R[t][j] = S[t][j]
       \/ /\ R[t][j] > S[t][j]
          /\ t = currentTerm'[j]
          /\ Agree(log'[j], L[t], R[t][j])

\* A quiet step, in which no leader's log grows and nobody is elected.
LEMMA QuietSafe ==
  ASSUME TypeInv, TypeInv', ElectionInv, ElectionInv', NEW L, NEW S, Safe(L, S),
         NEW R, Stores(L, S, R), Quiet(L), MatchesReported, RepliesTruthful(R),
         CandidatesKept, RequestsDescribeLog', CommitInv(L, R)'
  PROVE  Safe(L, R)'
<1>1. LedgerInv(L) /\ StoredInv(L, S) /\ CampaignInv(L, S) /\ LeadersHoldChoosable(L, S)
  BY DEF Safe, CampaignInv
<1>2. Advance(L, S, L, R)
  BY <1>1, QuietAdvance DEF Stores
<1>3. LedgerInv(L)'
  BY <1>1, QuietLedger
<1>4. StoredInv(L, R)'
  <2>1. CountsStored(R)'
    BY <1>1, <1>2, CountsKept
  <2> QED BY <1>1, <1>2, <2>1, StoredStep DEF Stores
<1>5. CampaignInv(L, R)'
  <2>1. LeadersHoldChoosable(L, R)'
    BY <1>1, <1>2, LeadersStep DEF Quiet, RolesKept
  <2>2. CandidatesHoldChoosable(L, R)'
    BY <1>1, <1>2, CandidatesStep
  <2> QED BY <2>1, <2>2 DEF CampaignInv
<1> QED BY <1>3, <1>4, <1>5 DEF Safe

\* Nothing is committed, and no commit index is new.
CommitsFollow ==
  /\ chosen' = chosen
  /\ CommitsHeard
  /\ \A i \in Server : Executing(i) /\ Heard(commitIndex'[i], currentTerm'[i])

\* A quiet step that commits nothing and whose commit indexes were heard of.
LEMMA FollowingSafe ==
  ASSUME TypeInv, TypeInv', ElectionInv, ElectionInv', NEW L, NEW S, Safe(L, S),
         NEW R, Stores(L, S, R), Quiet(L), MatchesReported, RepliesTruthful(R),
         CandidatesKept, RequestsDescribeLog', CommitsFollow
  PROVE  Safe(L, R)'
<1>1. LedgerInv(L) /\ StoredInv(L, S) /\ LeadersHoldChoosable(L, S) /\ CommitInv(L, S)
  BY DEF Safe, CampaignInv
<1>2. Advance(L, S, L, R)
  BY <1>1, QuietAdvance DEF Stores
<1>3. ChosenGrows
  <2>1. Len(chosen) \in Nat
    BY ChosenTypes
  <2> QED BY <2>1 DEF CommitsFollow, ChosenGrows
<1>4. CommitInv(L, R)'
  BY <1>1, <1>2, <1>3, CommitStep DEF CommitsFollow
<1> QED BY <1>4, QuietSafe

\* S itself is one choice for what is stored after a step that stores nothing.
LEMMA StoresSame ==
  ASSUME NEW L, NEW S, StoredInv(L, S)
  PROVE  Stores(L, S, S)
BY DEF StoredInv, Stores

\* What most steps leave alone: stores, counts, and what leaders announce and send.
NothingStored ==
  /\ \A m \in appendReplies' : m.success => m \in appendReplies
  /\ \A i \in Server : state'[i] = "Leader" => matchIndex'[i] = matchIndex[i]

\* No commit index moves but back to 0 by a restart, and leaders announce their own.
NothingHeard ==
  /\ UNCHANGED chosen
  /\ \A i \in Server :
       \/ commitIndex'[i] = commitIndex[i] /\ applied'[i] = applied[i]
       \/ commitIndex'[i] = 0 /\ applied'[i] = <<>>
  /\ \A i \in Server : state'[i] = "Leader" =>
       \A c \in announced'[i] : c \in announced[i] \/ c = commitIndex[i]
  /\ \A m \in appendRequests' :
       \/ \E old \in appendRequests : m.term = old.term /\ m.commit = old.commit
       \/ /\ m.src \in Server
          /\ state[m.src] = "Leader"
          /\ m.term = currentTerm[m.src]
          /\ m.commit \in announced[m.src]

\* Then every commit index was heard of before.
LEMMA NothingHeardFollows ==
  ASSUME TypeInv, TypeInv', RolesKept, NothingHeard
  PROVE  CommitsFollow
<1>1. \A i \in Server : currentTerm[i] \in Nat /\ currentTerm'[i] \in Nat
  BY DEF TypeInv, TypeOK
<1>2. ASSUME NEW i \in Server
      PROVE  /\ currentTerm[i] <= currentTerm'[i]
             /\ state'[i] = "Leader" => state[i] = "Leader"
  <2>1. \/ currentTerm'[i] = currentTerm[i] /\ state'[i] = state[i]
        \/ currentTerm'[i] >= currentTerm[i] /\ state'[i] = "Follower"
        \/ currentTerm'[i] > currentTerm[i] /\ state'[i] = "Candidate"
    BY DEF RolesKept
  <2> QED BY <1>1, <2>1
<1>3. ASSUME NEW i \in Server
      PROVE  Executing(i) /\ Heard(commitIndex'[i], currentTerm'[i])
  BY <1>2 DEF NothingHeard, Executing, Heard
<1>4. ASSUME NEW i \in Server, state'[i] = "Leader", NEW c \in announced'[i]
      PROVE  Heard(c, currentTerm'[i])
  BY <1>2, <1>4 DEF NothingHeard, Heard
<1>5. ASSUME NEW m \in appendRequests'
      PROVE  Heard(m.commit, m.term)
  <2>1. m.term \in Nat /\ m.commit \in Nat
    BY DEF TypeInv, TypeOK, AppendRequest
  <2>2. m.term <= m.term /\ m.commit <= m.commit
    BY <2>1
  <2> QED BY <2>2 DEF NothingHeard, Heard
<1> QED BY <1>3, <1>4, <1>5 DEF CommitsFollow, CommitsHeard, NothingHeard

\* A quiet step that stores nothing and hears nothing.
LEMMA CalmSafe ==
  ASSUME TypeInv, TypeInv', ElectionInv, ElectionInv', NEW L, NEW S, Safe(L, S), Quiet(L),
         CandidatesKept, RequestsDescribeLog', NothingStored, NothingHeard
  PROVE  \E M, R : Safe(M, R)'
<1>1. Stores(L, S, S)
  BY StoresSame DEF Safe
<1>2. MatchesReported /\ RepliesTruthful(S)
  BY DEF NothingStored, MatchesReported, RepliesTruthful
<1>3. CommitsFollow
  BY NothingHeardFollows DEF Quiet
<1>4. Safe(L, S)'
  BY <1>1, <1>2, <1>3, FollowingSafe
<1> QED BY <1>4

\* A node that does not touch its volatile state.
LEMMA VolatileKept ==
  ASSUME UNCHANGED <<matchIndex, machine, announced, chosen>>,
         appendRequests' \subseteq appendRequests,
         \A m \in appendReplies' : m.success => m \in appendReplies
  PROVE  NothingStored /\ NothingHeard
BY DEF NothingStored, NothingHeard, machine

\* A refusal reports nothing as stored.
LEMMA AnsweredAppendNo ==
  ASSUME NEW m \in appendRequests, NEW term, AnswerAppend(m, term, FALSE)
  PROVE  /\ appendRequests' \subseteq appendRequests
         /\ \A r \in appendReplies' : r.success => r \in appendReplies
BY DEF AnswerAppend, Take

\* A restart forgets what the node had counted and announced, and empties its store.
LEMMA RebootCalm ==
  ASSUME TypeInv, NEW i \in Server, NEW pending, Reboot(i, pending), chosen' = chosen
  PROVE  NothingStored /\ NothingHeard
<1>1. /\ state' = [state EXCEPT ![i] = "Follower"]
      /\ commitIndex' = [commitIndex EXCEPT ![i] = 0]
      /\ applied' = [applied EXCEPT ![i] = <<>>]
      /\ matchIndex' = [matchIndex EXCEPT ![i] = [j \in Server |-> 0]]
      /\ announced' = [announced EXCEPT ![i] = {}]
      /\ appendReplies' = {m \in appendReplies : m.dst # i}
      /\ appendRequests' = Abandon(i, appendRequests)
  BY DEF Reboot
<1>2. /\ state'[i] = "Follower" /\ commitIndex'[i] = 0 /\ applied'[i] = <<>>
      /\ \A j \in Server \ {i} : /\ commitIndex'[j] = commitIndex[j]
                                 /\ applied'[j] = applied[j]
                                 /\ matchIndex'[j] = matchIndex[j]
                                 /\ announced'[j] = announced[j]
  BY <1>1 DEF TypeInv, TypeOK
<1>3. ASSUME NEW m \in appendRequests'
      PROVE  \E old \in appendRequests : m.term = old.term /\ m.commit = old.commit
  <2>1. PICK old \in appendRequests : m = old \/ m = [old EXCEPT !.awaited = FALSE]
    BY <1>1 DEF Abandon
  <2>2. old \in AppendRequest
    BY DEF TypeInv, TypeOK
  <2>3. m.term = old.term /\ m.commit = old.commit
    BY <2>1, <2>2 DEF AppendRequest
  <2> QED BY <2>3
<1>4. NothingStored
  <2>1. \A j \in Server : state'[j] = "Leader" => j # i
    BY <1>2
  <2> QED BY <1>1, <1>2, <2>1 DEF NothingStored
<1>5. NothingHeard
  <2>1. \A j \in Server : state'[j] = "Leader" => j # i
    BY <1>2
  <2> QED BY <1>2, <1>3, <2>1 DEF NothingHeard
<1> QED BY <1>4, <1>5

\* A vote request, granted or not, leaves logs, counts and stores alone.
LEMMA HandleRequestVoteCalm ==
  ASSUME NEW m \in voteRequests, HandleRequestVote(m)
  PROVE  NothingStored /\ NothingHeard
<1>1. /\ UNCHANGED <<matchIndex, machine, announced, chosen>>
      /\ appendRequests' = appendRequests /\ appendReplies' = appendReplies
  BY DEF HandleRequestVote, RejectStaleCandidate, DenyVote, GrantVote,
         leaderVars, goroutines, history, appendRPC
<1> QED BY <1>1, VolatileKept

\* So does an answer to one that deposes the candidate or is ignored.
LEMMA HandleVoteReplyCalm ==
  ASSUME NEW m \in voteReplies, StepDownOnVoteReply(m) \/ IgnoreVoteReply(m)
  PROVE  NothingStored /\ NothingHeard
<1>1. /\ UNCHANGED <<matchIndex, machine, announced, chosen>>
      /\ appendRequests' = appendRequests /\ appendReplies' = appendReplies
  BY DEF StepDownOnVoteReply, IgnoreVoteReply, leaderVars, goroutines, history, appendRPC
<1> QED BY <1>1, VolatileKept

\* So does an append request that is refused.
LEMMA RefuseAppendCalm ==
  ASSUME NEW m \in appendRequests,
         RejectStaleLeader(m) \/ RejectMismatch(m) \/ LoseAppendRequest(m)
  PROVE  NothingStored /\ NothingHeard
<1>1. UNCHANGED <<matchIndex, machine, announced, chosen>>
  BY DEF RejectStaleLeader, RejectMismatch, LoseAppendRequest, leaderVars, goroutines, history
<1>2. /\ appendRequests' \subseteq appendRequests
      /\ \A r \in appendReplies' : r.success => r \in appendReplies
  <2>1. CASE RejectStaleLeader(m) \/ RejectMismatch(m)
    BY <2>1, AnsweredAppendNo DEF RejectStaleLeader, RejectMismatch
  <2>2. CASE LoseAppendRequest(m)
    BY <2>2 DEF LoseAppendRequest
  <2> QED BY <2>1, <2>2
<1> QED BY <1>1, <1>2, VolatileKept

\* So does an answer that a leader ignores or that deposes it.
LEMMA IgnoreAppendReplyCalm ==
  ASSUME NEW m \in appendReplies,
         \/ StepDownOnAppendReply(m) \/ IgnoreAppendReply(m)
         \/ BackOff(m) \/ LoseAppendReply(m)
  PROVE  NothingStored /\ NothingHeard
<1>1. /\ UNCHANGED <<matchIndex, machine, announced, chosen>>
      /\ appendRequests' = appendRequests
  BY DEF StepDownOnAppendReply, IgnoreAppendReply, BackOff, LoseAppendReply,
         leaderVars, goroutines, history
<1>2. appendReplies' \subseteq appendReplies
  BY DEF StepDownOnAppendReply, IgnoreAppendReply, BackOff, LoseAppendReply, Take
<1> QED BY <1>1, <1>2, VolatileKept

\* Heartbeats speak of the leader's commit index, sometimes of an old one.
LEMMA BroadcastCalm ==
  ASSUME TypeInv, NEW i \in Server, Broadcast(i)
  PROVE  NothingStored /\ NothingHeard
<1>1. /\ UNCHANGED <<matchIndex, machine, chosen>>
      /\ appendRequests' = appendRequests /\ appendReplies' = appendReplies
      /\ announced' = [announced EXCEPT ![i] = @ \cup {commitIndex[i]}]
  BY DEF Broadcast, leaderVars, history, appendRPC
<1>2. \A j \in Server : \A c \in announced'[j] : c \in announced[j] \/ c = commitIndex[j]
  BY <1>1 DEF TypeInv, TypeOK
<1> QED BY <1>1, <1>2 DEF NothingStored, NothingHeard, machine

\* A request carries what the leader announced or committed.
LEMMA ReplicateToPeerCalm ==
  ASSUME NEW i \in Server, NEW j \in Server, NEW commit, ReplicateToPeer(i, j, commit)
  PROVE  NothingStored /\ NothingHeard
<1>1. /\ UNCHANGED <<matchIndex, machine, announced, chosen>>
      /\ appendReplies' = appendReplies
      /\ state[i] = "Leader" /\ commit \in announced[i]
  BY DEF ReplicateToPeer, leaderVars, goroutines, history
<1> DEFINE next == IF nextIndex[i][j] = 0 THEN 1 ELSE nextIndex[i][j]
           new  == [src |-> i, dst |-> j, term |-> currentTerm[i],
                    prevIndex |-> next - 1, prevTerm |-> TermAt(log[i], next - 1),
                    entries |-> EntriesFrom(log[i], next),
                    commit |-> commit, awaited |-> TRUE]
<1>2. appendRequests' = appendRequests \cup {new}
  BY DEF ReplicateToPeer
<1>3. new.src = i /\ new.term = currentTerm[i] /\ new.commit = commit
  OBVIOUS
<1> HIDE DEF new
<1>4. \A m \in appendRequests' : m \in appendRequests \/ m = new
  BY <1>2
<1> QED BY <1>1, <1>3, <1>4 DEF NothingStored, NothingHeard, machine

-------------------------------------------------------------------------------
(* A follower stores what its leader sends.                                *)

\* HandleAppendEntries: after the integration the follower has stored L[term] up to the
\* end of the request, whatever it had before.
LEMMA AcceptEntriesSafe ==
  ASSUME TypeInv, TypeInv', ElectionInv, ElectionInv', RoleInv,
         NEW L, NEW S, Safe(L, S), Quiet(L), CandidatesKept, RequestsDescribeLog',
         NEW m \in appendRequests, AcceptEntries(m)
  PROVE  \E M, R : Safe(M, R)'
<1>1. PICK d \in Server, T \in Nat, p \in Nat, q \in Seq(Entry) :
        /\ d = m.dst /\ T = m.term /\ p = m.prevIndex + Len(m.entries)
        /\ q = IntegrateEntries(log[d], m.entries)
        /\ log'[d] = q
        /\ \A j \in Server \ {d} : log'[j] = log[j]
  <2>1. /\ m.dst \in Server /\ m.term \in Nat /\ m.prevIndex \in Nat /\ m.entries \in Seq(Entry)
        /\ log' \in [Server -> Seq(Entry)] /\ log \in [Server -> Seq(Entry)]
    BY DEF TypeInv, TypeOK, AppendRequest
  <2>2. log' = [log EXCEPT ![m.dst] = IntegrateEntries(log[m.dst], m.entries)]
    BY DEF AcceptEntries
  <2>3. log'[m.dst] = IntegrateEntries(log[m.dst], m.entries) /\ log'[m.dst] \in Seq(Entry)
    BY <2>1, <2>2
  <2>4. m.prevIndex + Len(m.entries) \in Nat
    BY <2>1
  <2> QED BY <2>1, <2>2, <2>3, <2>4
<1>2. /\ LedgerInv(L) /\ StoredInv(L, S) /\ LeadersHoldChoosable(L, S) /\ CommitInv(L, S)
      /\ S \in [Nat -> [Server -> Nat]]
  BY DEF Safe, CampaignInv, StoredInv
<1>3. Agree(q, L[T], p) /\ p <= Len(q)
  <2>1. PrevMatches(log[m.dst], m.prevIndex, m.prevTerm)
    BY DEF AcceptEntries
  <2>2. Agree(IntegrateEntries(log[m.dst], m.entries), L[m.term],
              m.prevIndex + Len(m.entries))
    BY <1>2, <2>1, RequestIntegrated
  <2> QED BY <1>1, <2>2 DEF Agree
<1>4. /\ currentTerm'[d] = T
      /\ \A j \in Server \ {d} : currentTerm'[j] = currentTerm[j]
      /\ T >= currentTerm[d]
      /\ currentTerm[d] \in Nat
  BY <1>1 DEF AcceptEntries, BecomeFollower, SetTermAndVote, TypeInv, TypeOK
<1>5. PICK R : R = [S EXCEPT ![T] = [S[T] EXCEPT ![d] = IF p > S[T][d] THEN p ELSE S[T][d]]]
  OBVIOUS
<1>6. /\ R \in [Nat -> [Server -> Nat]]
      /\ \A t \in Nat : \A j \in Server :
           R[t][j] = S[t][j] \/ (t = T /\ j = d /\ R[t][j] = p /\ p > S[t][j])
      /\ p <= R[T][d]
  <2>1. S[T] \in [Server -> Nat] /\ S[T][d] \in Nat
    BY <1>2
  <2>2. PICK x \in Nat : x = (IF p > S[T][d] THEN p ELSE S[T][d])
    BY <2>1
  <2>3. R = [S EXCEPT ![T] = [S[T] EXCEPT ![d] = x]] /\ p <= x /\ (x = p \/ x = S[T][d])
    BY <1>5, <2>1, <2>2
  <2>4. (x = p /\ p > S[T][d]) \/ x = S[T][d]
    BY <2>1, <2>2
  <2> QED BY <1>2, <2>1, <2>3, <2>4
<1>7. Stores(L, S, R)
  <2> SUFFICES ASSUME NEW t \in Nat, NEW j \in Server, R[t][j] # S[t][j]
               PROVE  /\ R[t][j] > S[t][j]
                      /\ t = currentTerm'[j]
                      /\ Agree(log'[j], L[t], R[t][j])
    BY <1>6 DEF Stores
  <2>1. t = T /\ j = d /\ R[t][j] = p /\ p > S[t][j]
    BY <1>6
  <2> QED BY <1>1, <1>3, <1>4, <2>1
<1>8. MatchesReported
  BY DEF AcceptEntries, leaderVars, MatchesReported
<1>9. appendRequests' \subseteq appendRequests
  BY DEF AcceptEntries, AnswerAppend, Take
<1>10. RepliesTruthful(R)
  <2>1. ASSUME NEW r \in appendReplies', r \notin appendReplies
        PROVE  r.match = p /\ r.call = T /\ r.src = d
    BY <1>1, <2>1 DEF AcceptEntries, AnswerAppend
  <2> QED BY <1>6, <2>1 DEF RepliesTruthful
<1>11. CommitsFollow
  <2>1. /\ chosen' = chosen /\ announced' = announced
        /\ state' = [state EXCEPT ![d] = "Follower"]
    BY <1>1 DEF AcceptEntries, history, goroutines, BecomeFollower
  <2>2. /\ state'[d] = "Follower"
        /\ \A j \in Server \ {d} : state'[j] = state[j]
        /\ \A j \in Server : currentTerm[j] <= currentTerm'[j]
    <3>1. state'[d] = "Follower" /\ \A j \in Server \ {d} : state'[j] = state[j]
      BY <2>1 DEF TypeInv, TypeOK
    <3>2. ASSUME NEW j \in Server
          PROVE  currentTerm[j] <= currentTerm'[j]
      <4>1. PICK x \in Nat : x = currentTerm[j]
        BY DEF TypeInv, TypeOK
      <4>2. x <= x
        OBVIOUS
      <4> QED BY <1>4, <4>1, <4>2
    <3> QED BY <3>1, <3>2
  <2>3. CommitsHeard
    <3>1. ASSUME NEW r \in appendRequests
          PROVE  r.term <= r.term /\ r.commit <= r.commit
      <4>1. r.term \in Nat /\ r.commit \in Nat
        BY DEF TypeInv, TypeOK, AppendRequest
      <4> QED BY <4>1
    <3>2. ASSUME NEW j \in Server, state'[j] = "Leader", NEW c \in announced'[j]
          PROVE  Heard(c, currentTerm'[j])
      BY <2>1, <2>2, <3>2 DEF Heard
    <3> QED BY <1>9, <3>1, <3>2 DEF CommitsHeard, Heard
  <2>4. PICK c \in Nat, mc \in Nat, n \in Nat :
          /\ c = commitIndex[d] /\ mc = m.commit
          /\ n = Smaller(mc, p)
    BY <1>1 DEF TypeInv, TypeOK, AppendRequest, Smaller
  <2>5. n <= mc /\ n <= p
    BY <2>4 DEF Smaller
  <2>6. IF n > c THEN CommitAndApply(d, n, q) ELSE UNCHANGED machine
    BY <1>1, <2>4 DEF AcceptEntries
  <2>7. CASE n > c
    <3>1. /\ commitIndex'[d] = n
          /\ applied'[d] = applied[d] \o [k \in 1..(n - Len(applied[d])) |->
                                            q[Len(applied[d]) + k].cmd]
          /\ \A j \in Server \ {d} :
               commitIndex'[j] = commitIndex[j] /\ applied'[j] = applied[j]
      BY <2>6, <2>7 DEF CommitAndApply, TypeInv, TypeOK
    <3>2. PICK e \in elected : e.term = T
      BY <1>1 DEF RoleInv
    <3>3. Known(L, S, mc, T)
      BY <1>1, <1>2, <2>4 DEF CommitInv, CommitIndexesKnown
    <3>4. \A k \in 1..mc : L[T][k] = chosen[k].entry
      BY <1>2, <3>2, <3>3, KnownInLeader DEF CommitInv
    <3>5. \A k \in 1..n : q[k] = chosen[k].entry
      <4>1. \A k \in 1..n : k \in 1..p /\ k \in 1..mc
        BY <2>5
      <4> QED BY <1>3, <3>4, <4>1 DEF Agree
    <3>6. n <= Len(q)
      <4>1. Len(q) \in Nat
        OBVIOUS
      <4> QED BY <1>3, <2>5, <4>1
    <3>7. Executes(d)
      BY <1>1, <2>1, <2>4, <2>7, <3>1, <3>5, <3>6 DEF Executes
    <3>8. Heard(n, T)
      <4>1. T <= T
        OBVIOUS
      <4> QED BY <1>1, <2>4, <2>5, <4>1 DEF Heard
    <3> QED BY <1>4, <2>1, <2>2, <2>3, <3>1, <3>7, <3>8
         DEF CommitsFollow, Executing, Heard
  <2>8. CASE ~(n > c)
    <3>1. commitIndex' = commitIndex /\ applied' = applied
      BY <2>6, <2>8 DEF machine
    <3> QED BY <2>1, <2>2, <2>3, <3>1 DEF CommitsFollow, Executing, Heard
  <2> QED BY <2>7, <2>8
<1>12. Safe(L, R)'
  BY <1>7, <1>8, <1>10, <1>11, FollowingSafe
<1> QED BY <1>12

-------------------------------------------------------------------------------
(* A leader counts a reply and commits what a majority has stored.         *)

\* What the leader may commit is committed.
LEMMA CommittableConfirmed ==
  ASSUME TypeInv, NEW L, LedgerInv(L), NEW S, StoredInv(L, S),
         NEW i \in Server, NEW T \in Nat, T = currentTerm[i], state[i] = "Leader",
         NEW match, \A j \in Server \ {i} : match[j] \in Nat /\ match[j] <= S[T][j],
         NEW N \in Committable(i, match)
  PROVE  /\ N \in Nat \ {0} /\ N > commitIndex[i] /\ N <= Len(log[i])
         /\ N \in DOMAIN L[T] /\ log[i] = L[T]
         /\ Confirmed(L, S, T, N)
<1>1. log[i] = L[T] /\ S[T][i] = Len(log[i])
  BY DEF LedgerInv, LogsFromLeaders, StoredInv, CountsStored
<1>2. commitIndex[i] \in Nat /\ Len(log[i]) \in Nat /\ DOMAIN log[i] = 1..Len(log[i])
  BY LedgerTypes DEF TypeInv, TypeOK
<1>3. /\ N \in (commitIndex[i] + 1)..Len(log[i])
      /\ log[i][N].term = T
      /\ 1 + Cardinality({j \in Server \ {i} : match[j] >= N}) >= Majority
  BY DEF Committable
<1>4. N \in Nat \ {0} /\ N > commitIndex[i] /\ N <= Len(log[i]) /\ N \in DOMAIN log[i]
  BY <1>2, <1>3
<1> DEFINE A == {j \in Server \ {i} : match[j] >= N}
           B == {j \in Server : N <= S[T][j]}
<1>5. A \cup {i} \subseteq B /\ B \subseteq Server
  <2>1. ASSUME NEW j \in Server \ {i}, match[j] >= N
        PROVE  N <= S[T][j]
    <3>1. match[j] \in Nat /\ match[j] <= S[T][j] /\ S[T][j] \in Nat
      BY DEF StoredInv
    <3> QED BY <1>4, <2>1, <3>1
  <2>2. N <= S[T][i]
    BY <1>1, <1>4
  <2> QED BY <2>1, <2>2
<1>6. /\ Cardinality(A \cup {i}) <= Cardinality(B)
      /\ Cardinality(A \cup {i}) \in Nat /\ Cardinality(B) \in Nat
  BY <1>5, ServerSets
<1>7. Cardinality(A \cup {i}) = 1 + Cardinality(A) /\ Cardinality(A) \in Nat
  <2>1. IsFiniteSet(A) /\ Cardinality(A) \in Nat
    <3>1. A \subseteq Server
      OBVIOUS
    <3> QED BY <3>1, ServerSets
  <2>2. i \notin A
    OBVIOUS
  <2> HIDE DEF A
  <2>3. Cardinality(A \cup {i}) = Cardinality(A) + 1
    BY <2>1, <2>2, FS_AddElement
  <2> QED BY <2>1, <2>3
<1>8. Cardinality(B) >= Majority
  BY <1>3, <1>6, <1>7, MajorityType
<1>9. Stored(S, T, N)
  BY <1>8 DEF Stored
<1> QED BY <1>1, <1>3, <1>4, <1>9 DEF Confirmed, Own

\* What a commit adds to the chosen sequence.
LEMMA NewlyChosen ==
  ASSUME TypeInv, NEW i \in Server, NEW N \in Nat, chosen' = chosen \o Newly(i, N)
  PROVE  /\ ChosenGrows
         /\ N <= Len(chosen')
         /\ \A k \in DOMAIN chosen' : k \notin DOMAIN chosen =>
              k \in 1..N /\ chosen'[k] = [entry |-> log[i][k], at |-> currentTerm[i]]
         /\ \A k \in 1..N : k \in DOMAIN chosen'
<1>1. PICK c \in Nat : c = Len(chosen) /\ DOMAIN chosen = 1..c
  BY ChosenTypes
<1>2. \E x \in Nat : x = (IF N > c THEN N - c ELSE 0)
  <2>1. CASE N > c
    <3>1. N - c \in Nat
      BY <2>1
    <3> QED BY <2>1, <3>1
  <2> QED BY <2>1
<1> PICK x \in Nat : x = (IF N > c THEN N - c ELSE 0)
  BY <1>2
<1>3. 1..(N - c) = 1..x
  BY <1>2
<1> DEFINE new == [k \in 1..x |-> [entry |-> log[i][c + k], at |-> currentTerm[i]]]
           R == [entry : Entry, at : Nat]
<1>4. chosen' = chosen \o new
  BY <1>1, <1>3 DEF Newly
<1>5. Len(new) = x
  OBVIOUS
<1>6. /\ Len(chosen') = c + x
      /\ DOMAIN chosen' = 1..(c + x)
      /\ \A k \in 1..c : chosen'[k] = chosen[k]
      /\ \A k \in 1..(c + x) : k > c => chosen'[k] = new[k - c]
  <2>1. chosen \in Seq(R)
    BY DEF TypeInv, TypeOK
  <2> QED BY <1>1, <1>4, <1>5, <2>1
<1>7. \A k \in 1..(c + x) : k > c => chosen'[k] = [entry |-> log[i][k], at |-> currentTerm[i]]
  <2> SUFFICES ASSUME NEW k \in 1..(c + x), k > c
               PROVE  chosen'[k] = [entry |-> log[i][k], at |-> currentTerm[i]]
    OBVIOUS
  <2>1. k - c \in 1..x /\ c + (k - c) = k
    OBVIOUS
  <2>2. new[k - c] = [entry |-> log[i][c + (k - c)], at |-> currentTerm[i]]
    BY <2>1
  <2> QED BY <1>6, <2>1, <2>2
<1> HIDE DEF new
<1>8. N <= c + x /\ (x > 0 => c + x = N)
  BY <1>2
<1>9. ChosenGrows
  BY <1>1, <1>6 DEF ChosenGrows
<1>10. \A k \in 1..(c + x) : k \notin 1..c => k > c /\ k \in 1..N
  BY <1>8
<1>11. \A k \in 1..N : k \in 1..(c + x)
  BY <1>8
<1> QED BY <1>1, <1>6, <1>7, <1>8, <1>9, <1>10, <1>11

\* maybeAdvanceCommitIndexLocked.
LEMMA CommitSafe ==
  ASSUME TypeInv, TypeInv', NEW L, NEW S, Safe(L, S), Quiet(L), Stores(L, S, S),
         NEW i \in Server, state[i] = "Leader", UNCHANGED <<currentTerm, state, log>>,
         UNCHANGED <<announced, appendRequests>>,
         NEW match, \A j \in Server \ {i} :
           match[j] \in Nat /\ match[j] <= S[currentTerm[i]][j],
         MaybeAdvanceCommitIndex(i, match)
  PROVE  CommitInv(L, S)'
<1>1. /\ LedgerInv(L) /\ StoredInv(L, S) /\ LeadersHoldChoosable(L, S)
      /\ CommitInv(L, S) /\ ChosenFromLeaders(L, S)
  BY DEF Safe, CampaignInv, CommitInv
<1>2. Advance(L, S, L, S)
  BY <1>1, QuietAdvance DEF Stores
<1>3. PICK T \in Nat : T = currentTerm[i]
  BY DEF TypeInv, TypeOK
<1>4. CommitsHeard
  <2>1. ASSUME NEW j \in Server
        PROVE  currentTerm[j] <= currentTerm'[j]
    <3>1. PICK x \in Nat : x = currentTerm[j]
      BY DEF TypeInv, TypeOK
    <3>2. x <= x
      OBVIOUS
    <3> QED BY <3>1, <3>2
  <2>2. ASSUME NEW r \in appendRequests
        PROVE  r.term <= r.term /\ r.commit <= r.commit
    <3>1. r.term \in Nat /\ r.commit \in Nat
      BY DEF TypeInv, TypeOK, AppendRequest
    <3> QED BY <3>1
  <2> QED BY <2>1, <2>2 DEF CommitsHeard, Heard
<1>5. CASE UNCHANGED <<machine, chosen>>
  <2>1. NothingHeard
    BY <1>5 DEF NothingHeard, machine
  <2>2. CommitsFollow
    BY <2>1, NothingHeardFollows DEF Quiet
  <2>3. ChosenGrows
    <3>1. Len(chosen) \in Nat
      BY ChosenTypes
    <3> QED BY <1>5, <3>1 DEF ChosenGrows
  <2> QED BY <1>1, <1>2, <2>2, <2>3, CommitStep DEF CommitsFollow
<1>6. ASSUME NEW N \in Committable(i, match),
             CommitAndApply(i, N, log[i]), chosen' = chosen \o Newly(i, N)
      PROVE  CommitInv(L, S)'
  <2>1. /\ N \in Nat \ {0} /\ N > commitIndex[i] /\ N <= Len(log[i])
        /\ N \in DOMAIN L[T] /\ log[i] = L[T]
        /\ Confirmed(L, S, T, N)
    BY <1>1, <1>3, CommittableConfirmed
  <2>2. /\ ChosenGrows
        /\ N <= Len(chosen')
        /\ \A k \in DOMAIN chosen' : k \notin DOMAIN chosen =>
             k \in 1..N /\ chosen'[k] = [entry |-> log[i][k], at |-> T]
        /\ \A k \in 1..N : k \in DOMAIN chosen'
    BY <1>3, <1>6, <2>1, NewlyChosen
  <2>3. /\ commitIndex'[i] = N
        /\ applied'[i] = applied[i] \o [k \in 1..(N - Len(applied[i])) |->
                                          log[i][Len(applied[i]) + k].cmd]
        /\ \A j \in Server \ {i} :
             commitIndex'[j] = commitIndex[j] /\ applied'[j] = applied[j]
    BY <1>6 DEF CommitAndApply, TypeInv, TypeOK
  <2>4. ASSUME NEW k \in 1..N
        PROVE  log[i][k] = chosen'[k].entry
    <3>1. CASE k \in DOMAIN chosen
      <4>1. PICK u \in Nat : u = chosen[k].at
        BY <1>1, <3>1, ChosenByLeader
      <4>2. PICK n \in DOMAIN L[u] : k \in 1..n /\ Confirmed(L, S, u, n)
        BY <1>1, <3>1, <4>1, ChosenByLeader
      <4>3. L[T][k] = L[u][k]
        BY <1>1, <2>1, <4>2, CommittedAgree
      <4>4. L[u][k] = chosen[k].entry
        BY <1>1, <3>1, <4>1, ChosenByLeader
      <4>5. chosen'[k] = chosen[k]
        BY <2>2, <3>1 DEF ChosenGrows
      <4> QED BY <2>1, <4>3, <4>4, <4>5
    <3>2. CASE k \notin DOMAIN chosen
      BY <2>2, <3>2
    <3> QED BY <3>1, <3>2
  <2>5. \A j \in Server : Executing(j)
    <3>1. Executes(i)
      BY <2>1, <2>3, <2>4 DEF Executes
    <3> QED BY <2>3, <3>1 DEF Executing
  <2>6. Known(L, S, commitIndex[i], currentTerm[i])'
    <3>1. T \in 0..T /\ N <= N
      BY <2>1
    <3>2. \E t \in 0..T : \E n \in DOMAIN L[t] : N <= n /\ Confirmed(L, S, t, n)
      BY <2>1, <3>1
    <3> QED BY <1>3, <2>2, <2>3, <3>2 DEF Known, Confirmed, Own, Stored, Majority
  <2>7. ASSUME NEW j \in Server, j # i
        PROVE  Heard(commitIndex'[j], currentTerm'[j])
    <3>1. PICK x \in Nat : x = currentTerm[j]
      BY DEF TypeInv, TypeOK
    <3>2. x <= x
      OBVIOUS
    <3> QED BY <2>3, <2>7, <3>1, <3>2 DEF Heard
  <2>8. ASSUME NEW k \in DOMAIN chosen', k \notin DOMAIN chosen
        PROVE  LET t == chosen'[k].at
               IN  /\ \E n \in DOMAIN L[t] : k <= n /\ Confirmed(L, S, t, n)
                   /\ L[t][k] = chosen'[k].entry
    <3>1. k \in 1..N /\ chosen'[k].entry = log[i][k] /\ chosen'[k].at = T
      BY <2>2, <2>8
    <3>2. k <= N
      BY <3>1
    <3> QED BY <2>1, <3>1, <3>2
  <2> QED BY <1>1, <1>2, <1>4, <2>2, <2>5, <2>6, <2>7, <2>8, CommitStep
<1> QED BY <1>5, <1>6 DEF MaybeAdvanceCommitIndex

\* replicateToPeer with a success: matchIndex is raised to what the peer reported.
LEMMA AdvancePeerSafe ==
  ASSUME TypeInv, TypeInv', ElectionInv, ElectionInv',
         NEW L, NEW S, Safe(L, S), Quiet(L), CandidatesKept, RequestsDescribeLog',
         NEW m \in appendReplies, AdvancePeer(m)
  PROVE  \E M, R : Safe(M, R)'
<1>1. PICK i \in Server, s \in Server, T \in Nat, a \in Nat, b \in Nat :
        /\ i = m.dst /\ s = m.src /\ T = currentTerm[i]
        /\ a = m.match /\ b = matchIndex[i][s]
  <2>1. m.dst \in Server /\ m.src \in Server /\ m.match \in Nat
    BY DEF TypeInv, TypeOK, AppendReply
  <2>2. currentTerm[m.dst] \in Nat /\ matchIndex[m.dst] \in [Server -> Nat]
    BY <2>1 DEF TypeInv, TypeOK
  <2> QED BY <2>1, <2>2
<1>2. PICK match : match = [matchIndex[i] EXCEPT ![s] = IF a > b THEN a ELSE b]
  OBVIOUS
<1>3. /\ state[i] = "Leader" /\ m.call = T /\ m.success
      /\ matchIndex' = [matchIndex EXCEPT ![i] = match]
      /\ MaybeAdvanceCommitIndex(i, match)
      /\ UNCHANGED <<currentTerm, state, log, announced, appendRequests>>
      /\ appendReplies' \subseteq appendReplies
  BY <1>1, <1>2 DEF AdvancePeer, Current, Take, persistent, role, goroutines
<1>4. StoredInv(L, S) /\ Stores(L, S, S)
  BY StoresSame DEF Safe
<1>5. \A j \in Server : match[j] \in Nat /\ match[j] <= S[T][j]
  <2>1. matchIndex[i] \in [Server -> Nat]
    BY DEF TypeInv, TypeOK
  <2>2. \A j \in Server : matchIndex[i][j] <= S[T][j]
    BY <1>1, <1>3, <1>4 DEF StoredInv, CountsStored
  <2>3. a <= S[T][s]
    BY <1>1, <1>3, <1>4 DEF StoredInv, CountsStored
  <2>4. (IF a > b THEN a ELSE b) \in {a, b}
    OBVIOUS
  <2> QED BY <1>1, <1>2, <2>1, <2>2, <2>3, <2>4
<1>6. CommitInv(L, S)'
  BY <1>1, <1>3, <1>4, <1>5, CommitSafe
<1>7. MatchesReported
  <2>1. matchIndex \in [Server -> [Server -> Nat]]
    BY DEF TypeInv, TypeOK
  <2>2. \A j \in Server \ {i} : matchIndex'[j] = matchIndex[j]
    BY <1>3, <2>1
  <2>3. \A j \in Server \ {s} : matchIndex'[i][j] = matchIndex[i][j]
    BY <1>2, <1>3, <2>1
  <2>4. matchIndex'[i][s] = a \/ matchIndex'[i][s] = matchIndex[i][s]
    BY <1>1, <1>2, <1>3, <2>1
  <2> QED BY <1>1, <1>3, <2>2, <2>3, <2>4 DEF MatchesReported
<1>8. RepliesTruthful(S)
  BY <1>3 DEF RepliesTruthful
<1>9. Safe(L, S)'
  BY <1>4, <1>6, <1>7, <1>8, QuietSafe
<1> QED BY <1>9

-------------------------------------------------------------------------------
(* A leader is elected, or extends its log.                                *)

\* A step that keeps terms, commit indexes and requests.
LEMMA SameTermsFollow ==
  ASSUME TypeInv, UNCHANGED <<currentTerm, machine, chosen, appendRequests>>,
         \A i \in Server : state'[i] = "Leader" =>
           \A c \in announced'[i] : state[i] = "Leader" /\ c \in announced[i]
  PROVE  CommitsFollow
<1>1. ASSUME NEW i \in Server
      PROVE  currentTerm[i] <= currentTerm'[i]
  <2>1. PICK x \in Nat : x = currentTerm[i]
    BY DEF TypeInv, TypeOK
  <2>2. x <= x
    OBVIOUS
  <2> QED BY <2>1, <2>2
<1>2. ASSUME NEW m \in appendRequests
      PROVE  m.term <= m.term /\ m.commit <= m.commit
  <2>1. m.term \in Nat /\ m.commit \in Nat
    BY DEF TypeInv, TypeOK, AppendRequest
  <2> QED BY <2>1
<1>3. CommitsHeard
  BY <1>1, <1>2 DEF CommitsHeard, Heard
<1>4. \A i \in Server : Executing(i) /\ Heard(commitIndex'[i], currentTerm'[i])
  BY <1>1 DEF Executing, Heard, machine
<1> QED BY <1>3, <1>4 DEF CommitsFollow

\* A step that changes what the leader of one term has, at the end: L[T] becomes i's log.
LEMMA LeaderSafe ==
  ASSUME TypeInv, TypeInv', ElectionInv, ElectionInv', ElectionSafety', RoleInv',
         NEW L, NEW S, Safe(L, S),
         NEW i \in Server, NEW g, LeaderHas(i, g), Begins(L[currentTerm[i]], g),
         CandidatesKept, RequestsDescribeLog', CommitsFollow,
         appendReplies' = appendReplies,
         \A j \in Server : state'[j] = "Leader" =>
           \/ state[j] = "Leader" /\ matchIndex'[j] = matchIndex[j]
           \/ j = i /\ \A s \in Server : matchIndex'[j][s] = 0,
         \A e \in elected' :
           \/ e \in elected
           \/ /\ e = [term |-> currentTerm[i], node |-> i]
              /\ state[i] = "Candidate"
              /\ ballots' = ballots
              /\ log[i] = g
  PROVE  \E M, R : Safe(M, R)'
<1>1. PICK T, M : T \in Nat /\ T = currentTerm[i] /\ M = [L EXCEPT ![T] = g]
  BY DEF TypeInv, TypeOK
<1>2. /\ LedgerInv(L) /\ StoredInv(L, S) /\ CampaignInv(L, S) /\ LeadersHoldChoosable(L, S)
      /\ CommitInv(L, S)
      /\ S \in [Nat -> [Server -> Nat]]
      /\ L \in [Nat -> Seq(Entry)]
  BY DEF Safe, CampaignInv, StoredInv, LedgerInv
<1>3. LedgerInv(M)' /\ \A t \in Nat : Begins(L[t], M[t])
  BY <1>1, <1>2, LedgerGrows
<1>4. /\ UNCHANGED currentTerm /\ log'[i] = g /\ state'[i] = "Leader"
      /\ \A j \in Server \ {i} : log'[j] = log[j] /\ state'[j] = state[j]
      /\ Begins(log[i], g)
  BY DEF LeaderHas
<1>5. PICK n \in Nat : n = Len(g) /\ g \in Seq(Entry) /\ M[T] = g
  <2>1. g \in Seq(Entry)
    BY <1>4 DEF TypeInv, TypeOK
  <2> QED BY <1>1, <1>2, <2>1
<1>6. S[T] \in [Server -> Nat] /\ S[T][i] \in Nat /\ S[T][i] <= n
  <2>1. S[T] \in [Server -> Nat] /\ S[T][i] \in Nat
    BY <1>1, <1>2
  <2>2. S[T][i] <= Len(L[T])
    BY <1>1, <1>2 DEF StoredInv
  <2>3. Len(L[T]) \in Nat /\ Len(L[T]) <= n
    <3>1. Begins(L[T], g) /\ L[T] \in Seq(Entry)
      BY <1>1, <1>2
    <3> QED BY <1>5, <3>1 DEF Begins, Agree
  <2> QED BY <2>1, <2>2, <2>3
<1>7. PICK R : R = [S EXCEPT ![T] = [S[T] EXCEPT ![i] = n]]
  OBVIOUS
<1>8. /\ R \in [Nat -> [Server -> Nat]]
      /\ \A t \in Nat : \A j \in Server : (t = T /\ j = i) \/ R[t][j] = S[t][j]
      /\ R[T][i] = n
  BY <1>1, <1>2, <1>6, <1>7
<1>9. Advance(L, S, M, R)
  <2>1. \A t \in Nat : M[t] \in Seq(Entry) /\ Begins(L[t], M[t])
    BY <1>3 DEF LedgerInv
  <2>2. ASSUME NEW j \in Server
        PROVE  currentTerm'[j] >= currentTerm[j]
    <3>1. PICK x \in Nat : x = currentTerm[j]
      BY DEF TypeInv, TypeOK
    <3>2. x >= x
      OBVIOUS
    <3> QED BY <1>4, <3>1, <3>2
  <2>3. ASSUME NEW t \in Nat, NEW j \in Server
        PROVE  /\ R[t][j] \in Nat
               /\ \/ R[t][j] = S[t][j]
                  \/ /\ R[t][j] > S[t][j]
                     /\ t = currentTerm'[j]
                     /\ Agree(log'[j], M[t], R[t][j])
    <3>1. R[t][j] \in Nat
      BY <1>8
    <3>2. CASE t = T /\ j = i /\ n # S[T][i]
      <4>1. n > S[T][i]
        BY <1>6, <3>2
      <4>2. Agree(g, g, n)
        BY <1>5 DEF Agree
      <4> QED BY <1>1, <1>4, <1>5, <1>8, <3>1, <3>2, <4>1, <4>2
    <3>3. CASE ~(t = T /\ j = i /\ n # S[T][i])
      BY <1>8, <3>1, <3>3
    <3> QED BY <3>2, <3>3
  <2>4. ASSUME NEW j \in Server
        PROVE  Begins(log[j], log'[j])
    <3>1. log[j] \in Seq(Entry)
      BY DEF TypeInv, TypeOK
    <3> QED BY <1>4, <3>1, BeginsItself
  <2> QED BY <2>1, <2>2, <2>3, <2>4 DEF Advance
<1>10. CountsStored(R)'
  <2>1. ASSUME NEW t \in Nat, NEW j \in Server, NEW x \in Nat, x <= S[t][j]
        PROVE  x <= R[t][j]
    <3>1. S[t][j] \in Nat
      BY <1>2
    <3> QED BY <1>9, <2>1, <3>1, StoredGrows
  <2>2. ASSUME NEW m \in appendReplies, m.success
        PROVE  m.match <= R[m.call][m.src]
    <3>1. m.match \in Nat /\ m.call \in Nat /\ m.src \in Server
      BY DEF TypeInv, TypeOK, AppendReply
    <3>2. m.match <= S[m.call][m.src]
      BY <1>2, <2>2 DEF StoredInv, CountsStored
    <3> QED BY <2>1, <3>1, <3>2
  <2>3. ASSUME NEW j \in Server, state'[j] = "Leader"
        PROVE  /\ R[currentTerm'[j]][j] = Len(log'[j])
               /\ \A s \in Server : matchIndex'[j][s] <= R[currentTerm'[j]][s]
    <3>1. PICK u \in Nat : u = currentTerm[j] /\ u = currentTerm'[j]
      BY <1>4 DEF TypeInv, TypeOK
    <3>2. R[u][j] = Len(log'[j])
      <4>1. CASE j = i
        BY <1>1, <1>4, <1>5, <1>8, <3>1, <4>1
      <4>2. CASE j # i
        <5>1. state[j] = "Leader" /\ log'[j] = log[j]
          BY <1>4, <2>3, <4>2
        <5>2. S[u][j] = Len(log[j])
          BY <1>2, <3>1, <5>1 DEF StoredInv, CountsStored
        <5> QED BY <1>8, <4>2, <5>1, <5>2
      <4> QED BY <4>1, <4>2
    <3>3. ASSUME NEW s \in Server
          PROVE  matchIndex'[j][s] <= R[u][s]
      <4>1. CASE state[j] = "Leader" /\ matchIndex'[j] = matchIndex[j]
        <5>1. matchIndex[j][s] \in Nat
          BY DEF TypeInv, TypeOK
        <5>2. matchIndex[j][s] <= S[u][s]
          BY <1>2, <3>1, <4>1 DEF StoredInv, CountsStored
        <5> QED BY <2>1, <4>1, <5>1, <5>2
      <4>2. CASE \A x \in Server : matchIndex'[j][x] = 0
        <5>1. R[u][s] \in Nat
          BY <1>8
        <5> QED BY <4>2, <5>1
      <4> QED BY <2>3, <4>1, <4>2
    <3> QED BY <3>1, <3>2, <3>3
  <2> QED BY <2>2, <2>3 DEF CountsStored
<1>11. StoredInv(M, R)'
  BY <1>2, <1>8, <1>9, <1>10, StoredStep
<1>12. LeadersHoldChoosable(M, R)'
  <2> SUFFICES ASSUME NEW e \in elected', NEW t \in 0..(e.term - 1), NEW k \in DOMAIN M[t],
                      Own(M, t, k), Choosable(R, t, k)'
               PROVE  Agree(M[e.term], M[t], k)
    BY DEF LeadersHoldChoosable
  <2>1. CASE e \in elected
    BY <1>2, <1>9, <2>1, OldLeadersStep
  <2>2. CASE /\ e = [term |-> currentTerm[i], node |-> i]
             /\ state[i] = "Candidate"
             /\ ballots' = ballots
             /\ log[i] = g
    <3>1. e.term = T
      BY <1>1, <2>2
    <3>2. t \in 0..(currentTerm[i] - 1) /\ M[currentTerm[i]] = log[i]
      BY <1>1, <1>5, <2>2, <3>1
    <3>3. [term |-> currentTerm[i], node |-> i] \in elected'
      BY <2>2
    <3>4. Agree(log[i], M[t], k)
      BY <1>2, <1>4, <1>9, <2>2, <3>2, <3>3, ElectedHolds
    <3> QED BY <1>1, <3>1, <3>2, <3>4
  <2> QED BY <2>1, <2>2
<1>13. CampaignInv(M, R)'
  <2>1. CandidatesHoldChoosable(M, R)'
    BY <1>2, <1>9, CandidatesStep
  <2> QED BY <1>12, <2>1 DEF CampaignInv
<1>14. CommitInv(M, R)'
  <2>1. ChosenGrows
    <3>1. Len(chosen) \in Nat
      BY ChosenTypes
    <3> QED BY <3>1 DEF CommitsFollow, ChosenGrows
  <2> QED BY <1>2, <1>9, <2>1, CommitStep DEF CommitsFollow
<1>15. Safe(M, R)'
  BY <1>3, <1>11, <1>13, <1>14 DEF Safe
<1> QED BY <1>15

\* becomeLeaderLocked: the elected candidate holds all that is choosable.
LEMMA CountVoteSafe ==
  ASSUME TypeInv, TypeInv', ElectionInv, ElectionInv', ElectionSafety', RoleInv,
         NEW L, NEW S, Safe(L, S), NEW m \in voteReplies, CountVote(m)
  PROVE  \E M, R : Safe(M, R)'
<1>1. /\ UNCHANGED <<currentTerm, ballots, voteRequests, log, machine, chosen,
                     appendRequests, appendReplies>>
      /\ RequestsDescribeLog
  BY DEF CountVote, persistent, appendRPC, Safe, CampaignInv
<1>2. PICK d \in Server : d = m.dst
  BY DEF TypeInv, TypeOK, VoteReply
<1>3. CASE votes[d] + 1 >= Majority
  <2>1. /\ RoleInv' /\ LeaderHas(d, log[d])
        /\ elected' = elected \cup {[term |-> currentTerm[d], node |-> d]}
        /\ \A e \in elected : e.term # currentTerm[d]
    BY <1>2, <1>3, CountVoteElects
  <2>2. /\ state[d] = "Candidate"
        /\ matchIndex' = [matchIndex EXCEPT ![d] = [j \in Server |-> 0]]
        /\ announced' = [announced EXCEPT ![d] = {}]
        /\ state' = [state EXCEPT ![d] = "Leader"]
    BY <1>2, <1>3 DEF CountVote, Counts, BecomeLeader
  <2>3. /\ state'[d] = "Leader"
        /\ \A j \in Server \ {d} : state'[j] = state[j]
        /\ \A j \in Server \ {d} : matchIndex'[j] = matchIndex[j] /\ announced'[j] = announced[j]
        /\ \A s \in Server : matchIndex'[d][s] = 0
        /\ announced'[d] = {}
    BY <2>2 DEF TypeInv, TypeOK
  <2>4. CandidatesKept /\ RequestsDescribeLog'
    <3>1. \A j \in Server : state'[j] = "Candidate" => state[j] = "Candidate" /\ log'[j] = log[j]
      BY <1>1, <2>3
    <3> QED BY <1>1, <3>1, SameCampaign
  <2>5. CommitsFollow
    BY <1>1, <2>3, SameTermsFollow
  <2>6. Begins(L[currentTerm[d]], log[d])
    <3>1. currentTerm[d] \in Nat /\ log[d] \in Seq(Entry)
      BY DEF TypeInv, TypeOK
    <3>2. L[currentTerm[d]] = <<>>
      BY <2>1, <3>1 DEF Safe, LedgerInv
    <3> QED BY <3>1, <3>2 DEF Begins, Agree
  <2> QED BY <1>1, <2>1, <2>2, <2>3, <2>4, <2>5, <2>6, LeaderSafe
<1>4. CASE ~(votes[d] + 1 >= Majority)
  <2>1. UNCHANGED <<state, currentLeader, elected, matchIndex, announced>>
    BY <1>2, <1>4 DEF CountVote, role, leaderVars
  <2>2. Quiet(L)
    BY <1>1, <2>1, SameQuiet
  <2>3. CandidatesKept /\ RequestsDescribeLog'
    BY <1>1, <2>1, SameCampaign
  <2>4. NothingStored /\ NothingHeard
    BY <1>1, <2>1, VolatileKept
  <2> QED BY <2>2, <2>3, <2>4, CalmSafe
<1> QED BY <1>3, <1>4

\* Propose: the leader appends an entry of its term.
LEMMA ProposeSafe ==
  ASSUME TypeInv, TypeInv', ElectionInv, ElectionInv', ElectionSafety', RoleInv,
         NEW L, NEW S, Safe(L, S), NEW i \in Server, NEW cmd \in Command, Propose(i, cmd)
  PROVE  \E M, R : Safe(M, R)'
<1>1. /\ RoleInv' /\ LeaderHas(i, log'[i]) /\ state[i] = "Leader" /\ elected' = elected
      /\ Begins(log[i], log'[i])
  BY ProposeLeads DEF LeaderHas
<1>2. /\ UNCHANGED <<currentTerm, ballots, voteRequests, machine, chosen, state, matchIndex,
                     announced, appendRequests, appendReplies>>
      /\ RequestsDescribeLog
  BY DEF Propose, role, history, leaderVars, goroutines, voteRPC, appendRPC, Safe, CampaignInv
<1>3. CandidatesKept /\ RequestsDescribeLog'
  <2>1. \A j \in Server : state'[j] = "Candidate" => state[j] = "Candidate" /\ log'[j] = log[j]
    BY <1>1, <1>2 DEF LeaderHas
  <2> QED BY <1>2, <2>1, SameCampaign
<1>4. CommitsFollow
  BY <1>2, SameTermsFollow
<1>5. Begins(L[currentTerm[i]], log'[i])
  BY <1>1 DEF Safe, LedgerInv, LogsFromLeaders
<1> QED BY <1>1, <1>2, <1>3, <1>4, <1>5, LeaderSafe

-------------------------------------------------------------------------------
(* The specification.                                                      *)

\* At the start nobody leads and nothing is stored.
LEMMA SafetyInit == Init => SafetyInv
<1> SUFFICES ASSUME Init
             PROVE  SafetyInv
  OBVIOUS
<1>1. TypeInv /\ ElectionInv /\ MatchingInv
  BY TypeInit, ElectionInit, MatchingInit
<1>2. PICK L : L = [t \in Nat |-> <<>>]
  OBVIOUS
<1>3. PICK S : S = [t \in Nat |-> [j \in Server |-> 0]]
  OBVIOUS
<1>4. \A t \in Nat : L[t] = <<>> /\ DOMAIN L[t] = {} /\ Len(L[t]) = 0
  BY <1>2
<1>5. \A t \in Nat : \A j \in Server : S[t][j] = 0
  BY <1>3
<1>6. \A i \in Server : log[i] = <<>> /\ currentTerm[i] = 0 /\ state[i] = "Follower"
  BY DEF Init
<1>7. LedgerInv(L)
  <2>1. L \in [Nat -> Seq(Entry)]
    BY <1>2
  <2>2. EntriesFromLeaders(L)
    BY <1>4 DEF EntriesFromLeaders
  <2>3. LogsFromLeaders(L)
    <3>1. \A i \in Server : Begins(log[i], L[0])
      BY <1>4, <1>6 DEF Begins, Agree
    <3> QED BY <1>6, <3>1 DEF LogsFromLeaders
  <2> QED BY <1>4, <2>1, <2>2, <2>3 DEF LedgerInv, Init
<1>8. StoredInv(L, S)
  <2>1. S \in [Nat -> [Server -> Nat]]
    BY <1>3
  <2>2. \A t \in Nat : \A j \in Server : S[t][j] <= Len(L[t]) /\ ~(S[t][j] > 0)
    BY <1>4, <1>5
  <2>3. StoredIsKept(L, S)
    <3>1. \A t \in Nat : \A j \in Server : 1..S[t][j] = {}
      BY <1>5
    <3> QED BY <3>1 DEF StoredIsKept
  <2>4. CountsStored(S)
    BY <1>6 DEF CountsStored, Init
  <2> QED BY <2>1, <2>2, <2>3, <2>4 DEF StoredInv
<1>9. CampaignInv(L, S)
  BY <1>6 DEF CampaignInv, LeadersHoldChoosable, CandidatesHoldChoosable,
              RequestsDescribeLog, Init
<1>10. CommitInv(L, S)
  <2>1. chosen = <<>> /\ DOMAIN chosen = {} /\ Len(chosen) = 0
    BY DEF Init
  <2>2. \A i \in Server : commitIndex[i] = 0 /\ applied[i] = <<>>
    BY DEF Init
  <2>3. ChosenFromLeaders(L, S)
    BY <2>1 DEF ChosenFromLeaders
  <2>4. CommitIndexesKnown(L, S)
    BY <1>6, <2>1, <2>2 DEF CommitIndexesKnown, Known, Init
  <2>5. ExecutedIsChosen
    BY <1>6, <2>2 DEF ExecutedIsChosen
  <2> QED BY <2>3, <2>4, <2>5 DEF CommitInv
<1> QED BY <1>1, <1>7, <1>8, <1>9, <1>10 DEF SafetyInv, MatchingInv, Safe

\* One case per action of Next.
LEMMA SafeStep ==
  ASSUME TypeInv, TypeInv', ElectionInv, ElectionInv', ElectionSafety', RoleInv,
         NEW L, NEW S, Safe(L, S), [Next]_vars
  PROVE  \E M, R : Safe(M, R)'
<1>1. TypeOK /\ VoteRequestInv /\ RequestsDescribeLog /\ LedgerInv(L)
  BY DEF TypeInv, ElectionInv, Safe, CampaignInv
<1>2. ASSUME Quiet(L), NoNewVote, NothingStored, NothingHeard
      PROVE  \E M, R : Safe(M, R)'
  <2>1. CandidatesKept /\ RequestsDescribeLog'
    BY <1>1, <1>2, QuietCampaign
  <2> QED BY <1>2, <2>1, CalmSafe
<1>3. ASSUME NEW i \in Server, NodeStep(i)
      PROVE  \E M, R : Safe(M, R)'
  <2>1. CASE StartElection(i)
    <3>1. Quiet(L)
      BY <2>1, StartElectionQuiet
    <3>2. CandidatesKept /\ RequestsDescribeLog'
      BY <1>1, <2>1, StartElectionCampaign
    <3>3. NothingStored /\ NothingHeard
      <4>1. /\ UNCHANGED <<matchIndex, machine, announced, chosen>>
            /\ appendRequests' = appendRequests /\ appendReplies' = appendReplies
        BY <2>1 DEF StartElection, leaderVars, appendRPC
      <4> QED BY <4>1, VolatileKept
    <3> QED BY <3>1, <3>2, <3>3, CalmSafe
  <2>2. CASE Broadcast(i)
    <3>1. /\ UNCHANGED <<currentTerm, votedFor, state, votes, voteRequests, voteReplies,
                         ballots, elected, currentLeader, log>>
          /\ appendRequests' \subseteq appendRequests
      BY <2>2 DEF Broadcast, persistent, role, voteRPC, appendRPC, history
    <3>2. Quiet(L) /\ NoNewVote
      BY <1>1, <3>1, SameQuiet, QuietStep
    <3> QED BY <1>2, <2>2, <3>2, BroadcastCalm
  <2>3. ASSUME NEW cmd \in Command, Propose(i, cmd)
        PROVE  \E M, R : Safe(M, R)'
    BY <2>3, ProposeSafe
  <2>4. ASSUME NEW j \in Server, NEW commit, ReplicateToPeer(i, j, commit)
        PROVE  \E M, R : Safe(M, R)'
    <3>1. UNCHANGED <<currentTerm, votedFor, state, votes, voteRequests, voteReplies,
                      ballots, elected>>
      BY <2>4 DEF ReplicateToPeer, persistent, role, goroutines, voteRPC, history
    <3>2. Quiet(L) /\ NoNewVote
      BY <1>1, <2>4, <3>1, ReplicateToPeerQuiet, QuietStep
    <3>3. NothingStored /\ NothingHeard
      BY <2>4, ReplicateToPeerCalm
    <3> QED BY <1>2, <3>2, <3>3
  <2>5. CASE Crash(i)
    <3>1. Quiet(L) /\ NoNewVote
      BY <1>1, <2>5, CrashQuiet, CrashStep
    <3>2. NothingStored /\ NothingHeard
      BY <2>5, RebootCalm DEF Crash
    <3> QED BY <1>2, <3>1, <3>2
  <2> QED BY <1>3, <2>1, <2>2, <2>3, <2>4, <2>5 DEF NodeStep
<1>4. ASSUME NEW m \in voteRequests, HandleRequestVote(m) \/ CrashBeforeVote(m)
      PROVE  \E M, R : Safe(M, R)'
  <2>1. CASE RejectStaleCandidate(m) \/ DenyVote(m)
    <3>1. Quiet(L) /\ NoNewVote /\ NothingStored /\ NothingHeard
      BY <1>1, <2>1, HandleRequestVoteQuiet, HandleRequestVoteStep, HandleRequestVoteCalm
         DEF HandleRequestVote
    <3> QED BY <1>2, <3>1
  <2>2. CASE GrantVote(m)
    <3>1. Quiet(L) /\ NothingStored /\ NothingHeard
      BY <2>2, HandleRequestVoteQuiet, HandleRequestVoteCalm DEF HandleRequestVote
    <3>2. CandidatesKept /\ RequestsDescribeLog'
      BY <1>1, <2>2, GrantVoteCampaign
    <3> QED BY <3>1, <3>2, CalmSafe
  <2>3. CASE CrashBeforeVote(m)
    <3>1. Quiet(L) /\ NoNewVote
      BY <1>1, <2>3, CrashBeforeVoteQuiet, CrashBeforeVoteStep
    <3>2. NothingStored /\ NothingHeard
      <4>1. m.dst \in Server
        BY DEF TypeInv, TypeOK, VoteRequest
      <4> QED BY <2>3, <4>1, RebootCalm DEF CrashBeforeVote
    <3> QED BY <1>2, <3>1, <3>2
  <2> QED BY <1>4, <2>1, <2>2, <2>3 DEF HandleRequestVote
<1>5. ASSUME NEW m \in voteReplies, HandleVoteReply(m)
      PROVE  \E M, R : Safe(M, R)'
  <2>1. CASE CountVote(m)
    BY <2>1, CountVoteSafe
  <2>2. CASE StepDownOnVoteReply(m) \/ IgnoreVoteReply(m)
    <3>1. Quiet(L) /\ NoNewVote /\ NothingStored /\ NothingHeard
      BY <1>1, <2>2, HandleVoteReplyQuiet, HandleVoteReplyStep, HandleVoteReplyCalm
    <3> QED BY <1>2, <3>1
  <2> QED BY <1>5, <2>1, <2>2 DEF HandleVoteReply
<1>6. ASSUME NEW m \in appendRequests,
             HandleAppendEntries(m) \/ CrashWhileAppending(m) \/ LoseAppendRequest(m)
      PROVE  \E M, R : Safe(M, R)'
  <2>1. CASE AcceptEntries(m)
    <3>1. Quiet(L) /\ NoNewVote
      BY <1>1, <2>1, HandleAppendEntriesQuiet, HandleAppendEntriesStep DEF HandleAppendEntries
    <3>2. CandidatesKept /\ RequestsDescribeLog'
      BY <1>1, <3>1, QuietCampaign
    <3> QED BY <2>1, <3>1, <3>2, AcceptEntriesSafe
  <2>2. CASE RejectStaleLeader(m) \/ RejectMismatch(m) \/ LoseAppendRequest(m)
    <3>1. Quiet(L) /\ NoNewVote
      BY <1>1, <2>2, HandleAppendEntriesQuiet, HandleAppendEntriesStep DEF HandleAppendEntries
    <3> QED BY <1>2, <2>2, <3>1, RefuseAppendCalm
  <2>3. CASE CrashWhileAppending(m)
    <3>1. Quiet(L) /\ NoNewVote
      BY <1>1, <2>3, CrashWhileAppendingQuiet, CrashWhileAppendingStep
    <3>2. NothingStored /\ NothingHeard
      <4>1. m.dst \in Server
        BY DEF TypeInv, TypeOK, AppendRequest
      <4> QED BY <2>3, <4>1, RebootCalm DEF CrashWhileAppending
    <3> QED BY <1>2, <3>1, <3>2
  <2> QED BY <1>6, <2>1, <2>2, <2>3 DEF HandleAppendEntries
<1>7. ASSUME NEW m \in appendReplies, HandleAppendReply(m) \/ LoseAppendReply(m)
      PROVE  \E M, R : Safe(M, R)'
  <2>1. Quiet(L) /\ NoNewVote
    BY <1>1, <1>7, HandleAppendReplyQuiet, HandleAppendReplyStep
  <2>2. CASE AdvancePeer(m)
    <3>1. CandidatesKept /\ RequestsDescribeLog'
      BY <1>1, <2>1, QuietCampaign
    <3> QED BY <2>1, <2>2, <3>1, AdvancePeerSafe
  <2>3. CASE ~AdvancePeer(m)
    <3>1. NothingStored /\ NothingHeard
      BY <1>7, <2>3, IgnoreAppendReplyCalm DEF HandleAppendReply
    <3> QED BY <1>2, <2>1, <3>1
  <2> QED BY <2>2, <2>3
<1>8. CASE UNCHANGED vars
  <2>1. /\ UNCHANGED <<currentTerm, votedFor, state, votes, voteRequests, voteReplies,
                       ballots, elected, currentLeader, log, matchIndex, machine, announced,
                       chosen>>
        /\ appendRequests' = appendRequests /\ appendReplies' = appendReplies
    BY <1>8 DEF vars, persistent, role, machine, leaderVars, goroutines, voteRPC, appendRPC,
                history
  <2>2. Quiet(L) /\ NoNewVote
    BY <1>1, <2>1, SameQuiet, QuietStep
  <2>3. NothingStored /\ NothingHeard
    BY <2>1, VolatileKept
  <2> QED BY <1>2, <2>2, <2>3
<1> QED BY <1>3, <1>4, <1>5, <1>6, <1>7, <1>8 DEF Next

\* All steps of the specification.
LEMMA SafetyStep == SafetyInv /\ [Next]_vars => SafetyInv'
<1> SUFFICES ASSUME SafetyInv, [Next]_vars
             PROVE  SafetyInv'
  OBVIOUS
<1>1. PICK L, S : Safe(L, S)
  BY DEF SafetyInv
<1>2. TypeInv /\ ElectionInv /\ RoleInv /\ TypeOK
  BY DEF SafetyInv, TypeInv
<1>3. TypeInv' /\ TypeOK'
  <2>1. TypeInv'
    BY <1>2, TypeStep
  <2> QED BY <2>1 DEF TypeInv
<1>4. ElectionInv'
  BY <1>2, <1>3, ElectionStep
<1>5. ElectionSafety /\ ElectionSafety'
  <2>1. ElectionSafety
    BY <1>2, ElectionInvImplies
  <2>2. ElectionSafety'
    BY <1>3, <1>4, ElectionInvImplies, PTL
  <2> QED BY <2>1, <2>2
<1>6. RoleInv'
  <2>1. MatchingInv
    BY <1>1, <1>2 DEF MatchingInv, Safe
  <2>2. MatchingInv'
    BY <1>2, <1>3, <1>5, <2>1, MatchingStep
  <2> QED BY <2>2 DEF MatchingInv
<1>7. \E M, R : Safe(M, R)'
  BY <1>1, <1>2, <1>3, <1>4, <1>5, SafeStep
<1> QED BY <1>3, <1>4, <1>6, <1>7 DEF SafetyInv

\* The properties of RaftSafety follow from the invariant, state by state.
LEMMA SafetyImplies ==
  ASSUME SafetyInv
  PROVE  /\ MatchIndexTruthful
         /\ ChosenOnMajority
         /\ LeaderCompleteness
         /\ ElectableHoldsChosen
         /\ AppliedMatchesLog
<1>1. TypeInv /\ RoleInv
  BY DEF SafetyInv
<1>2. PICK L, S : Safe(L, S)
  BY DEF SafetyInv
<1>3. /\ LedgerInv(L) /\ StoredInv(L, S) /\ LeadersHoldChoosable(L, S)
      /\ ChosenFromLeaders(L, S) /\ ExecutedIsChosen
  BY <1>2 DEF Safe, CampaignInv, CommitInv
<1> QED BY <1>1, <1>3, TruthfulFromStored, OnMajorityFromStored, CompletenessFromLedger,
           ElectableFromStored, AppliedFromExecuted

\* The invariant holds in every reachable state.
LEMMA SafetyHolds == Spec => []SafetyInv
<1>1. Init => SafetyInv
  BY SafetyInit
<1>2. SafetyInv /\ [Next]_vars => SafetyInv'
  BY SafetyStep
<1> QED BY <1>1, <1>2, PTL DEF Spec

\* The leader never counts more for a peer of its term than that peer has stored and
\* shares with it, however late, repeated or reordered the replies (replicateToPeer).
THEOREM MatchIndexSafe == Spec => []MatchIndexTruthful
BY SafetyHolds, SafetyImplies, PTL

\* What maybeAdvanceCommitIndexLocked commits is on a majority, and stays there through
\* conflicts, crashes and interrupted writes.
THEOREM ChosenStays == Spec => []ChosenOnMajority
BY SafetyHolds, SafetyImplies, PTL

\* Whoever becomeLeaderLocked makes a leader has every entry committed in earlier terms.
THEOREM LeadersComplete == Spec => []LeaderCompleteness
BY SafetyHolds, SafetyImplies, PTL

\* The election restriction of HandleRequestVote lets no majority elect a node that
\* misses a committed entry.
THEOREM ElectionsKeepChosen == Spec => []ElectableHoldsChosen
BY SafetyHolds, SafetyImplies, PTL

\* The store of every node has executed its log up to the commit index: nothing that was
\* applied is ever truncated.
THEOREM StoresFollowLogs == Spec => []AppliedMatchesLog
BY SafetyHolds, SafetyImplies, PTL

-------------------------------------------------------------------------------
(* Refinement of ReplicatedLog.                                            *)

\* The commands that are decided: log of ReplicatedLog.
Decided == [k \in DOMAIN chosen |-> chosen[k].entry.cmd]

\* The commands of the first n chosen entries.
Commands(l, n) == [k \in 1..n |-> l[k].entry.cmd]

\* The first a chosen commands begin the first n.
LEMMA PrefixOfDecided ==
  ASSUME NEW l, NEW a \in Nat, NEW n \in Nat, a <= n
  PROVE  /\ Abstract!IsPrefix(Commands(l, a), Commands(l, n))
         /\ a < n => Abstract!IsStrictPrefix(Commands(l, a), Commands(l, n))
<1> DEFINE s == Commands(l, a)
           t == Commands(l, n)
<1>1. Len(s) = a /\ Len(t) = n
  BY DEF Commands
<1>2. SubSeq(s, 1, a) = [k \in 1..a |-> l[k].entry.cmd]
  BY DEF Commands
<1>3. SubSeq(t, 1, a) = [k \in 1..a |-> l[k].entry.cmd]
  BY DEF Commands
<1>4. Abstract!IsPrefix(s, t)
  BY <1>1, <1>2, <1>3 DEF Abstract!IsPrefix
<1>5. a < n => s # t
  BY <1>1
<1> QED BY <1>4, <1>5 DEF Abstract!IsStrictPrefix

\* Every store has executed the beginning of what was decided, up to its commit index.
Executed ==
  /\ Len(chosen) \in Nat
  /\ Decided = Commands(chosen, Len(chosen))
  /\ \A i \in Server :
       /\ commitIndex[i] \in Nat
       /\ commitIndex[i] <= Len(chosen)
       /\ applied[i] = Commands(chosen, commitIndex[i])

\* Executed follows from the invariant.
LEMMA StoresExecuted ==
  ASSUME SafetyInv
  PROVE  Executed
<1>1. Len(chosen) \in Nat /\ DOMAIN chosen = 1..Len(chosen)
  BY ChosenTypes DEF SafetyInv
<1>2. PICK L, S : Safe(L, S)
  BY DEF SafetyInv
<1>3. ASSUME NEW i \in Server
      PROVE  /\ commitIndex[i] \in Nat
             /\ commitIndex[i] <= Len(chosen)
             /\ applied[i] = Commands(chosen, commitIndex[i])
  <2>1. commitIndex[i] \in Nat
    BY DEF SafetyInv, TypeInv, TypeOK
  <2>2. commitIndex[i] <= Len(chosen)
    BY <1>2 DEF Safe, CommitInv, CommitIndexesKnown, Known
  <2>3. applied[i] = Commands(chosen, commitIndex[i])
    BY <1>2 DEF Safe, CommitInv, ExecutedIsChosen, Commands
  <2> QED BY <2>1, <2>2, <2>3
<1> QED BY <1>1, <1>3 DEF Decided, Commands, Executed

\* What a step does to the decided sequence and the stores.
AbstractStep ==
  \/ UNCHANGED <<chosen, applied>>
  \/ /\ chosen' = chosen
     /\ \E i \in Server : applied' = [applied EXCEPT ![i] = <<>>]
  \/ \E i \in Server :
       /\ commitIndex'[i] > commitIndex[i]
       /\ \A j \in Server \ {i} : applied'[j] = applied[j]
       /\ \/ chosen' = chosen
          \/ /\ \A k \in DOMAIN chosen : chosen'[k] = chosen[k]
             /\ Len(chosen') > Len(chosen)
             /\ commitIndex'[i] = Len(chosen')

\* A step of that kind is a step of ReplicatedLog or none.
LEMMA AbstractStepImplements ==
  ASSUME SafetyInv, SafetyInv', AbstractStep
  PROVE  [Abstract!Next]_<<Decided, applied>>
<1>1. Executed /\ Executed'
  BY StoresExecuted, PTL
<1>2. PICK n \in Nat, nn \in Nat : n = Len(chosen) /\ nn = Len(chosen')
  BY <1>1 DEF Executed
<1>3. /\ Decided = Commands(chosen, n)
      /\ \A i \in Server : /\ commitIndex[i] \in 0..n
                           /\ applied[i] = Commands(chosen, commitIndex[i])
      /\ Decided' = Commands(chosen', nn)
      /\ \A i \in Server : /\ commitIndex'[i] \in 0..nn
                           /\ applied'[i] = Commands(chosen', commitIndex'[i])
  BY <1>1, <1>2 DEF Executed
<1>4. applied \in [Server -> Seq(Command)] /\ applied' \in [Server -> Seq(Command)]
  BY DEF SafetyInv, TypeInv, TypeOK
<1>5. CASE UNCHANGED <<chosen, applied>>
  BY <1>5 DEF Decided
<1>6. ASSUME chosen' = chosen,
             NEW i \in Server, applied' = [applied EXCEPT ![i] = <<>>]
      PROVE  Abstract!Next
  <2>1. Decided' = Decided
    BY <1>6 DEF Decided
  <2>2. Abstract!Restart(i)
    BY <1>6, <2>1 DEF Abstract!Restart, Decided
  <2> QED BY <2>2 DEF Abstract!Next
<1>7. ASSUME NEW i \in Server, commitIndex'[i] > commitIndex[i],
             \A j \in Server \ {i} : applied'[j] = applied[j], chosen' = chosen
      PROVE  Abstract!Next
  <2>1. Decided' = Decided /\ nn = n
    BY <1>2, <1>7 DEF Decided
  <2>2. applied' = [applied EXCEPT ![i] = applied'[i]]
    BY <1>4, <1>7
  <2>3. PICK c \in Nat, d \in Nat : c = commitIndex[i] /\ d = commitIndex'[i] /\ c < d /\ d <= n
    BY <1>3, <1>7, <2>1
  <2>4. applied[i] = Commands(chosen, c) /\ applied'[i] = Commands(chosen, d)
    BY <1>3, <1>7, <2>3
  <2>5. Abstract!IsStrictPrefix(applied[i], applied'[i])
    BY <2>3, <2>4, PrefixOfDecided
  <2>6. Abstract!IsPrefix(applied'[i], Decided)
    BY <1>3, <2>3, <2>4, PrefixOfDecided
  <2>7. Abstract!CatchUp(i)
    BY <2>1, <2>2, <2>5, <2>6 DEF Abstract!CatchUp, Decided
  <2> QED BY <2>7 DEF Abstract!Next
<1>8. ASSUME NEW i \in Server, \A j \in Server \ {i} : applied'[j] = applied[j],
             \A k \in DOMAIN chosen : chosen'[k] = chosen[k],
             nn > n, commitIndex'[i] = nn
      PROVE  Abstract!Next
  <2>1. Commands(chosen, n) = Commands(chosen', n)
    <3>1. DOMAIN chosen = 1..n
      BY <1>2, ChosenTypes DEF SafetyInv
    <3> QED BY <1>8, <3>1 DEF Commands
  <2>2. applied'[i] = Decided'
    BY <1>3, <1>8
  <2>3. applied' = [applied EXCEPT ![i] = Decided']
    BY <1>4, <1>8, <2>2
  <2>4. Abstract!IsStrictPrefix(Decided, Decided')
    <3>1. Abstract!IsStrictPrefix(Commands(chosen', n), Commands(chosen', nn))
      BY <1>8, PrefixOfDecided
    <3> QED BY <1>3, <2>1, <3>1
  <2>5. Abstract!IsPrefix(applied[i], Decided)
    <3>1. commitIndex[i] \in Nat /\ commitIndex[i] <= n
      BY <1>3
    <3>2. Abstract!IsPrefix(Commands(chosen, commitIndex[i]), Commands(chosen, n))
      BY <3>1, PrefixOfDecided
    <3> QED BY <1>3, <3>2
  <2>6. Abstract!Decide(i)
    BY <2>3, <2>4, <2>5 DEF Abstract!Decide, Decided
  <2> QED BY <2>6 DEF Abstract!Next
<1>9. CASE \E i \in Server :
             /\ commitIndex'[i] > commitIndex[i]
             /\ \A j \in Server \ {i} : applied'[j] = applied[j]
             /\ \/ chosen' = chosen
                \/ /\ \A k \in DOMAIN chosen : chosen'[k] = chosen[k]
                   /\ Len(chosen') > Len(chosen)
                   /\ commitIndex'[i] = Len(chosen')
  BY <1>2, <1>7, <1>8, <1>9
<1> QED BY <1>5, <1>6, <1>9 DEF AbstractStep

\* A commit decides the new commands and executes them in the store of the leader.
LEMMA CommitImplements ==
  ASSUME SafetyInv, SafetyInv', NEW i \in Server, NEW match, MaybeAdvanceCommitIndex(i, match)
  PROVE  AbstractStep
<1>1. CASE UNCHANGED <<machine, chosen>>
  BY <1>1 DEF machine, AbstractStep
<1>2. ASSUME NEW N \in Committable(i, match),
             CommitAndApply(i, N, log[i]), chosen' = chosen \o Newly(i, N)
      PROVE  AbstractStep
  <2>1. N \in Nat /\ N > commitIndex[i]
    <3>1. commitIndex[i] \in Nat /\ Len(log[i]) \in Nat
      BY DEF SafetyInv, TypeInv, TypeOK
    <3> QED BY <3>1 DEF Committable
  <2>2. /\ commitIndex'[i] = N
        /\ \A j \in Server \ {i} : applied'[j] = applied[j]
    BY <1>2 DEF CommitAndApply, SafetyInv, TypeInv, TypeOK
  <2>3. PICK n \in Nat : n = Len(chosen)
    BY StoresExecuted DEF Executed
  <2>4. CASE N <= n
    <3>1. Newly(i, N) = <<>>
      <4>1. 1..(N - n) = {}
        BY <2>1, <2>4
      <4> QED BY <2>3, <4>1 DEF Newly
    <3>2. chosen \in Seq([entry : Entry, at : Nat])
      BY DEF SafetyInv, TypeInv, TypeOK
    <3>3. chosen' = chosen
      BY <1>2, <3>1, <3>2
    <3> QED BY <2>1, <2>2, <3>3 DEF AbstractStep
  <2>5. CASE N > n
    <3>1. TypeInv
      BY DEF SafetyInv
    <3>2. /\ \A k \in DOMAIN chosen : chosen'[k] = chosen[k]
          /\ N <= Len(chosen')
          /\ \A k \in DOMAIN chosen' : k \notin DOMAIN chosen => k \in 1..N
      BY <1>2, <2>1, <3>1, NewlyChosen DEF ChosenGrows
    <3>3. Len(chosen') = N
      <4>1. PICK nn \in Nat : nn = Len(chosen') /\ DOMAIN chosen' = 1..nn
        BY DEF SafetyInv, TypeInv, TypeOK
      <4>2. DOMAIN chosen = 1..n
        BY <2>3, <3>1, ChosenTypes
      <4>3. nn \in 1..nn /\ nn \notin 1..n
        BY <2>1, <2>5, <3>2, <4>1
      <4>4. nn \in 1..N
        BY <3>2, <4>1, <4>2, <4>3
      <4> QED BY <2>1, <3>2, <4>1, <4>4
    <3> QED BY <2>1, <2>2, <2>3, <2>5, <3>2, <3>3 DEF AbstractStep
  <2> QED BY <2>1, <2>3, <2>4, <2>5
<1> QED BY <1>1, <1>2 DEF MaybeAdvanceCommitIndex

\* A restart empties one store.
LEMMA RebootImplements ==
  ASSUME NEW i \in Server, NEW pending, Reboot(i, pending), chosen' = chosen
  PROVE  AbstractStep
BY DEF Reboot, AbstractStep

\* A follower executes up to its new commit index.
LEMMA AcceptImplements ==
  ASSUME SafetyInv, NEW m \in appendRequests, AcceptEntries(m)
  PROVE  AbstractStep
<1>1. PICK d, n, q :
        /\ d \in Server /\ n \in Nat
        /\ d = m.dst
        /\ n = Smaller(m.commit, m.prevIndex + Len(m.entries))
        /\ q = IntegrateEntries(log[d], m.entries)
  <2>1. /\ m.dst \in Server /\ m.commit \in Nat
        /\ m.prevIndex \in Nat /\ Len(m.entries) \in Nat
    <3>1. /\ m.dst \in Server /\ m.commit \in Nat /\ m.prevIndex \in Nat
          /\ m.entries \in Seq(Entry)
      BY DEF SafetyInv, TypeInv, TypeOK, AppendRequest
    <3>2. Len(m.entries) \in Nat
      BY <3>1
    <3> QED BY <3>1, <3>2
  <2>2. Smaller(m.commit, m.prevIndex + Len(m.entries)) \in Nat
    BY <2>1 DEF Smaller
  <2> QED BY <2>1, <2>2
<1>2. /\ chosen' = chosen
      /\ IF n > commitIndex[d] THEN CommitAndApply(d, n, q) ELSE UNCHANGED machine
  BY <1>1 DEF AcceptEntries, history
<1>3. CASE n > commitIndex[d]
  <2>1. /\ commitIndex'[d] = n
        /\ \A j \in Server \ {d} : applied'[j] = applied[j]
    BY <1>1, <1>2, <1>3 DEF CommitAndApply, SafetyInv, TypeInv, TypeOK
  <2> QED BY <1>1, <1>2, <1>3, <2>1 DEF AbstractStep
<1>4. CASE ~(n > commitIndex[d])
  BY <1>2, <1>4 DEF machine, AbstractStep
<1> QED BY <1>3, <1>4

\* One case per action of Next: only a commit, a follower that executes and a restart
\* show above.
LEMMA StepImplements ==
  ASSUME SafetyInv, SafetyInv', [Next]_vars
  PROVE  AbstractStep
<1>1. ASSUME NEW i \in Server, NodeStep(i)
      PROVE  AbstractStep
  <2>1. CASE Crash(i)
    BY <2>1, RebootImplements DEF Crash
  <2>2. CASE ~Crash(i)
    <3>1. UNCHANGED <<chosen, applied>>
      BY <1>1, <2>2 DEF NodeStep, StartElection, Broadcast, Propose, ReplicateToPeer,
                        machine, history
    <3> QED BY <3>1 DEF AbstractStep
  <2> QED BY <2>1, <2>2
<1>2. ASSUME NEW m \in voteRequests, HandleRequestVote(m) \/ CrashBeforeVote(m)
      PROVE  AbstractStep
  <2>1. m.dst \in Server
    BY DEF SafetyInv, TypeInv, TypeOK, VoteRequest
  <2>2. CASE HandleRequestVote(m)
    BY <2>2 DEF HandleRequestVote, RejectStaleCandidate, DenyVote, GrantVote,
                machine, history, AbstractStep
  <2>3. CASE CrashBeforeVote(m)
    BY <2>1, <2>3, RebootImplements DEF CrashBeforeVote
  <2> QED BY <1>2, <2>2, <2>3
<1>3. ASSUME NEW m \in voteReplies, HandleVoteReply(m)
      PROVE  AbstractStep
  BY <1>3 DEF HandleVoteReply, StepDownOnVoteReply, IgnoreVoteReply, CountVote,
              machine, history, AbstractStep
<1>4. ASSUME NEW m \in appendRequests,
             HandleAppendEntries(m) \/ CrashWhileAppending(m) \/ LoseAppendRequest(m)
      PROVE  AbstractStep
  <2>1. m.dst \in Server
    BY DEF SafetyInv, TypeInv, TypeOK, AppendRequest
  <2>2. CASE AcceptEntries(m)
    BY <2>2, AcceptImplements
  <2>3. CASE RejectStaleLeader(m) \/ RejectMismatch(m) \/ LoseAppendRequest(m)
    BY <2>3 DEF RejectStaleLeader, RejectMismatch, LoseAppendRequest,
                machine, history, AbstractStep
  <2>4. CASE CrashWhileAppending(m)
    BY <2>1, <2>4, RebootImplements DEF CrashWhileAppending
  <2> QED BY <1>4, <2>2, <2>3, <2>4 DEF HandleAppendEntries
<1>5. ASSUME NEW m \in appendReplies, HandleAppendReply(m) \/ LoseAppendReply(m)
      PROVE  AbstractStep
  <2>1. CASE AdvancePeer(m)
    <3>1. m.dst \in Server
      BY DEF SafetyInv, TypeInv, TypeOK, AppendReply
    <3>2. \E match : MaybeAdvanceCommitIndex(m.dst, match)
      BY <2>1 DEF AdvancePeer
    <3> QED BY <3>1, <3>2, CommitImplements
  <2>2. CASE ~AdvancePeer(m)
    BY <1>5, <2>2 DEF HandleAppendReply, StepDownOnAppendReply, IgnoreAppendReply, BackOff,
                      LoseAppendReply, machine, history, AbstractStep
  <2> QED BY <2>1, <2>2
<1>6. CASE UNCHANGED vars
  BY <1>6 DEF vars, machine, history, AbstractStep
<1> QED BY <1>1, <1>2, <1>3, <1>4, <1>5, <1>6 DEF Next

\* The cluster with its crashes, late messages and elections behaves as one replicated
\* log: what is decided only grows, and every store executes a beginning of it.
THEOREM RaftImplementsReplicatedLog == Spec => ImplementsReplicatedLog
<1>1. Init => Abstract!Init
  <2> SUFFICES ASSUME Init
               PROVE  Abstract!Init
    OBVIOUS
  <2>1. [k \in DOMAIN chosen |-> chosen[k].entry.cmd] = <<>>
    BY DEF Init
  <2> QED BY <2>1 DEF Init, Abstract!Init
<1>2. SafetyInv /\ SafetyInv' /\ [Next]_vars =>
        [Abstract!Next]_<<[k \in DOMAIN chosen |-> chosen[k].entry.cmd], applied>>
  BY StepImplements, AbstractStepImplements DEF Decided
<1> QED BY <1>1, <1>2, SafetyHolds, PTL DEF Spec, ImplementsReplicatedLog, Abstract!Spec


-------------------------------------------------------------------------------
(* The clients.                                                            *)

\* What every step of Raft keeps.
ClusterGrows ==
  /\ elected \subseteq elected'
  /\ \A k \in DOMAIN chosen : k \in DOMAIN chosen' /\ chosen'[k] = chosen[k]

\* A quiet step makes no leader, and leaders keep their logs.
LEMMA QuietLeaders ==
  ASSUME TypeInv, NEW L, Quiet(L), NEW i \in Server, state'[i] = "Leader"
  PROVE  /\ state[i] = "Leader"
         /\ currentTerm'[i] = currentTerm[i]
         /\ Begins(log[i], log'[i])
<1>1. log[i] \in Seq(Entry)
  BY DEF TypeInv, TypeOK
<1>2. state[i] = "Leader" /\ currentTerm'[i] = currentTerm[i]
  BY DEF Quiet, RolesKept
<1>3. log'[i] = log[i]
  BY DEF Quiet, LogsKept
<1> QED BY <1>1, <1>2, <1>3, BeginsItself

\* In a step of a process that stays up, its commit index does not fall.
LEMMA CommitIndexGrows ==
  ASSUME TypeInv, NEW i \in Server, [Next]_vars,
         ~Crash(i),
         \A m \in voteRequests : m.dst = i => ~CrashBeforeVote(m),
         \A m \in appendRequests : m.dst = i => ~CrashWhileAppending(m)
  PROVE  commitIndex[i] <= commitIndex'[i]
<1>1. \A j \in Server : commitIndex[j] \in Nat
  BY DEF TypeInv, TypeOK
<1>2. ASSUME NEW j \in Server, NEW pending, Reboot(j, pending), j # i
      PROVE  commitIndex'[i] = commitIndex[i]
  BY <1>2 DEF Reboot, TypeInv, TypeOK
<1>3. ASSUME NEW j \in Server, NEW n \in Nat, NEW l, CommitAndApply(j, n, l),
             n >= commitIndex[j]
      PROVE  commitIndex[i] <= commitIndex'[i]
  <2>1. commitIndex' = [commitIndex EXCEPT ![j] = n] /\ commitIndex \in [Server -> Nat]
    BY <1>3 DEF CommitAndApply, TypeInv, TypeOK
  <2> QED BY <1>1, <1>3, <2>1
<1>4. ASSUME NEW j \in Server, NodeStep(j)
      PROVE  commitIndex[i] <= commitIndex'[i]
  <2>1. CASE Crash(j)
    BY <1>1, <1>2, <2>1 DEF Crash
  <2>2. CASE ~Crash(j)
    <3>1. commitIndex' = commitIndex
      BY <1>4, <2>2 DEF NodeStep, StartElection, Broadcast, Propose, ReplicateToPeer, machine
    <3> QED BY <1>1, <3>1
  <2> QED BY <2>1, <2>2
<1>5. ASSUME NEW m \in voteRequests, HandleRequestVote(m) \/ CrashBeforeVote(m)
      PROVE  commitIndex[i] <= commitIndex'[i]
  <2>1. m.dst \in Server
    BY DEF TypeInv, TypeOK, VoteRequest
  <2>2. CASE HandleRequestVote(m)
    <3>1. commitIndex' = commitIndex
      BY <2>2 DEF HandleRequestVote, RejectStaleCandidate, DenyVote, GrantVote, machine
    <3> QED BY <1>1, <3>1
  <2>3. CASE CrashBeforeVote(m)
    BY <1>1, <1>2, <2>1, <2>3 DEF CrashBeforeVote
  <2> QED BY <1>5, <2>2, <2>3
<1>6. ASSUME NEW m \in voteReplies, HandleVoteReply(m)
      PROVE  commitIndex[i] <= commitIndex'[i]
  <2>1. commitIndex' = commitIndex
    BY <1>6 DEF HandleVoteReply, StepDownOnVoteReply, IgnoreVoteReply, CountVote, machine
  <2> QED BY <1>1, <2>1
<1>7. ASSUME NEW m \in appendRequests,
             HandleAppendEntries(m) \/ CrashWhileAppending(m) \/ LoseAppendRequest(m)
      PROVE  commitIndex[i] <= commitIndex'[i]
  <2>1. /\ m.dst \in Server /\ m.commit \in Nat /\ m.prevIndex \in Nat
        /\ m.entries \in Seq(Entry)
    BY DEF TypeInv, TypeOK, AppendRequest
  <2>2. CASE AcceptEntries(m)
    <3>1. PICK n, q :
            /\ n \in Nat
            /\ IF n > commitIndex[m.dst] THEN CommitAndApply(m.dst, n, q)
                                         ELSE UNCHANGED machine
      <4>1. Len(m.entries) \in Nat
        BY <2>1
      <4>2. Smaller(m.commit, m.prevIndex + Len(m.entries)) \in Nat
        BY <2>1, <4>1 DEF Smaller
      <4> QED BY <2>2, <4>2 DEF AcceptEntries
    <3> QED BY <1>1, <1>3, <2>1, <3>1 DEF machine
  <2>3. CASE RejectStaleLeader(m) \/ RejectMismatch(m) \/ LoseAppendRequest(m)
    <3>1. commitIndex' = commitIndex
      BY <2>3 DEF RejectStaleLeader, RejectMismatch, LoseAppendRequest, machine
    <3> QED BY <1>1, <3>1
  <2>4. CASE CrashWhileAppending(m)
    <3>1. m.dst # i /\ Reboot(m.dst, voteRequests)
      BY <2>4 DEF CrashWhileAppending
    <3> QED BY <1>1, <1>2, <2>1, <3>1
  <2> QED BY <1>7, <2>2, <2>3, <2>4 DEF HandleAppendEntries
<1>8. ASSUME NEW m \in appendReplies, HandleAppendReply(m) \/ LoseAppendReply(m)
      PROVE  commitIndex[i] <= commitIndex'[i]
  <2>1. m.dst \in Server
    BY DEF TypeInv, TypeOK, AppendReply
  <2>2. CASE AdvancePeer(m)
    <3>1. PICK match : MaybeAdvanceCommitIndex(m.dst, match)
      BY <2>2 DEF AdvancePeer
    <3>2. CASE UNCHANGED machine
      BY <1>1, <3>2 DEF machine
    <3>3. ASSUME NEW N \in Committable(m.dst, match), CommitAndApply(m.dst, N, log[m.dst])
          PROVE  commitIndex[i] <= commitIndex'[i]
      <4>1. PICK c \in Nat : c = commitIndex[m.dst]
        BY <1>1, <2>1
      <4>2. Len(log[m.dst]) \in Nat
        <5>1. log[m.dst] \in Seq(Entry)
          BY <2>1 DEF TypeInv, TypeOK
        <5> QED BY <5>1
      <4>3. N \in (c + 1)..Len(log[m.dst])
        BY <3>3, <4>1 DEF Committable
      <4>4. N \in Nat /\ N >= c
        BY <4>1, <4>2, <4>3
      <4> QED BY <1>3, <2>1, <3>3, <4>1, <4>4
    <3> QED BY <3>1, <3>2, <3>3 DEF MaybeAdvanceCommitIndex
  <2>3. CASE ~AdvancePeer(m)
    <3>1. commitIndex' = commitIndex
      BY <1>8, <2>3 DEF HandleAppendReply, StepDownOnAppendReply, IgnoreAppendReply, BackOff,
                        LoseAppendReply, machine
    <3> QED BY <1>1, <3>1
  <2> QED BY <2>2, <2>3
<1>9. CASE UNCHANGED vars
  BY <1>1, <1>9 DEF vars, machine
<1> QED BY <1>4, <1>5, <1>6, <1>7, <1>8, <1>9 DEF Next

\* Every step is quiet, a proposal or a vote that is counted.
LEMMA QuietOrNot ==
  ASSUME TypeInv, RoleInv, NEW L, LedgerInv(L), [Next]_vars
  PROVE  \/ Quiet(L)
         \/ \E i \in Server : \E cmd \in Command : Propose(i, cmd)
         \/ \E m \in voteReplies : CountVote(m)
<1>1. ASSUME NEW i \in Server, NodeStep(i), \A cmd \in Command : ~Propose(i, cmd)
      PROVE  Quiet(L)
  <2>1. CASE StartElection(i)
    BY <2>1, StartElectionQuiet
  <2>2. CASE Broadcast(i)
    <3>1. /\ UNCHANGED <<currentTerm, state, currentLeader, elected, log>>
          /\ appendRequests' \subseteq appendRequests
      BY <2>2 DEF Broadcast, persistent, role, appendRPC, history
    <3> QED BY <3>1, SameQuiet
  <2>3. ASSUME NEW j \in Server, NEW commit, ReplicateToPeer(i, j, commit)
        PROVE  Quiet(L)
    BY <2>3, ReplicateToPeerQuiet
  <2>4. CASE Crash(i)
    BY <2>4, CrashQuiet
  <2> QED BY <1>1, <2>1, <2>2, <2>3, <2>4 DEF NodeStep
<1>2. ASSUME NEW m \in voteRequests, HandleRequestVote(m) \/ CrashBeforeVote(m)
      PROVE  Quiet(L)
  BY <1>2, HandleRequestVoteQuiet, CrashBeforeVoteQuiet
<1>3. ASSUME NEW m \in voteReplies, HandleVoteReply(m), ~CountVote(m)
      PROVE  Quiet(L)
  BY <1>3, HandleVoteReplyQuiet DEF HandleVoteReply
<1>4. ASSUME NEW m \in appendRequests,
             HandleAppendEntries(m) \/ CrashWhileAppending(m) \/ LoseAppendRequest(m)
      PROVE  Quiet(L)
  BY <1>4, HandleAppendEntriesQuiet, CrashWhileAppendingQuiet
<1>5. ASSUME NEW m \in appendReplies, HandleAppendReply(m) \/ LoseAppendReply(m)
      PROVE  Quiet(L)
  BY <1>5, HandleAppendReplyQuiet
<1>6. CASE UNCHANGED vars
  <2>1. /\ UNCHANGED <<currentTerm, state, currentLeader, elected, log>>
        /\ appendRequests' \subseteq appendRequests
    BY <1>6 DEF vars, persistent, role, appendRPC, history
  <2> QED BY <2>1, SameQuiet
<1> QED BY <1>1, <1>2, <1>3, <1>4, <1>5, <1>6 DEF Next

\* A node that leads in a term somebody was elected in before the step led before the
\* step, in the same term, and its log has only grown.
LEMMA LeadershipKept ==
  ASSUME TypeInv, RoleInv, NEW L, LedgerInv(L), [Next]_vars,
         NEW i \in Server, state'[i] = "Leader",
         [term |-> currentTerm'[i], node |-> i] \in elected
  PROVE  /\ state[i] = "Leader"
         /\ currentTerm'[i] = currentTerm[i]
         /\ Begins(log[i], log'[i])
<1>1. log[i] \in Seq(Entry)
  BY DEF TypeInv, TypeOK
<1>2. CASE Quiet(L)
  BY <1>2, QuietLeaders
<1>3. ASSUME NEW j \in Server, NEW cmd \in Command, Propose(j, cmd)
      PROVE  /\ state[i] = "Leader"
             /\ currentTerm'[i] = currentTerm[i]
             /\ Begins(log[i], log'[i])
  <2>1. UNCHANGED <<currentTerm, state>>
    BY <1>3 DEF Propose, role
  <2>2. CASE i # j
    <3>1. log'[i] = log[i]
      BY <1>3, <2>2 DEF Propose, TypeInv, TypeOK
    <3> QED BY <1>1, <2>1, <3>1, BeginsItself
  <2>3. CASE i = j
    <3>1. PICK e : log'[i] = Append(log[i], e)
      BY <1>3, <2>3 DEF Propose, TypeInv, TypeOK
    <3>2. Begins(log[i], log'[i])
      BY <1>1, <3>1 DEF Begins, Agree
    <3> QED BY <2>1, <3>2
  <2> QED BY <2>2, <2>3
<1>4. ASSUME NEW m \in voteReplies, CountVote(m)
      PROVE  /\ state[i] = "Leader"
             /\ currentTerm'[i] = currentTerm[i]
             /\ Begins(log[i], log'[i])
  <2>1. UNCHANGED <<currentTerm, log>>
    BY <1>4 DEF CountVote, persistent
  <2>2. i = m.dst => state[i] # "Candidate" \/ state'[i] # "Leader"
    BY <2>1 DEF RoleInv
  <2>3. state' = state \/ state' = [state EXCEPT ![m.dst] = "Leader"]
    BY <1>4 DEF CountVote, BecomeLeader, role
  <2>4. state[m.dst] = "Candidate"
    BY <1>4 DEF CountVote, Counts
  <2>5. state'[i] = state[i]
    BY <2>2, <2>3, <2>4 DEF TypeInv, TypeOK
  <2> QED BY <1>1, <2>1, <2>5, BeginsItself
<1> QED BY <1>2, <1>3, <1>4, QuietOrNot

\* Elections, and what was chosen, are never undone.
LEMMA ClusterKeeps ==
  ASSUME SafetyInv, SafetyInv', [Next]_vars
  PROVE  ClusterGrows
<1>1. PICK L : TypeInv /\ TypeInv' /\ RoleInv /\ LedgerInv(L)
  BY DEF SafetyInv, Safe
<1>2. elected \subseteq elected'
  <2>1. CASE Quiet(L)
    BY <2>1 DEF Quiet, RolesKept
  <2>2. ASSUME NEW j \in Server, NEW cmd \in Command, Propose(j, cmd)
        PROVE  elected' = elected
    BY <2>2 DEF Propose, history
  <2>3. ASSUME NEW m \in voteReplies, CountVote(m)
        PROVE  elected \subseteq elected'
    BY <2>3 DEF CountVote, BecomeLeader
  <2> QED BY <1>1, <2>1, <2>2, <2>3, QuietOrNot
<1>3. AbstractStep
  BY StepImplements
<1>4. ASSUME NEW k \in DOMAIN chosen
      PROVE  k \in DOMAIN chosen' /\ chosen'[k] = chosen[k]
  <2>1. CASE chosen' = chosen
    BY <2>1
  <2>2. CASE \A x \in DOMAIN chosen : chosen'[x] = chosen[x] /\ Len(chosen') > Len(chosen)
    <3>1. PICK a \in Nat, b \in Nat :
            /\ a = Len(chosen) /\ DOMAIN chosen = 1..a
            /\ b = Len(chosen') /\ DOMAIN chosen' = 1..b
      <4> DEFINE R == [entry : Entry, at : Nat]
      <4>1. chosen \in Seq(R) /\ chosen' \in Seq(R)
        BY <1>1 DEF TypeInv, TypeOK
      <4> HIDE DEF R
      <4> QED BY <4>1
    <3> QED BY <2>2, <3>1
  <2> QED BY <1>3, <2>1, <2>2 DEF AbstractStep
<1> QED BY <1>2, <1>4 DEF ClusterGrows

\* Every waiting write is in the log of its leadership, where it was put.
Waits(w) ==
  /\ w \in Write
  /\ [term |-> w.term, node |-> w.node] \in elected
  /\ SameLeadership(w) =>
       /\ w.index \in DOMAIN log[w.node]
       /\ log[w.node][w.index] = [term |-> w.term, index |-> w.index, cmd |-> w.cmd]

WaitInv == \A w \in waiting : Waits(w)

\* An acknowledged write is chosen, and its leader has committed it.
Sure(w) ==
  /\ w \in Write
  /\ [term |-> w.term, node |-> w.node] \in elected
  /\ IsChosen(w)
  /\ SameLeadership(w) => w.index <= commitIndex[w.node]

AckInv == \A w \in acked : Sure(w)

\* The store that a Get will read has executed what the Get is owed.
Served(g) ==
  /\ g.node \in Server
  /\ \A w \in g.owed : IsChosen(w) /\ w.index <= commitIndex[g.node]

GetInv == \A g \in gets : Served(g)

ClientsInv == SafetyInv /\ WaitInv /\ AckInv /\ GetInv

LEMMA WriteTypes ==
  ASSUME NEW w \in Write
  PROVE  /\ w.node \in Server /\ w.index \in Nat /\ w.term \in Nat /\ w.cmd \in Command
         /\ w = [node |-> w.node, index |-> w.index, term |-> w.term, cmd |-> w.cmd]
BY DEF Write

\* A step of Raft after which a leadership still is the one of a write.
LEMMA SameLeadershipKept ==
  ASSUME SafetyInv, [Next]_vars,
         NEW w \in Write, [term |-> w.term, node |-> w.node] \in elected, SameLeadership(w)'
  PROVE  /\ SameLeadership(w)
         /\ Begins(log[w.node], log'[w.node])
         /\ commitIndex[w.node] <= commitIndex'[w.node]
<1>1. PICK L : TypeInv /\ RoleInv /\ LedgerInv(L)
  BY DEF SafetyInv, Safe
<1>2. w.node \in Server
  BY WriteTypes
<1>3. state'[w.node] = "Leader" /\ currentTerm'[w.node] = w.term
  BY DEF SameLeadership
<1>4. /\ state[w.node] = "Leader" /\ currentTerm[w.node] = w.term
      /\ Begins(log[w.node], log'[w.node])
  BY <1>1, <1>2, <1>3, LeadershipKept
<1>5. ASSUME NEW pending, Reboot(w.node, pending)
      PROVE  FALSE
  BY <1>1, <1>2, <1>3, <1>5 DEF Reboot, TypeInv, TypeOK
<1>6. commitIndex[w.node] <= commitIndex'[w.node]
  <2>1. ~Crash(w.node)
    BY <1>5 DEF Crash
  <2>2. \A m \in voteRequests : m.dst = w.node => ~CrashBeforeVote(m)
    BY <1>5 DEF CrashBeforeVote
  <2>3. \A m \in appendRequests : m.dst = w.node => ~CrashWhileAppending(m)
    BY <1>5 DEF CrashWhileAppending
  <2> QED BY <1>1, <1>2, <2>1, <2>2, <2>3, CommitIndexGrows
<1> QED BY <1>4, <1>6 DEF SameLeadership

\* A step of Raft keeps what is known of a write that waits.
LEMMA WaitKept ==
  ASSUME SafetyInv, SafetyInv', [Next]_vars, NEW w, Waits(w)
  PROVE  Waits(w)'
<1>1. ClusterGrows /\ TypeInv /\ TypeInv'
  BY ClusterKeeps DEF SafetyInv
<1>2. w \in Write /\ [term |-> w.term, node |-> w.node] \in elected
  BY DEF Waits
<1>3. ASSUME SameLeadership(w)'
      PROVE  /\ w.index \in DOMAIN log'[w.node]
             /\ log'[w.node][w.index]
                  = [term |-> w.term, index |-> w.index, cmd |-> w.cmd]
  <2>1. SameLeadership(w) /\ Begins(log[w.node], log'[w.node])
    BY <1>2, <1>3, SameLeadershipKept
  <2>2. PICK a \in Seq(Entry), b \in Seq(Entry) : a = log[w.node] /\ b = log'[w.node]
    BY <1>1, <1>2, WriteTypes DEF TypeInv, TypeOK
  <2>3. /\ w.index \in DOMAIN a
        /\ a[w.index] = [term |-> w.term, index |-> w.index, cmd |-> w.cmd]
    BY <2>1, <2>2 DEF Waits
  <2>4. w.index \in DOMAIN b /\ b[w.index] = a[w.index]
    BY <2>1, <2>2, <2>3 DEF Begins, Agree
  <2> QED BY <2>2, <2>3, <2>4
<1> QED BY <1>1, <1>2, <1>3 DEF ClusterGrows, Waits

\* And of one that is acknowledged.
LEMMA SureKept ==
  ASSUME SafetyInv, SafetyInv', [Next]_vars, NEW w, Sure(w)
  PROVE  Sure(w)'
<1>1. ClusterGrows /\ TypeInv /\ TypeInv'
  BY ClusterKeeps DEF SafetyInv
<1>2. w \in Write /\ [term |-> w.term, node |-> w.node] \in elected /\ IsChosen(w)
  BY DEF Sure
<1>3. IsChosen(w)'
  BY <1>1, <1>2 DEF IsChosen, ClusterGrows
<1>4. ASSUME SameLeadership(w)'
      PROVE  w.index <= commitIndex'[w.node]
  <2>1. PICK x \in Nat, y \in Nat, z \in Nat :
          x = w.index /\ y = commitIndex[w.node] /\ z = commitIndex'[w.node]
    BY <1>1, <1>2, WriteTypes DEF TypeInv, TypeOK
  <2>2. SameLeadership(w) /\ y <= z
    BY <1>2, <1>4, <2>1, SameLeadershipKept
  <2>3. x <= y
    BY <2>1, <2>2 DEF Sure
  <2> QED BY <2>1, <2>2, <2>3
<1> QED BY <1>1, <1>2, <1>3, <1>4 DEF ClusterGrows, Sure

\* waitForCommit: if the leadership still is the one the write was proposed in, what is
\* committed at its index is the write.
LEMMA CommittedIsWritten ==
  ASSUME SafetyInv, NEW w, Waits(w), Committed(w), SameLeadership(w)
  PROVE  IsChosen(w)
<1>1. PICK L, S : Safe(L, S) /\ TypeInv
  BY DEF SafetyInv
<1>2. /\ ExecutedIsChosen
      /\ \A i \in Server : Known(L, S, commitIndex[i], currentTerm[i])
  BY <1>1 DEF Safe, CommitInv, CommitIndexesKnown
<1>3. w.node \in Server /\ w.index \in Nat
  BY WriteTypes DEF Waits
<1>4. /\ w.index \in DOMAIN log[w.node]
      /\ log[w.node][w.index] = [term |-> w.term, index |-> w.index, cmd |-> w.cmd]
  BY DEF Waits
<1>5. PICK k \in Nat \ {0}, c \in Nat : k = w.index /\ c = commitIndex[w.node] /\ k <= c
  <2>1. w.index # 0
    BY <1>1, <1>3, <1>4, LedgerTypes DEF Safe
  <2> QED BY <1>1, <1>3, <2>1 DEF Committed, TypeInv, TypeOK
<1>6. k \in 1..c /\ c <= Len(chosen)
  BY <1>2, <1>3, <1>5 DEF Known
<1>7. k \in DOMAIN chosen
  BY <1>1, <1>5, <1>6, ChosenTypes
<1>8. log[w.node][k] = chosen[k].entry
  BY <1>2, <1>3, <1>5, <1>6 DEF ExecutedIsChosen
<1> QED BY <1>4, <1>5, <1>7, <1>8 DEF IsChosen

\* A leader of the newest term that has committed an entry of its own term has
\* committed everything that was ever acknowledged.
LEMMA OwedIsCommitted ==
  ASSUME SafetyInv, AckInv, NEW i \in Server, state[i] = "Leader", NEW w \in Owed(i)
  PROVE  IsChosen(w) /\ w.index <= commitIndex[i]
<1>1. PICK L, S : Safe(L, S) /\ TypeInv /\ RoleInv /\ ElectionSafety
  <2>1. TypeOK /\ ElectionInv
    BY DEF SafetyInv, TypeInv
  <2> QED BY <2>1, ElectionInvImplies DEF SafetyInv
<1>2. /\ LedgerInv(L) /\ LeadersHoldChoosable(L, S) /\ ChosenFromLeaders(L, S)
      /\ ExecutedIsChosen
  BY <1>1 DEF Safe, CampaignInv, CommitInv
<1>3. /\ w \in acked
      /\ \A e \in elected : e.term <= currentTerm[i]
      /\ commitIndex[i] > 0
      /\ log[i][commitIndex[i]].term = currentTerm[i]
  BY DEF Owed
<1>4. /\ IsChosen(w) /\ w \in Write
      /\ [term |-> w.term, node |-> w.node] \in elected
      /\ SameLeadership(w) => w.index <= commitIndex[w.node]
  BY <1>3 DEF AckInv, Sure
<1>5. PICK T \in Nat, c \in Nat : T = currentTerm[i] /\ c = commitIndex[i]
  BY <1>1 DEF TypeInv, TypeOK
<1>6. [term |-> T, node |-> i] \in elected /\ log[i] = L[T]
  BY <1>1, <1>2, <1>5 DEF RoleInv, LedgerInv, LogsFromLeaders
<1>7. w.term \in Nat /\ w.term <= T
  BY <1>3, <1>4, <1>5, WriteTypes
<1>8. CASE w.term = T
  <2>1. w.node = i
    BY <1>1, <1>4, <1>6, <1>8 DEF ElectionSafety
  <2>2. SameLeadership(w)
    BY <1>5, <1>8, <2>1 DEF SameLeadership
  <2> QED BY <1>4, <2>1, <2>2
<1>9. CASE w.term < T
  <2>1. PICK k \in DOMAIN chosen :
          k = w.index /\ chosen[k].entry.term = w.term /\ k \in Nat \ {0}
    BY <1>1, <1>4, ChosenTypes DEF IsChosen
  <2>2. PICK a \in Nat : a = chosen[k].at
    BY <1>1, ChosenTypes
  <2>3. PICK n \in DOMAIN L[a] : k \in 1..n /\ Confirmed(L, S, a, n)
    BY <1>1, <1>2, <2>1, <2>2, ChosenByLeader
  <2>4. L[a][k] = chosen[k].entry
    BY <1>1, <1>2, <2>2, ChosenByLeader
  <2>5. a <= T
    <3>1. L[a] # <<>>
      BY <2>3
    <3> QED BY <1>2, <1>3, <1>5, <3>1, <2>2 DEF LedgerInv
  <2>6. Agree(L[T], L[a], n)
    <3>1. PICK e \in elected : e.term = T
      BY <1>6
    <3> QED BY <1>1, <1>2, <2>2, <2>3, <2>5, <3>1, CommittedStays
  <2>7. k \in DOMAIN L[T] /\ L[T][k].term = w.term
    BY <1>1, <1>2, <2>1, <2>3, <2>4, <2>6, LedgerTypes DEF Agree
  <2>8. c \in DOMAIN L[T] /\ L[T][c].term = T
    <3>1. PICK h \in Seq(Entry) : h = log[i] /\ h = L[T]
      BY <1>1, <1>6 DEF TypeInv, TypeOK
    <3>2. c > 0 /\ c <= Len(h) /\ h[c].term = T
      BY <1>2, <1>3, <1>5, <3>1 DEF ExecutedIsChosen
    <3>3. c \in DOMAIN h
      BY <3>1, <3>2
    <3> QED BY <3>1, <3>2, <3>3
  <2>9. ~(c <= k)
    BY <1>1, <1>2, <1>9, <1>7, <2>7, <2>8, TermsGrow
  <2> QED BY <1>4, <1>5, <2>1, <2>9
<1> QED BY <1>7, <1>8, <1>9

\* A commit index that does not fall keeps what a Get is owed.
LEMMA ServedKept ==
  ASSUME SafetyInv, SafetyInv', [Next]_vars, NEW g, Served(g),
         commitIndex[g.node] <= commitIndex'[g.node]
  PROVE  Served(g)'
<1>1. ClusterGrows /\ TypeInv /\ TypeInv' /\ g.node \in Server
  BY ClusterKeeps DEF SafetyInv, Served
<1>2. ASSUME NEW w \in g.owed
      PROVE  IsChosen(w)' /\ w.index <= commitIndex'[g.node]
  <2>1. IsChosen(w) /\ w.index <= commitIndex[g.node]
    BY DEF Served
  <2>2. PICK k \in Nat, x \in Nat, y \in Nat :
          k = w.index /\ x = commitIndex[g.node] /\ y = commitIndex'[g.node]
    <3>1. w.index \in Nat
      BY <1>1, <2>1, ChosenTypes DEF IsChosen
    <3> QED BY <1>1, <3>1 DEF TypeInv, TypeOK
  <2>3. k <= y
    BY <2>1, <2>2
  <2> QED BY <1>1, <2>1, <2>2, <2>3 DEF IsChosen, ClusterGrows
<1> QED BY <1>1, <1>2 DEF Served

\* The cluster by itself kills no process.
LEMMA ReplicateKeeps ==
  ASSUME TypeInv, Replicate
  PROVE  Next /\ \A i \in Server : commitIndex[i] <= commitIndex'[i]
<1>1. Next
  BY DEF Replicate, Next, NodeStep
<1>2. crashes' = crashes
  <2>1. ASSUME NEW i \in Server, NEW j, NEW commit,
               StartElection(i) \/ Broadcast(i) \/ ReplicateToPeer(i, j, commit)
        PROVE  crashes' = crashes
    BY <2>1 DEF StartElection, Broadcast, ReplicateToPeer, history
  <2>2. ASSUME NEW m, HandleRequestVote(m) \/ HandleVoteReply(m)
        PROVE  crashes' = crashes
    BY <2>2 DEF HandleRequestVote, RejectStaleCandidate, DenyVote, GrantVote, HandleVoteReply,
                StepDownOnVoteReply, IgnoreVoteReply, CountVote, history
  <2>3. ASSUME NEW m, HandleAppendEntries(m) \/ LoseAppendRequest(m)
        PROVE  crashes' = crashes
    BY <2>3 DEF HandleAppendEntries, RejectStaleLeader, RejectMismatch, AcceptEntries,
                LoseAppendRequest, history
  <2>4. ASSUME NEW m, HandleAppendReply(m) \/ LoseAppendReply(m)
        PROVE  crashes' = crashes
    BY <2>4 DEF HandleAppendReply, StepDownOnAppendReply, IgnoreAppendReply, AdvancePeer,
                BackOff, LoseAppendReply, history
  <2> QED BY <2>1, <2>2, <2>3, <2>4 DEF Replicate
<1>3. ASSUME NEW j, NEW pending, Reboot(j, pending)
      PROVE  FALSE
  <2>1. crashes \in Nat /\ crashes' = crashes + 1
    BY <1>3 DEF Reboot, TypeInv, TypeOK
  <2> QED BY <1>2, <2>1
<1>4. ASSUME NEW i \in Server
      PROVE  commitIndex[i] <= commitIndex'[i]
  <2>1. ~Crash(i)
    BY <1>3 DEF Crash
  <2>2. \A m \in voteRequests : m.dst = i => ~CrashBeforeVote(m)
    BY <1>3 DEF CrashBeforeVote
  <2>3. \A m \in appendRequests : m.dst = i => ~CrashWhileAppending(m)
    BY <1>3 DEF CrashWhileAppending
  <2> QED BY <1>1, <2>1, <2>2, <2>3, CommitIndexGrows
<1> QED BY <1>1, <1>4

\* A step of Raft after which nobody new waits, and of the Gets only those of nodes
\* whose commit index has not fallen.
LEMMA ClientsKept ==
  ASSUME ClientsInv, SafetyInv', [Next]_vars,
         waiting' \subseteq waiting, acked' = acked, gets' \subseteq gets,
         \A g \in gets' : commitIndex[g.node] <= commitIndex'[g.node]
  PROVE  ClientsInv'
<1>1. SafetyInv /\ WaitInv /\ AckInv /\ GetInv
  BY DEF ClientsInv
<1>2. WaitInv'
  BY <1>1, WaitKept DEF WaitInv
<1>3. AckInv'
  BY <1>1, SureKept DEF AckInv
<1>4. GetInv'
  BY <1>1, ServedKept DEF GetInv
<1> QED BY <1>2, <1>3, <1>4 DEF ClientsInv

\* A step of the clients alone.
LEMMA StandsStill ==
  ASSUME SafetyInv, UNCHANGED vars
  PROVE  /\ [Next]_vars /\ SafetyInv'
         /\ \A i \in Server : commitIndex[i] <= commitIndex'[i]
<1>1. SafetyInv'
  BY SafetyStep
<1>2. \A i \in Server : commitIndex[i] \in Nat
  BY DEF SafetyInv, TypeInv, TypeOK
<1>3. commitIndex' = commitIndex
  BY DEF vars, machine
<1> QED BY <1>1, <1>2, <1>3

\* What is proposed is in the log of its leadership.
LEMMA SubmitClients ==
  ASSUME ClientsInv, NEW i \in Server, NEW cmd \in Command, Submit(i, cmd)
  PROVE  [Next]_vars /\ ClientsInv'
<1>1. SafetyInv /\ WaitInv /\ AckInv /\ GetInv
  BY DEF ClientsInv
<1>2. PICK new :
        /\ new = [node |-> i, index |-> LastLogIndex(log[i]) + 1, term |-> currentTerm[i],
                  cmd |-> cmd]
        /\ Propose(i, cmd)
        /\ waiting' = waiting \cup {new}
        /\ acked' = acked /\ gets' = gets
  BY DEF Submit
<1>3. [Next]_vars
  BY <1>2 DEF Next, NodeStep
<1>4. SafetyInv'
  BY <1>1, <1>3, SafetyStep
<1>5. PICK L : TypeInv /\ RoleInv /\ LedgerInv(L)
  BY <1>1 DEF SafetyInv, Safe
<1>6. UNCHANGED <<state, currentTerm, commitIndex, elected>>
  BY <1>2 DEF Propose, role, machine, history
<1>7. Waits(new)'
  <2>1. PICK h \in Seq(Entry), t \in Nat : h = log[i] /\ t = currentTerm[i]
    BY <1>5 DEF TypeInv, TypeOK
  <2>2. LastLogIndex(h) = Len(h) /\ Len(h) \in Nat
    <3>1. \A k \in DOMAIN log[i] : log[i][k].index = k
      BY <1>1 DEF SafetyInv, TypeInv, IndexIsPosition
    <3> QED BY <2>1, <3>1 DEF LastLogIndex
  <2>3. log'[i] = Append(h, [term |-> t, index |-> Len(h) + 1, cmd |-> cmd])
    BY <1>2, <1>5, <2>1, <2>2 DEF Propose, TypeInv, TypeOK
  <2>4. new = [node |-> i, index |-> Len(h) + 1, term |-> t, cmd |-> cmd]
    BY <1>2, <2>1, <2>2
  <2>5. new \in Write
    BY <2>1, <2>2, <2>4 DEF Write
  <2>6. [term |-> t, node |-> i] \in elected'
    BY <1>2, <1>5, <1>6, <2>1 DEF RoleInv, Propose
  <2>7. /\ Len(h) + 1 \in DOMAIN log'[i]
        /\ log'[i][Len(h) + 1] = [term |-> t, index |-> Len(h) + 1, cmd |-> cmd]
    BY <2>1, <2>3
  <2> QED BY <2>4, <2>5, <2>6, <2>7 DEF Waits
<1>8. WaitInv'
  BY <1>1, <1>2, <1>3, <1>4, <1>7, WaitKept DEF WaitInv
<1>9. AckInv'
  BY <1>1, <1>2, <1>3, <1>4, SureKept DEF AckInv
<1>10. GetInv'
  <2>1. ASSUME NEW g \in gets
        PROVE  commitIndex[g.node] <= commitIndex'[g.node]
    BY <1>1, <1>5, <1>6 DEF GetInv, Served, TypeInv, TypeOK
  <2> QED BY <1>1, <1>2, <1>3, <1>4, <2>1, ServedKept DEF GetInv
<1> QED BY <1>3, <1>4, <1>8, <1>9, <1>10 DEF ClientsInv

\* What is acknowledged by its leadership is committed there.
LEMMA AcknowledgeClients ==
  ASSUME ClientsInv, NEW w \in waiting, Acknowledge(w)
  PROVE  [Next]_vars /\ ClientsInv'
<1>1. SafetyInv /\ WaitInv /\ AckInv /\ GetInv
  BY DEF ClientsInv
<1>2. /\ Committed(w) /\ UNCHANGED <<vars, gets>> /\ waiting' \subseteq waiting
      /\ acked' = IF SameLeadership(w) THEN acked \cup {w} ELSE acked
  BY DEF Acknowledge
<1>3. /\ [Next]_vars /\ SafetyInv'
      /\ \A i \in Server : commitIndex[i] <= commitIndex'[i]
  BY <1>1, <1>2, StandsStill
<1>4. WaitInv'
  BY <1>1, <1>2, <1>3, WaitKept DEF WaitInv
<1>5. AckInv'
  <2>1. ASSUME SameLeadership(w)
        PROVE  Sure(w)
    <3>1. Waits(w)
      BY <1>1 DEF WaitInv
    <3>2. IsChosen(w)
      BY <1>1, <1>2, <2>1, <3>1, CommittedIsWritten
    <3>3. w.index <= commitIndex[w.node]
      <4>1. w.node \in Server /\ w.index \in Nat
        BY <3>1, WriteTypes DEF Waits
      <4>2. commitIndex[w.node] \in Nat
        BY <1>1, <4>1 DEF SafetyInv, TypeInv, TypeOK
      <4> QED BY <1>2, <4>1, <4>2 DEF Committed
    <3> QED BY <3>1, <3>2, <3>3 DEF Sure, Waits
  <2>2. \A x \in acked' : Sure(x)
    BY <1>1, <1>2, <2>1 DEF AckInv
  <2> QED BY <1>1, <1>3, <2>2, SureKept DEF AckInv
<1>6. GetInv'
  <2>1. gets' = gets /\ \A g \in gets : Served(g) /\ g.node \in Server
    BY <1>1, <1>2 DEF GetInv, Served
  <2> QED BY <1>1, <1>3, <2>1, ServedKept DEF GetInv
<1> QED BY <1>3, <1>4, <1>5, <1>6 DEF ClientsInv

\* What a Get is owed, its leader has committed.
LEMMA CheckRoleClients ==
  ASSUME ClientsInv, NEW i \in Server, CheckRole(i)
  PROVE  [Next]_vars /\ ClientsInv'
<1> DEFINE new == [node |-> i, owed |-> Owed(i)]
<1>1. SafetyInv /\ WaitInv /\ AckInv /\ GetInv
  BY DEF ClientsInv
<1>2. /\ state[i] = "Leader" /\ UNCHANGED <<vars, waiting, acked>>
      /\ gets' = gets \cup {new}
  BY DEF CheckRole
<1>3. /\ [Next]_vars /\ SafetyInv'
      /\ \A j \in Server : commitIndex[j] <= commitIndex'[j]
  BY <1>1, <1>2, StandsStill
<1>4. WaitInv'
  BY <1>1, <1>2, <1>3, WaitKept DEF WaitInv
<1>5. AckInv'
  BY <1>1, <1>2, <1>3, SureKept DEF AckInv
<1>6. GetInv'
  <2>1. new.node = i /\ new.owed = Owed(i)
    OBVIOUS
  <2>2. Served(new)
    <3> HIDE DEF new
    <3> QED BY <1>1, <1>2, <2>1, OwedIsCommitted DEF Served
  <2> HIDE DEF new
  <2>3. \A g \in gets' : Served(g) /\ g.node \in Server
    BY <1>1, <1>2, <2>2 DEF GetInv, Served
  <2> QED BY <1>1, <1>3, <2>3, ServedKept DEF GetInv
<1> QED BY <1>3, <1>4, <1>5, <1>6 DEF ClientsInv

\* A process that dies takes its handlers with it.
LEMMA DiedClients ==
  ASSUME ClientsInv, Died
  PROVE  [Next]_vars /\ ClientsInv'
<1>1. SafetyInv /\ TypeInv /\ GetInv
  BY DEF ClientsInv, SafetyInv
<1>2. [Next]_vars
  BY DEF Died, Next, NodeStep
<1>3. PICK i \in Server : \E pending : Reboot(i, pending) /\ HangUp(i)
  <2>1. ASSUME NEW m \in voteRequests
        PROVE  m.dst \in Server
    BY <1>1 DEF TypeInv, TypeOK, VoteRequest
  <2>2. ASSUME NEW m \in appendRequests
        PROVE  m.dst \in Server
    BY <1>1 DEF TypeInv, TypeOK, AppendRequest
  <2> QED BY <2>1, <2>2 DEF Died, Crash, CrashBeforeVote, CrashWhileAppending
<1>4. SafetyInv'
  BY <1>1, <1>2, SafetyStep
<1>5. /\ waiting' \subseteq waiting /\ acked' = acked /\ gets' \subseteq gets
      /\ \A g \in gets' : g.node # i
  BY <1>3 DEF HangUp
<1>6. ASSUME NEW g \in gets'
      PROVE  commitIndex[g.node] <= commitIndex'[g.node]
  <2>1. g.node \in Server /\ g.node # i
    BY <1>1, <1>5 DEF GetInv, Served
  <2>2. commitIndex'[g.node] = commitIndex[g.node] /\ commitIndex[g.node] \in Nat
    BY <1>1, <1>3, <2>1 DEF Reboot, TypeInv, TypeOK
  <2> QED BY <2>2
<1> QED BY <1>2, <1>4, <1>5, <1>6, ClientsKept

LEMMA ClientsStep == ClientsInv /\ [ClientsNext]_<<vars, clientVars>> => ClientsInv'
<1> SUFFICES ASSUME ClientsInv, [ClientsNext]_<<vars, clientVars>>
             PROVE  ClientsInv'
  OBVIOUS
<1>1. SafetyInv /\ TypeInv /\ GetInv
  BY DEF ClientsInv, SafetyInv
<1>2. \A g \in gets : g.node \in Server
  BY <1>1 DEF GetInv, Served
<1>3. ASSUME UNCHANGED vars, waiting' \subseteq waiting, acked' = acked, gets' \subseteq gets
      PROVE  ClientsInv'
  BY <1>1, <1>2, <1>3, StandsStill, ClientsKept
<1>4. ASSUME NEW i \in Server, NEW cmd \in Command, CheckRole(i) \/ Submit(i, cmd)
      PROVE  ClientsInv'
  BY <1>4, CheckRoleClients, SubmitClients
<1>5. ASSUME NEW i \in Server, CheckRole(i)
      PROVE  ClientsInv'
  BY <1>5, CheckRoleClients
<1>6. ASSUME NEW w \in waiting, Acknowledge(w) \/ GiveUp(w)
      PROVE  ClientsInv'
  BY <1>3, <1>6, AcknowledgeClients DEF GiveUp
<1>7. ASSUME NEW g \in gets, ReadStore(g)
      PROVE  ClientsInv'
  BY <1>3, <1>7 DEF ReadStore
<1>8. CASE Replicate
  <2>1. UNCHANGED clientVars
    BY <1>8 DEF Replicate
  <2>2. Next /\ \A i \in Server : commitIndex[i] <= commitIndex'[i]
    BY <1>1, <1>8, ReplicateKeeps
  <2>3. SafetyInv'
    BY <1>1, <2>2, SafetyStep
  <2> QED BY <1>2, <2>1, <2>2, <2>3, ClientsKept DEF clientVars
<1>9. CASE Died
  BY <1>9, DiedClients
<1>10. CASE UNCHANGED <<vars, clientVars>>
  BY <1>3, <1>10 DEF clientVars
<1> QED BY <1>4, <1>5, <1>6, <1>7, <1>8, <1>9, <1>10 DEF ClientsNext, Serve

\* The clients change nothing of Raft by themselves, so all that is proved of Raft holds
\* with them.
LEMMA ClientsHold == ClientsSpec => []ClientsInv
<1>1. Init /\ ClientsInit => ClientsInv
  BY SafetyInit DEF ClientsInit, ClientsInv, WaitInv, AckInv, GetInv
<1> QED BY <1>1, ClientsStep, PTL DEF ClientsSpec

\* A write that its own leadership acknowledges (waitForCommit sees commitIndex reach the
\* index, whatever else happened in between) is committed for good, under its own command.
THEOREM SureAcksChosen == ClientsSpec => []SureAckIsChosen
<1>1. ClientsInv => SureAckIsChosen
  BY DEF ClientsInv, AckInv, Sure, SureAckIsChosen
<1> QED BY <1>1, ClientsHold, PTL

\* A Get that begins at the newest leader, once that has committed an entry of its own
\* term, returns every write acknowledged before it began (KVServer.Get).
THEOREM ReadsSafe == ClientsSpec => ReadsSeeAcks
<1>1. ASSUME ClientsInv
      PROVE  \A g \in gets : \A w \in g.owed :
               w.index \in DOMAIN applied[g.node] /\ applied[g.node][w.index] = w.cmd
  <2> SUFFICES ASSUME NEW g \in gets, NEW w \in g.owed
               PROVE  w.index \in DOMAIN applied[g.node] /\ applied[g.node][w.index] = w.cmd
    OBVIOUS
  <2>1. PICK L, S : Safe(L, S) /\ TypeInv
    BY <1>1 DEF ClientsInv, SafetyInv
  <2>2. g.node \in Server /\ IsChosen(w) /\ w.index <= commitIndex[g.node]
    BY <1>1 DEF ClientsInv, GetInv, Served
  <2>3. applied[g.node] = [k \in 1..commitIndex[g.node] |-> chosen[k].entry.cmd]
    BY <2>1, <2>2 DEF Safe, CommitInv, ExecutedIsChosen
  <2>4. /\ w.index \in DOMAIN chosen
        /\ chosen[w.index].entry.cmd = w.cmd
    BY <2>2 DEF IsChosen
  <2>5. w.index \in 1..commitIndex[g.node]
    <3>1. w.index \in Nat \ {0}
      BY <2>1, <2>4, ChosenTypes
    <3>2. commitIndex[g.node] \in Nat
      BY <2>1, <2>2 DEF TypeInv, TypeOK
    <3> QED BY <2>2, <3>1, <3>2
  <2> QED BY <2>3, <2>4, <2>5
<1>2. ClientsInv => [\A g \in gets : ReadStore(g) =>
                       \A w \in g.owed : w.index \in DOMAIN applied[g.node]
                         /\ applied[g.node][w.index] = w.cmd]_<<vars, clientVars>>
  BY <1>1
<1> QED BY <1>2, ClientsHold, PTL DEF ReadsSeeAcks
===============================================================================
