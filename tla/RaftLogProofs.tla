----------------------------- MODULE RaftLogProofs -----------------------------
(***************************************************************************)
(* Facts about the operators of RaftLog, for logs and requests of any      *)
(* length.  Recursion is not involved: a log is cut and extended with      *)
(* SubSeq and \o, and the first new entry of a request is a minimum.       *)
(***************************************************************************)
EXTENDS RaftLog, SequenceTheorems, WellFoundedInduction, TLAPS

\* The entries over a set of commands.
EntryOf(C) == [term : Nat, index : Nat, cmd : C]

\* Positions l's entries as raftlog.Entry.Index says, from first + 1 on.
Positioned(l, first) == \A k \in DOMAIN l : l[k].index = first + k

\* A function on 1..n is a sequence, also when 1..n is empty because n < 0.
LEMMA FunctionIsSeq ==
  ASSUME NEW S, NEW n \in Int, NEW f \in [1..n -> S]
  PROVE  f \in Seq(S)
<1>1. CASE n \in Nat
  BY <1>1
<1>2. CASE n \notin Nat
  <2>1. 1..n = 1..0
    BY <1>2
  <2>2. f \in [1..0 -> S]
    BY <2>1
  <2> QED BY <2>2
<1> QED BY <1>1, <1>2

\* A nonempty set of naturals has a least element.
LEMMA LeastElement ==
  ASSUME NEW T, T \subseteq Nat, T # {}
  PROVE  \E x \in T : \A y \in T : x <= y
<1>1. \E x \in T : \A y \in T : ~ (<<y, x>> \in OpToRel(<, Nat))
  BY NatLessThanWellFounded, WFMin, Zenon
<1>2. PICK x \in T : \A y \in T : ~ (<<y, x>> \in OpToRel(<, Nat))
  BY <1>1
<1>3. ASSUME NEW y \in T
      PROVE  x <= y
  <2>1. <<y, x>> \in OpToRel(<, Nat) <=> y < x
    BY DEF OpToRel
  <2>2. x \in Nat /\ y \in Nat /\ ~ (y < x)
    BY <1>2, <2>1
  <2> QED BY <2>2
<1> QED BY <1>3

\* FirstNew is a position of the request, and all before it are duplicates.
LEMMA FirstNewIsFirst ==
  ASSUME NEW C, NEW es \in Seq(EntryOf(C)), NEW l, NewEntries(l, es) # {}
  PROVE  /\ FirstNew(l, es) \in 1..Len(es)
         /\ FirstNew(l, es) \in NewEntries(l, es)
         /\ \A other \in NewEntries(l, es) : FirstNew(l, es) <= other
<1>1. NewEntries(l, es) \subseteq 1..Len(es)
  BY DEF NewEntries
<1>2. \E x \in NewEntries(l, es) : \A y \in NewEntries(l, es) : x <= y
  BY <1>1, LeastElement
<1>3. /\ FirstNew(l, es) \in NewEntries(l, es)
      /\ \A other \in NewEntries(l, es) : FirstNew(l, es) <= other
  BY <1>2 DEF FirstNew
<1> QED BY <1>1, <1>3

\* Storage.Truncate keeps a log a log and its positions in place.
LEMMA TruncateLog ==
  ASSUME NEW C, NEW l \in Seq(EntryOf(C)), Positioned(l, 0), NEW from \in Nat \ {0}
  PROVE  /\ Truncate(l, from) \in Seq(EntryOf(C))
         /\ Positioned(Truncate(l, from), 0)
         /\ Len(Truncate(l, from)) = IF from <= Len(l) THEN from - 1 ELSE Len(l)
<1>1. CASE from \in 1..Len(l)
  <2>1. /\ SubSeq(l, 1, from - 1) \in Seq(EntryOf(C))
        /\ Len(SubSeq(l, 1, from - 1)) = from - 1
        /\ \A k \in 1..(from - 1) : SubSeq(l, 1, from - 1)[k] = l[k]
    BY <1>1
  <2> QED BY <1>1, <2>1 DEF Truncate, Positioned
<1>2. CASE from \notin 1..Len(l)
  BY <1>2 DEF Truncate
<1> QED BY <1>1, <1>2

\* Cutting a log where a request begins to be new and appending entries of the
\* request from there on gives a log, positions in place.
LEMMA CutAndAppend ==
  ASSUME NEW C, NEW l \in Seq(EntryOf(C)), Positioned(l, 0),
         NEW es \in Seq(EntryOf(C)), NEW prev \in 0..Len(l), Positioned(es, prev),
         NEW k \in 1..Len(es), prev + k <= Len(l) + 1,
         NEW last \in (k - 1)..Len(es)
  PROVE  LET r == Truncate(l, es[k].index) \o SubSeq(es, k, last)
         IN  /\ r \in Seq(EntryOf(C))
             /\ Positioned(r, 0)
             /\ Len(r) = prev + last
<1> DEFINE cut  == Truncate(l, prev + k)
           rest == SubSeq(es, k, last)
<1>1. es[k].index = prev + k
  BY DEF Positioned
<1>2. /\ cut \in Seq(EntryOf(C))
      /\ Positioned(cut, 0)
      /\ Len(cut) = prev + k - 1
  BY TruncateLog
<1>3. /\ rest \in Seq(EntryOf(C))
      /\ Len(rest) = last - k + 1
      /\ \A n \in 1..(last - k + 1) : rest[n] = es[k + n - 1]
  <2>1. \A n \in k..last : es[n] \in EntryOf(C)
    BY ElementOfSeq
  <2> QED BY <2>1, SubSeqProperties
<1> DEFINE r == cut \o rest
<1> HIDE DEF cut, rest
<1>4. /\ r \in Seq(EntryOf(C))
      /\ Len(r) = prev + last
      /\ \A n \in 1..(prev + last) :
           r[n] = IF n <= prev + k - 1 THEN cut[n] ELSE rest[n - (prev + k - 1)]
  <2>1. /\ r \in Seq(EntryOf(C))
        /\ Len(r) = Len(cut) + Len(rest)
        /\ \A n \in 1..(Len(cut) + Len(rest)) :
             r[n] = IF n <= Len(cut) THEN cut[n] ELSE rest[n - Len(cut)]
    BY <1>2, <1>3, ConcatProperties
  <2>2. Len(cut) + Len(rest) = prev + last
    BY <1>2, <1>3
  <2> QED BY <1>2, <2>1, <2>2
<1> HIDE DEF r
<1>5. ASSUME NEW n \in 1..(prev + last)
      PROVE  r[n].index = n
  <2>1. CASE n <= prev + k - 1
    <3>1. r[n] = cut[n] /\ n \in DOMAIN cut
      BY <1>2, <1>4, <2>1
    <3> QED BY <1>2, <3>1 DEF Positioned
  <2>2. CASE n > prev + k - 1
    <3>1. PICK q \in 1..(last - k + 1) : q = n - (prev + k - 1)
      BY <2>2
    <3>2. r[n] = rest[q]
      BY <1>4, <2>2, <3>1
    <3>3. rest[q] = es[k + q - 1]
      BY <1>3
    <3>4. k + q - 1 \in DOMAIN es /\ prev + (k + q - 1) = n
      BY <3>1
    <3>5. es[k + q - 1].index = prev + (k + q - 1)
      BY <3>4 DEF Positioned
    <3> QED BY <3>2, <3>3, <3>4, <3>5
  <2> QED BY <2>1, <2>2
<1>6. Positioned(r, 0)
  BY <1>4, <1>5 DEF Positioned
<1>7. Truncate(l, es[k].index) \o SubSeq(es, k, last) = r
  BY <1>1 DEF cut, rest, r
<1> QED BY <1>4, <1>6, <1>7

\* The first new entry of a request that starts inside the log, or right behind
\* it, is inside the log or right behind it.
LEMMA FirstNewAdjoins ==
  ASSUME NEW C, NEW l \in Seq(EntryOf(C)),
         NEW es \in Seq(EntryOf(C)), NEW prev \in 0..Len(l), Positioned(es, prev),
         NewEntries(l, es) # {}
  PROVE  prev + FirstNew(l, es) <= Len(l) + 1
<1> DEFINE k == FirstNew(l, es)
<1>1. /\ k \in 1..Len(es)
      /\ \A other \in NewEntries(l, es) : k <= other
  BY FirstNewIsFirst
<1>2. CASE k = 1
  BY <1>2
<1>3. CASE k > 1
  <2>1. k - 1 \in DOMAIN es /\ k - 1 \notin NewEntries(l, es)
    BY <1>1, <1>3
  <2>2. es[k - 1].index \in DOMAIN l
    BY <2>1 DEF NewEntries
  <2>3. prev + (k - 1) \in 1..Len(l)
    BY <2>1, <2>2 DEF Positioned
  <2> QED BY <1>1, <2>3
<1> QED BY <1>1, <1>2, <1>3

\* integrateEntriesLocked returns a log with its positions in place that reaches
\* at least as far as the request: what HandleAppendEntries commits exists.
LEMMA IntegrateEntriesLog ==
  ASSUME NEW C, NEW l \in Seq(EntryOf(C)), Positioned(l, 0),
         NEW es \in Seq(EntryOf(C)), NEW prev \in 0..Len(l), Positioned(es, prev)
  PROVE  /\ IntegrateEntries(l, es) \in Seq(EntryOf(C))
         /\ Positioned(IntegrateEntries(l, es), 0)
         /\ Len(IntegrateEntries(l, es)) >= prev + Len(es)
<1>1. CASE NewEntries(l, es) = {}
  <2>1. \A k \in DOMAIN es : prev + k \in DOMAIN l
    BY <1>1 DEF NewEntries, Positioned
  <2>2. Len(l) >= prev + Len(es)
    <3>1. CASE Len(es) = 0
      BY <3>1
    <3>2. CASE Len(es) > 0
      <4>1. Len(es) \in DOMAIN es
        BY <3>2
      <4>2. prev + Len(es) \in DOMAIN l
        BY <2>1, <4>1
      <4> QED BY <4>2
    <3> QED BY <3>1, <3>2
  <2> QED BY <1>1, <2>2 DEF IntegrateEntries
<1>2. CASE NewEntries(l, es) # {}
  <2>1. FirstNew(l, es) \in 1..Len(es) /\ prev + FirstNew(l, es) <= Len(l) + 1
    BY <1>2, FirstNewIsFirst, FirstNewAdjoins
  <2>2. PICK k \in 1..Len(es) : k = FirstNew(l, es) /\ prev + k <= Len(l) + 1
    BY <2>1
  <2>3. Len(es) \in (k - 1)..Len(es)
    OBVIOUS
  <2>4. LET r == Truncate(l, es[k].index) \o SubSeq(es, k, Len(es))
        IN  /\ r \in Seq(EntryOf(C))
            /\ Positioned(r, 0)
            /\ Len(r) = prev + Len(es)
    BY <2>2, <2>3, CutAndAppend
  <2>5. IntegrateEntries(l, es) = Truncate(l, es[k].index) \o SubSeq(es, k, Len(es))
    BY <1>2, <2>2 DEF IntegrateEntries
  <2> QED BY <2>4, <2>5
<1> QED BY <1>1, <1>2

\* So is every log a crash inside it may leave on disk.
LEMMA InterruptedIntegrationsLog ==
  ASSUME NEW C, NEW l \in Seq(EntryOf(C)), Positioned(l, 0),
         NEW es \in Seq(EntryOf(C)), NEW prev \in 0..Len(l), Positioned(es, prev),
         NEW disk \in InterruptedIntegrations(l, es)
  PROVE  disk \in Seq(EntryOf(C)) /\ Positioned(disk, 0)
<1>1. CASE disk = l
  BY <1>1
<1>2. CASE disk # l
  <2>1. NewEntries(l, es) # {}
    BY <1>2 DEF InterruptedIntegrations
  <2>2. PICK k \in 1..Len(es) : k = FirstNew(l, es) /\ prev + k <= Len(l) + 1
    BY <2>1, FirstNewIsFirst, FirstNewAdjoins
  <2>3. PICK last \in (k - 1)..Len(es) :
          disk = Truncate(l, es[k].index) \o SubSeq(es, k, last)
    BY <1>2, <2>1, <2>2 DEF InterruptedIntegrations
  <2>4. LET r == Truncate(l, es[k].index) \o SubSeq(es, k, last)
        IN  r \in Seq(EntryOf(C)) /\ Positioned(r, 0)
    BY <2>2, CutAndAppend
  <2> QED BY <2>3, <2>4
<1> QED BY <1>1, <1>2
===============================================================================
