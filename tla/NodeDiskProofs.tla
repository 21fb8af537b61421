---------------------------- MODULE NodeDiskProofs ----------------------------
(***************************************************************************)
(* The votes and the terms of a node whose writes may fail, for every      *)
(* number of failures, crashes, terms and candidates.                      *)
(***************************************************************************)
EXTENDS NodeDisk, SequenceTheorems, TLAPS

\* A write, or a failed one, of a state that keeps what was voted keeps the
\* invariant, if the request at hand is kept or dropped.
LEMMA KeepVotes ==
  ASSUME VotesOnDisk, UNCHANGED granted,
         request' \in {request, Idle},
         NEW new, Write(new) \/ WriteFails(new),
         new = [term |-> new.term, vote |-> new.vote, log |-> new.log],
         new.term \in Nat, mem.term <= new.term,
         \A v \in granted : v[1] = new.term => v[2] = new.vote
  PROVE  VotesOnDisk'
<1>1. mem' = new /\ disk' \in {new, disk}
  BY DEF Write, WriteFails
<1>2. RequestShape'
  BY DEF VotesOnDisk, RequestShape, Idle
<1>3. disk'.term <= mem'.term /\ disk.term <= disk'.term
  BY <1>1 DEF VotesOnDisk
<1> QED
  BY <1>1, <1>2, <1>3 DEF VotesOnDisk, VotedOnce, RequestShape

\* A vote that is written leaves the node.
LEMMA NewVote ==
  ASSUME VotesOnDisk, request' \in {request, Idle},
         NEW new, Write(new),
         new = [term |-> new.term, vote |-> new.vote, log |-> new.log],
         new.term \in Nat, mem.term <= new.term,
         new.vote \in Candidate \cup {Me},
         granted' = granted \cup {<<new.term, new.vote>>},
         \A v \in granted : v[1] = new.term => v[2] = new.vote
  PROVE  VotesOnDisk'
<1>1. mem' = new /\ disk' = new
  BY DEF Write
<1>2. RequestShape'
  BY DEF VotesOnDisk, RequestShape, Idle
<1>3. ASSUME NEW v \in granted'
      PROVE  /\ v = <<v[1], v[2]>> /\ v[1] \in Nat /\ v[2] \in Candidate \cup {Me}
             /\ v[1] <= new.term
             /\ v[1] = new.term => new.vote = v[2]
  <2>1. CASE v \in granted
    BY <2>1 DEF VotesOnDisk
  <2>2. CASE v = <<new.term, new.vote>>
    BY <2>2
  <2> QED
    BY <2>1, <2>2
<1>4. VotedOnce'
  BY <1>3 DEF VotesOnDisk, VotedOnce, RequestShape
<1> QED
  BY <1>1, <1>2, <1>3, <1>4 DEF VotesOnDisk

LEMMA FollowerKeepsVotes ==
  ASSUME VotesOnDisk, NEW term \in Term, term >= mem.term, BecomeFollower(term),
         UNCHANGED granted,
         RequestShape'
  PROVE  VotesOnDisk'
<1>1. CASE term > mem.term
  <2> DEFINE new == [mem EXCEPT !.term = term, !.vote = Nil]
  <2>1. /\ new = [term |-> term, vote |-> Nil, log |-> mem.log]
        /\ mem' = new /\ disk' \in {new, disk}
    BY <1>1 DEF BecomeFollower, Write, WriteFails, VotesOnDisk
  <2>2. term \in Nat
    BY NodeAssumption DEF Term
  <2>3. disk'.term <= mem'.term /\ disk.term <= disk'.term
    BY <1>1, <2>1, <2>2 DEF VotesOnDisk
  <2>4. \A v \in granted : v[1] < term
    BY <1>1, <2>2 DEF VotesOnDisk
  <2> QED
    BY <2>1, <2>2, <2>3, <2>4 DEF VotesOnDisk, VotedOnce, RequestShape
<1>2. CASE ~(term > mem.term)
  BY <1>2 DEF BecomeFollower, VotesOnDisk, VotedOnce, RequestShape
<1> QED
  BY <1>1, <1>2

LEMMA VotesHold == Spec => []VotesOnDisk
<1>1. Init => VotesOnDisk
  BY DEF Init, VotesOnDisk, VotedOnce, RequestShape, Idle
<1>2. VotesOnDisk /\ [Next]_vars => VotesOnDisk'
  <2> SUFFICES ASSUME VotesOnDisk, [Next]_vars PROVE VotesOnDisk'
    OBVIOUS
  <2>1. ASSUME NEW term \in Term, NEW candidate \in Candidate,
               ReceiveVoteRequest(term, candidate)
        PROVE  VotesOnDisk'
    <3>1. RequestShape'
      BY <2>1 DEF ReceiveVoteRequest, RequestShape
    <3> QED
      BY <2>1, <3>1, FollowerKeepsVotes DEF ReceiveVoteRequest, history
  <2>2. ASSUME NEW lastTerm, NEW lastIndex, DenyVote(lastTerm, lastIndex)
        PROVE  VotesOnDisk'
    BY <2>2 DEF DenyVote, history, VotesOnDisk, VotedOnce, RequestShape, Idle
  <2>3. ASSUME NEW lastTerm, NEW lastIndex, GrantVote(lastTerm, lastIndex)
        PROVE  VotesOnDisk'
    <3> DEFINE new == [mem EXCEPT !.vote = request.candidate]
    <3>1. /\ request.candidate \in Candidate
          /\ mem.vote \in {Nil, request.candidate}
          /\ request' = Idle
          /\ \/ Write(new) /\ granted' = granted \cup {<<mem.term, request.candidate>>}
             \/ WriteFails(new) /\ UNCHANGED granted
      BY <2>3 DEF GrantVote, CanGrant, VotesOnDisk, RequestShape
    <3>2. /\ new = [term |-> new.term, vote |-> new.vote, log |-> new.log]
          /\ new.term = mem.term /\ new.term \in Nat
          /\ new.vote = request.candidate
      BY DEF VotesOnDisk
    <3>3. \A v \in granted : v[1] = mem.term => v[2] = request.candidate
      BY <3>1, NodeAssumption DEF VotesOnDisk
    <3> HIDE DEF new
    <3>4. CASE Write(new) /\ granted' = granted \cup {<<mem.term, request.candidate>>}
      BY <3>1, <3>2, <3>3, <3>4, NewVote
    <3>5. CASE WriteFails(new) /\ UNCHANGED granted
      BY <3>1, <3>2, <3>3, <3>5, KeepVotes
    <3> QED
      BY <3>1, <3>4, <3>5 DEF new
  <2>4. CASE StartElection
    <3> DEFINE new == [term |-> mem.term + 1, vote |-> Me, log |-> mem.log]
    <3>1. \/ Write(new) /\ granted' = granted \cup {<<new.term, Me>>}
          \/ WriteFails(new) /\ UNCHANGED granted
      BY <2>4 DEF StartElection
    <3>2. /\ new = [term |-> new.term, vote |-> new.vote, log |-> new.log]
          /\ new.term = mem.term + 1 /\ new.term \in Nat /\ mem.term <= new.term
          /\ new.vote = Me
      BY DEF VotesOnDisk
    <3>3. \A v \in granted : v[1] # new.term
      BY <3>2 DEF VotesOnDisk
    <3>4. request' = request
      BY <2>4 DEF StartElection
    <3> HIDE DEF new
    <3>5. CASE Write(new) /\ granted' = granted \cup {<<new.term, Me>>}
      BY <3>2, <3>3, <3>4, <3>5, NewVote
    <3>6. CASE WriteFails(new) /\ UNCHANGED granted
      BY <3>2, <3>3, <3>4, <3>6, KeepVotes
    <3> QED
      BY <3>1, <3>5, <3>6 DEF new
  <2>5. ASSUME NEW term \in Term, NEW prev, NEW last, ReceiveAppendEntries(term, prev, last)
        PROVE  VotesOnDisk'
    <3>1. RequestShape'
      BY <2>5 DEF ReceiveAppendEntries, RequestShape, Idle
    <3> QED
      BY <2>5, <3>1, FollowerKeepsVotes DEF ReceiveAppendEntries, history
  <2>6. CASE SkipEntry \/ Acknowledge
    <3>1. RequestShape'
      BY <2>6 DEF SkipEntry, Acknowledge, VotesOnDisk, RequestShape, Idle
    <3> QED
      BY <2>6, <3>1 DEF SkipEntry, Acknowledge, history, VotesOnDisk, VotedOnce, RequestShape
  <2>7. ASSUME NEW l,
               Write([mem EXCEPT !.log = l]) \/ WriteFails([mem EXCEPT !.log = l]),
               UNCHANGED granted, RequestShape'
        PROVE  VotesOnDisk'
    <3> DEFINE new == [mem EXCEPT !.log = l]
    <3>1. /\ new = [term |-> mem.term, vote |-> mem.vote, log |-> l]
          /\ mem' = new /\ disk' \in {new, disk}
      BY <2>7 DEF VotesOnDisk, Write, WriteFails
    <3> HIDE DEF new
    <3>2. /\ disk'.term <= mem'.term
          /\ disk.term <= disk'.term
      BY <3>1 DEF VotesOnDisk
    <3> QED
      BY <2>7, <3>1, <3>2 DEF VotesOnDisk, VotedOnce, RequestShape
  <2>8. CASE CutConflict
    <3>1. RequestShape'
      BY <2>8 DEF CutConflict, VotesOnDisk, RequestShape, Idle
    <3> QED
      BY <2>8, <3>1, <2>7 DEF CutConflict, WriteLog, history
  <2>9. CASE AppendEntry
    <3>1. RequestShape'
      BY <2>9 DEF AppendEntry, VotesOnDisk, RequestShape, Idle
    <3> QED
      BY <2>9, <3>1, <2>7 DEF AppendEntry, WriteLog, history
  <2>10. CASE Crash
    BY <2>10 DEF Crash, history, VotesOnDisk, VotedOnce, RequestShape, Idle
  <2>11. CASE UNCHANGED vars
    BY <2>11 DEF vars, history, VotesOnDisk, VotedOnce, RequestShape
  <2> QED
    BY <2>1, <2>2, <2>3, <2>4, <2>5, <2>6, <2>8, <2>9, <2>10, <2>11
    DEF Next, HandleRequestVote, HandleAppendEntries
<1> QED
  BY <1>1, <1>2, PTL DEF Spec

\* However many writes fail and however often the node restarts, it votes once in a
\* term (HandleRequestVote, startElection, becomeFollowerLocked).
THEOREM VoteSurvives == Spec => []VotedOnce
<1>1. VotesOnDisk => VotedOnce
  BY DEF VotesOnDisk
<1> QED
  BY <1>1, VotesHold, PTL
-------------------------------------------------------------------------------
EntriesUpTo(term) == [term : 0..term, index : Nat]

\* Memory and disk hold no entry beyond their own terms, nor does what is left of the
\* request beyond that of the memory.  That the last entry is not is no invariant by
\* itself: Truncate uncovers another one.
TermsBounded ==
  /\ \A t \in Term : leaderLog[t] \in Seq(EntriesUpTo(t))
  /\ \A s \in {mem, disk} : s.log \in Seq(EntriesUpTo(s.term))
  /\ request.type = "append" => request.entries \in Seq(EntriesUpTo(mem.term))

LEMMA LongerTerms ==
  ASSUME NEW t \in Nat, NEW u \in Nat, t <= u, NEW l \in Seq(EntriesUpTo(t))
  PROVE  l \in Seq(EntriesUpTo(u))
<1>1. EntriesUpTo(t) \subseteq EntriesUpTo(u)
  BY DEF EntriesUpTo
<1> QED
  BY <1>1, SeqMonotonic

\* What a piece of a log, its rest, a cut and an entry more are made of.
LEMMA LogPieces ==
  ASSUME NEW S, NEW l \in Seq(S)
  PROVE  /\ \A a \in 1..Len(l) + 1, b \in 0..Len(l) : SubSeq(l, a, b) \in Seq(S)
         /\ \A from : Truncate(l, from) \in Seq(S)
         /\ \A e \in S : Append(l, e) \in Seq(S)
         /\ l # <<>> => Head(l) \in S /\ Tail(l) \in Seq(S)
<1>1. ASSUME NEW a \in 1..Len(l) + 1, NEW b \in 0..Len(l)
      PROVE  SubSeq(l, a, b) \in Seq(S)
  BY SubSeqProperties
<1>2. ASSUME NEW from
      PROVE  Truncate(l, from) \in Seq(S)
  <2>1. CASE from \in 1..Len(l)
    <3>1. 1 \in 1..Len(l) + 1 /\ from - 1 \in 0..Len(l)
      BY <2>1
    <3> QED
      BY <1>1, <2>1, <3>1 DEF Truncate
  <2>2. CASE from \notin 1..Len(l)
    BY <2>2 DEF Truncate
  <2> QED
    BY <2>1, <2>2
<1> QED
  BY <1>1, <1>2

\* The storage's next state, in memory and, if the write succeeds, on disk.
LEMMA WriteWithinTerm ==
  ASSUME TermsBounded, UNCHANGED leaderLog,
         NEW new, Write(new) \/ WriteFails(new), new.log \in Seq(EntriesUpTo(new.term)),
         request'.type = "append" => request'.entries \in Seq(EntriesUpTo(new.term))
  PROVE  TermsBounded'
BY DEF TermsBounded, Write, WriteFails

\* becomeFollowerLocked, and the request that is taken up.
LEMMA FollowerWithinTerm ==
  ASSUME VotesOnDisk, TermsBounded, NEW term \in Term, term >= mem.term,
         BecomeFollower(term), UNCHANGED leaderLog,
         request'.type = "append" => request'.entries \in Seq(EntriesUpTo(term))
  PROVE  TermsBounded'
<1>1. term \in Nat /\ mem.term \in Nat
  BY NodeAssumption DEF Term, VotesOnDisk
<1>2. CASE term > mem.term
  <2>1. PICK new :
          /\ new = [mem EXCEPT !.term = term, !.vote = Nil]
          /\ Write(new) \/ WriteFails(new)
    BY <1>2 DEF BecomeFollower
  <2>2. new.log = mem.log /\ new.term = term
    <3>1. mem = [term |-> mem.term, vote |-> mem.vote, log |-> mem.log]
      BY DEF VotesOnDisk
    <3> QED
      BY <2>1, <3>1
  <2>3. new.log \in Seq(EntriesUpTo(new.term))
    BY <1>1, <1>2, <2>2, LongerTerms DEF TermsBounded
  <2> QED
    BY <2>1, <2>2, <2>3, WriteWithinTerm
<1>3. CASE ~(term > mem.term)
  <2>1. term = mem.term /\ mem' = mem /\ disk' = disk
    BY <1>1, <1>3 DEF BecomeFollower
  <2> QED
    BY <2>1 DEF TermsBounded
<1> QED
  BY <1>2, <1>3

\* No entry on disk is of a later term than the disk's own, although becomeFollowerLocked
\* drops the error of its write (SetTermAndVote and Append persist the whole state).
THEOREM TermSurvives == Spec => []EntriesWithinTerm
<1>1. Init => TermsBounded
  <2> SUFFICES ASSUME Init
               PROVE  TermsBounded
    OBVIOUS
  <2>1. ASSUME NEW t \in Term
        PROVE  leaderLog[t] \in Seq(EntriesUpTo(t))
    <3>1. t \in Nat /\ leaderLog[t] \in LogsUpTo(t)
      BY NodeAssumption DEF Init, Term
    <3>2. PICK n \in Nat :
            leaderLog[t] \in [1..n -> {Entry(u, k) : u \in 1..t, k \in 1..n}]
      <4> DEFINE logs(n) == [1..n -> {Entry(u, k) : u \in 1..t, k \in 1..n}]
      <4>1. leaderLog[t] \in UNION {logs(n) : n \in 0..MaxLength}
        BY <3>1 DEF LogsUpTo
      <4>2. 0..MaxLength \subseteq Nat
        BY NodeAssumption
      <4> HIDE DEF logs
      <4>3. \E n \in Nat : leaderLog[t] \in logs(n)
        BY <4>1, <4>2
      <4> QED
        BY <4>3 DEF logs
    <3>3. {Entry(u, k) : u \in 1..t, k \in 1..n} \subseteq EntriesUpTo(t)
      BY <3>1 DEF Entry, EntriesUpTo
    <3>4. \A k \in 1..n : leaderLog[t][k] \in EntriesUpTo(t)
      BY <3>2, <3>3
    <3> HIDE DEF EntriesUpTo
    <3>5. leaderLog[t] \in [1..n -> EntriesUpTo(t)]
      BY <3>2, <3>4
    <3> QED
      BY <3>5
  <2>2. mem.log = <<>> /\ disk.log = <<>> /\ request.type = "idle"
    BY DEF Init, Idle
  <2>3. \A t : <<>> \in Seq(EntriesUpTo(t))
    OBVIOUS
  <2> QED
    BY <2>1, <2>2, <2>3 DEF TermsBounded
<1>2. VotesOnDisk /\ TermsBounded /\ [Next]_vars => TermsBounded'
  <2> SUFFICES ASSUME VotesOnDisk, TermsBounded, [Next]_vars
               PROVE  TermsBounded'
    OBVIOUS
  <2>1. /\ mem.term \in Nat
        /\ mem = [term |-> mem.term, vote |-> mem.vote, log |-> mem.log]
        /\ mem.log \in Seq(EntriesUpTo(mem.term))
    BY DEF VotesOnDisk, TermsBounded
  <2>2. ASSUME NEW term \in Term, NEW candidate, ReceiveVoteRequest(term, candidate)
        PROVE  TermsBounded'
    BY <2>2, FollowerWithinTerm DEF ReceiveVoteRequest
  <2>3. ASSUME NEW lastTerm, NEW lastIndex, DenyVote(lastTerm, lastIndex)
        PROVE  TermsBounded'
    BY <2>3 DEF DenyVote, TermsBounded, Idle
  <2>4. ASSUME NEW lastTerm, NEW lastIndex, GrantVote(lastTerm, lastIndex)
        PROVE  TermsBounded'
    <3>1. PICK new :
            /\ new = [mem EXCEPT !.vote = request.candidate]
            /\ Write(new) \/ WriteFails(new)
      BY <2>4 DEF GrantVote
    <3>2. new.log = mem.log /\ new.term = mem.term
      BY <2>1, <3>1
    <3> QED
      BY <2>1, <2>4, <3>1, <3>2, WriteWithinTerm DEF GrantVote, Idle
  <2>5. CASE StartElection
    <3>1. PICK new :
            /\ new = [term |-> mem.term + 1, vote |-> Me, log |-> mem.log]
            /\ Write(new) \/ WriteFails(new)
      BY <2>5 DEF StartElection
    <3>2. new.log \in Seq(EntriesUpTo(new.term))
      BY <2>1, <3>1, LongerTerms
    <3> QED
      BY <2>5, <3>1, <3>2, WriteWithinTerm DEF StartElection, Idle
  <2>6. ASSUME NEW term \in Term, NEW last \in 0..Len(leaderLog[term]),
               NEW prev \in 0..last, ReceiveAppendEntries(term, prev, last)
        PROVE  TermsBounded'
    <3>1. leaderLog[term] \in Seq(EntriesUpTo(term))
      BY DEF TermsBounded
    <3>2. SubSeq(leaderLog[term], prev + 1, last) \in Seq(EntriesUpTo(term))
      <4>1. Len(leaderLog[term]) \in Nat
        BY <3>1
      <4>2. prev + 1 \in 1..Len(leaderLog[term]) + 1
        BY <4>1
      <4> QED
        BY <3>1, <4>2, LogPieces
    <3> QED
      BY <2>6, <3>2, FollowerWithinTerm DEF ReceiveAppendEntries, Idle
  <2>7. ASSUME request.type = "append", request.entries # <<>>
        PROVE  /\ request.entries \in Seq(EntriesUpTo(mem.term))
               /\ Head(request.entries) \in EntriesUpTo(mem.term)
               /\ Tail(request.entries) \in Seq(EntriesUpTo(mem.term))
               /\ [request EXCEPT !.entries = Tail(@)].entries = Tail(request.entries)
    <3>1. request.entries \in Seq(EntriesUpTo(mem.term))
      BY <2>7 DEF TermsBounded
    <3>2. [request EXCEPT !.entries = Tail(@)].entries = Tail(request.entries)
      BY <2>7 DEF VotesOnDisk, RequestShape
    <3> QED
      BY <2>7, <3>1, <3>2, LogPieces
  <2>8. CASE SkipEntry
    BY <2>7, <2>8 DEF SkipEntry, TermsBounded
  <2>9. ASSUME NEW l \in Seq(EntriesUpTo(mem.term)), UNCHANGED leaderLog,
               Write([mem EXCEPT !.log = l]) \/ WriteFails([mem EXCEPT !.log = l]),
               request'.type = "append" => request'.entries \in Seq(EntriesUpTo(mem.term))
        PROVE  TermsBounded'
    <3>1. PICK new :
            /\ new = [mem EXCEPT !.log = l]
            /\ Write(new) \/ WriteFails(new)
      BY <2>9
    <3>2. new.log = l /\ new.term = mem.term
      BY <2>1, <3>1
    <3> QED
      BY <2>9, <3>1, <3>2, WriteWithinTerm
  <2>10. CASE CutConflict
    <3>1. Truncate(mem.log, Head(request.entries).index) \in Seq(EntriesUpTo(mem.term))
      BY <2>1, LogPieces
    <3>2. request' \in {request, Idle}
      BY <2>10 DEF CutConflict
    <3>3. request'.type = "append" => request'.entries \in Seq(EntriesUpTo(mem.term))
      BY <3>2 DEF TermsBounded, Idle
    <3> QED
      BY <2>9, <2>10, <3>1, <3>3 DEF CutConflict, WriteLog
  <2>11. CASE AppendEntry
    <3>1. Append(mem.log, Head(request.entries)) \in Seq(EntriesUpTo(mem.term))
      BY <2>1, <2>7, <2>11, LogPieces DEF AppendEntry
    <3>2. request'.type = "append" => request'.entries \in Seq(EntriesUpTo(mem.term))
      <4>1. request' = [request EXCEPT !.entries = Tail(@)] \/ request' = Idle
        BY <2>11 DEF AppendEntry
      <4>2. [request EXCEPT !.entries = Tail(@)].entries \in Seq(EntriesUpTo(mem.term))
        BY <2>7, <2>11 DEF AppendEntry
      <4>3. Idle.type = "idle"
        BY DEF Idle
      <4> QED
        BY <4>1, <4>2, <4>3
    <3> QED
      BY <2>9, <2>11, <3>1, <3>2 DEF AppendEntry, WriteLog
  <2>12. CASE Acknowledge
    BY <2>12 DEF Acknowledge, TermsBounded, Idle
  <2>13. CASE Crash
    BY <2>13 DEF Crash, TermsBounded, Idle
  <2>14. CASE UNCHANGED vars
    BY <2>14 DEF vars, TermsBounded
  <2> QED
    BY <2>2, <2>3, <2>4, <2>5, <2>6, <2>8, <2>10, <2>11, <2>12, <2>13, <2>14
    DEF Next, HandleRequestVote, HandleAppendEntries
<1>3. VotesOnDisk /\ TermsBounded => EntriesWithinTerm
  <2> SUFFICES ASSUME VotesOnDisk, TermsBounded
               PROVE  EntriesWithinTerm
    OBVIOUS
  <2>1. PICK t \in Nat : t = disk.term
    BY DEF VotesOnDisk
  <2>2. PICK l \in Seq(EntriesUpTo(t)) : l = disk.log
    BY <2>1 DEF TermsBounded
  <2>3. l # <<>> => l[Len(l)] \in EntriesUpTo(t)
    BY <2>2
  <2>4. LastLogTerm(l) <= t
    BY <2>3 DEF LastLogTerm, EntriesUpTo
  <2> QED
    BY <2>1, <2>2, <2>4 DEF EntriesWithinTerm
<1> QED
  BY <1>1, <1>2, <1>3, VotesHold, PTL DEF Spec
===============================================================================
