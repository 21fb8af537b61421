------------------------------ MODULE RaftProofs ------------------------------
(***************************************************************************)
(* Raft for every cluster, every set of commands and every value of the    *)
(* bounds: type correctness, ElectionSafety and VoteOnce, HintIsElected    *)
(* and LogMatching, through crashes, restarts, lost and late vote replies  *)
(* and the late election timer.                                            *)
(*                                                                         *)
(* The types are not inductive alone: the store is fed log[i][k] for k up  *)
(* to commitIndex, and that the log reaches that far follows from the      *)
(* positions of the entries in a request, IndexIsPosition.                 *)
(*                                                                         *)
(* The argument for the elections is ElectionInv of RaftSafety.  Votes are *)
(* counted in memory and by goroutines that may outlive the election, so   *)
(* the invariant ties the counter of a candidate to the votes on disk: it  *)
(* never exceeds the number of voters whose ballot for this candidate and  *)
(* term exists and whose answer is no longer underway.                     *)
(*                                                                         *)
(* Logs are cut by conflicts and crashes, and a request may arrive when no *)
(* log holds what it was made from any more.  So the invariant for the     *)
(* logs, LedgerInv of RaftLedger, speaks of what the leaders had: every    *)
(* log is a beginning of one leader's, every request a piece of its        *)
(* leader's, and every entry comes from the leader of its term with all    *)
(* that was before it.                                                     *)
(***************************************************************************)
EXTENDS RaftLedger, RaftLogProofs, FiniteSetTheorems

(* The types.                                                              *)

TypeInv == TypeOK /\ IndexIsPosition

LEMMA EntryIsEntryOf == Entry = EntryOf(Command)
BY DEF Entry, EntryOf

\* The second half of the invariant in the terms of RaftLogProofs.
LEMMA PositionedLogs ==
  ASSUME TypeInv
  PROVE  /\ \A i \in Server : Positioned(log[i], 0)
         /\ \A m \in appendRequests : Positioned(m.entries, m.prevIndex)
BY DEF TypeInv, TypeOK, IndexIsPosition, Positioned, AppendRequest

LEMMA LastOfLog ==
  ASSUME NEW l \in Seq(Entry)
  PROVE  LastLogIndex(l) \in Nat /\ LastLogTerm(l) \in Nat
<1>1. CASE l = <<>>
  BY <1>1 DEF LastLogIndex, LastLogTerm
<1>2. CASE l # <<>>
  <2>1. Len(l) \in 1..Len(l)
    BY <1>2, EmptySeq
  <2>2. l[Len(l)] \in Entry
    BY <2>1
  <2> QED BY <1>2, <2>2 DEF LastLogIndex, LastLogTerm, Entry
<1> QED BY <1>1, <1>2

\* applyCommittedLocked feeds the store commands.
LEMMA ApplyType ==
  ASSUME NEW l \in Seq(Entry), NEW done \in Seq(Command), NEW commit \in Nat,
         commit <= Len(l)
  PROVE  done \o [k \in 1..(commit - Len(done)) |-> l[Len(done) + k].cmd] \in Seq(Command)
<1> DEFINE more == [k \in 1..(commit - Len(done)) |-> l[Len(done) + k].cmd]
<1>1. ASSUME NEW k \in 1..(commit - Len(done))
      PROVE  l[Len(done) + k].cmd \in Command
  <2>1. Len(done) + k \in 1..Len(l)
    OBVIOUS
  <2>2. l[Len(done) + k] \in Entry
    BY <2>1, ElementOfSeq
  <2> QED BY <2>2 DEF Entry
<1>2. commit - Len(done) \in Int
  OBVIOUS
<1>3. more \in [1..(commit - Len(done)) -> Command]
  BY <1>1
<1> HIDE DEF more
<1>4. more \in Seq(Command)
  BY <1>2, <1>3, FunctionIsSeq
<1>5. done \o more \in Seq(Command)
  BY <1>4
<1> QED BY <1>5 DEF more

\* The same for the history of commitments.
LEMMA NewlyType ==
  ASSUME TypeOK, NEW i \in Server, NEW commit \in Nat, commit <= Len(log[i])
  PROVE  chosen \o Newly(i, commit) \in Seq([entry : Entry, at : Nat])
<1> DEFINE R == [entry : Entry, at : Nat]
           more == [k \in 1..(commit - Len(chosen)) |->
                      [entry |-> log[i][Len(chosen) + k], at |-> currentTerm[i]]]
<1>1. \A k \in 1..(commit - Len(chosen)) :
        [entry |-> log[i][Len(chosen) + k], at |-> currentTerm[i]] \in R
  BY DEF TypeOK
<1>2. Len(chosen) \in Nat
  BY DEF TypeOK
<1>3. commit - Len(chosen) \in Int
  BY <1>2
<1>4. more \in [1..(commit - Len(chosen)) -> R]
  BY <1>1
<1>5. Newly(i, commit) = more
  BY DEF Newly
<1> HIDE DEF more
<1>6. more \in Seq(R)
  BY <1>3, <1>4, FunctionIsSeq
<1>7. chosen \in Seq(R)
  BY DEF TypeOK
<1> HIDE DEF R
<1>8. chosen \o more \in Seq(R)
  BY <1>6, <1>7
<1> QED BY <1>5, <1>8 DEF R

-------------------------------------------------------------------------------
(* One lemma per helper action of Raft: the types of what it writes.       *)

LEMMA BecomeFollowerType ==
  ASSUME TypeOK, NEW i \in Server, NEW term \in Nat, NEW leader \in Server \cup {Nil},
         BecomeFollower(i, term, leader)
  PROVE  /\ currentTerm' \in [Server -> Nat]
         /\ votedFor' \in [Server -> Server \cup {Nil}]
         /\ state' \in [Server -> {"Follower", "Candidate", "Leader"}]
         /\ currentLeader' \in [Server -> Server \cup {Nil}]
BY DEF BecomeFollower, SetTermAndVote, VoteIn, TypeOK

LEMMA BecomeLeaderType ==
  ASSUME TypeOK, NEW i \in Server, BecomeLeader(i)
  PROVE  /\ state' \in [Server -> {"Follower", "Candidate", "Leader"}]
         /\ currentLeader' \in [Server -> Server \cup {Nil}]
         /\ nextIndex' \in [Server -> [Server -> Nat]]
         /\ matchIndex' \in [Server -> [Server -> Nat]]
         /\ announced' \in [Server -> SUBSET Nat]
         /\ lateTimer' \in [Server -> BOOLEAN]
         /\ elected' \subseteq [term : Nat, node : Server]
<1>1. LastLogIndex(log[i]) + 1 \in Nat
  BY LastOfLog DEF TypeOK
<1> DEFINE fresh == [j \in Server |-> LastLogIndex(log[i]) + 1]
           none == [j \in Server |-> 0]
<1>2. fresh \in [Server -> Nat] /\ none \in [Server -> Nat]
  BY <1>1
<1>3. /\ nextIndex' = [nextIndex EXCEPT ![i] = fresh]
      /\ matchIndex' = [matchIndex EXCEPT ![i] = none]
  BY DEF BecomeLeader
<1> HIDE DEF fresh, none
<1>4. nextIndex' \in [Server -> [Server -> Nat]] /\ matchIndex' \in [Server -> [Server -> Nat]]
  BY <1>2, <1>3 DEF TypeOK
<1>5. /\ state' \in [Server -> {"Follower", "Candidate", "Leader"}]
      /\ currentLeader' \in [Server -> Server \cup {Nil}]
      /\ announced' \in [Server -> SUBSET Nat]
      /\ lateTimer' \in [Server -> BOOLEAN]
  BY DEF BecomeLeader, TypeOK
<1>6. elected' \subseteq [term : Nat, node : Server]
  BY DEF BecomeLeader, TypeOK
<1> QED BY <1>4, <1>5, <1>6

LEMMA AnswerVoteType ==
  ASSUME TypeOK, NEW m \in voteRequests, NEW term \in Nat, NEW granted \in BOOLEAN,
         AnswerVote(m, term, granted)
  PROVE  voteRequests' \subseteq VoteRequest /\ voteReplies' \subseteq VoteReply
<1>1. m \in VoteRequest
  BY DEF TypeOK
<1>2. [src |-> m.dst, dst |-> m.src, term |-> term, election |-> m.term,
       granted |-> granted] \in VoteReply
  BY <1>1 DEF VoteRequest, VoteReply
<1> QED BY <1>2 DEF AnswerVote, TypeOK

LEMMA AnswerAppendType ==
  ASSUME TypeOK, NEW m \in appendRequests, NEW term \in Nat, NEW success \in BOOLEAN,
         AnswerAppend(m, term, success)
  PROVE  appendRequests' \subseteq appendRequests /\ appendReplies' \subseteq AppendReply
<1>1. m \in AppendRequest
  BY DEF TypeOK
<1>2. m.prevIndex + Len(m.entries) \in Nat
  BY <1>1 DEF AppendRequest
<1>3. [src |-> m.dst, dst |-> m.src, term |-> term, call |-> m.term,
       match |-> IF success THEN m.prevIndex + Len(m.entries) ELSE 0,
       success |-> success] \in AppendReply
  BY <1>1, <1>2 DEF AppendRequest, AppendReply
<1> QED BY <1>3 DEF AnswerAppend, Take, TypeOK

LEMMA RebootType ==
  ASSUME TypeInv, NEW i \in Server, NEW pending \in SUBSET voteRequests, Reboot(i, pending)
  PROVE  /\ state' \in [Server -> {"Follower", "Candidate", "Leader"}]
         /\ currentLeader' \in [Server -> Server \cup {Nil}]
         /\ commitIndex' \in [Server -> Nat]
         /\ applied' \in [Server -> Seq(Command)]
         /\ nextIndex' \in [Server -> [Server -> Nat]]
         /\ matchIndex' \in [Server -> [Server -> Nat]]
         /\ votes' \in [Server -> Nat]
         /\ lateTimer' \in [Server -> BOOLEAN]
         /\ announced' \in [Server -> SUBSET Nat]
         /\ voteRequests' \subseteq VoteRequest
         /\ voteReplies' \subseteq VoteReply
         /\ appendRequests' \subseteq AppendRequest
         /\ appendReplies' \subseteq AppendReply
         /\ \A m \in appendRequests' : \A k \in DOMAIN m.entries :
              m.entries[k].index = m.prevIndex + k
         /\ crashes' \in Nat
<1> USE DEF TypeInv
<1>1. /\ state' \in [Server -> {"Follower", "Candidate", "Leader"}]
      /\ currentLeader' \in [Server -> Server \cup {Nil}]
      /\ commitIndex' \in [Server -> Nat]
      /\ votes' \in [Server -> Nat]
      /\ lateTimer' \in [Server -> BOOLEAN]
      /\ announced' \in [Server -> SUBSET Nat]
      /\ voteReplies' \subseteq VoteReply
      /\ appendReplies' \subseteq AppendReply
      /\ crashes' \in Nat
  BY DEF Reboot, TypeOK
<1>2. applied' \in [Server -> Seq(Command)]
  <2>1. <<>> \in Seq(Command)
    OBVIOUS
  <2> QED BY <2>1 DEF Reboot, TypeOK
<1>3. nextIndex' \in [Server -> [Server -> Nat]] /\ matchIndex' \in [Server -> [Server -> Nat]]
  <2>1. [j \in Server |-> 0] \in [Server -> Nat]
    OBVIOUS
  <2> QED BY <2>1 DEF Reboot, TypeOK
<1>4. voteRequests' \subseteq VoteRequest
  <2>1. \A m \in voteRequests : m \in VoteRequest /\ [m EXCEPT !.awaited = FALSE] \in VoteRequest
    BY DEF TypeOK, VoteRequest
  <2> QED BY <2>1 DEF Reboot, Abandon
<1>5. \A m \in appendRequests : m \in AppendRequest /\ [m EXCEPT !.awaited = FALSE] \in AppendRequest
  BY DEF TypeOK, AppendRequest
<1>6. appendRequests' \subseteq AppendRequest
  BY <1>5 DEF Reboot, Abandon, TypeOK
<1>7. ASSUME NEW m \in appendRequests'
      PROVE  \A k \in DOMAIN m.entries : m.entries[k].index = m.prevIndex + k
  <2>1. PICK old \in appendRequests : m = old \/ m = [old EXCEPT !.awaited = FALSE]
    BY DEF Reboot, Abandon
  <2>2. m.entries = old.entries /\ m.prevIndex = old.prevIndex
    BY <2>1 DEF TypeOK, AppendRequest
  <2> QED BY <2>2 DEF IndexIsPosition
<1> QED BY <1>1, <1>2, <1>3, <1>4, <1>6, <1>7

\* CommitAndApply keeps commitIndex and the stores typed as long as the log
\* reaches the new commit index.
LEMMA CommitAndApplyType ==
  ASSUME TypeOK, NEW i \in Server, NEW commit \in Nat, NEW l \in Seq(Entry),
         commit <= Len(l), CommitAndApply(i, commit, l)
  PROVE  commitIndex' \in [Server -> Nat] /\ applied' \in [Server -> Seq(Command)]
<1>1. applied[i] \o [k \in 1..(commit - Len(applied[i])) |-> l[Len(applied[i]) + k].cmd]
        \in Seq(Command)
  BY ApplyType DEF TypeOK
<1> QED BY <1>1 DEF CommitAndApply, TypeOK

LEMMA MaybeAdvanceType ==
  ASSUME TypeOK, NEW i \in Server, NEW match \in [Server -> Nat],
         MaybeAdvanceCommitIndex(i, match)
  PROVE  /\ commitIndex' \in [Server -> Nat]
         /\ applied' \in [Server -> Seq(Command)]
         /\ chosen' \in Seq([entry : Entry, at : Nat])
<1>1. CASE UNCHANGED <<machine, chosen>>
  BY <1>1 DEF machine, TypeOK
<1>2. ASSUME NEW N \in Committable(i, match),
             CommitAndApply(i, N, log[i]), chosen' = chosen \o Newly(i, N)
      PROVE  /\ commitIndex' \in [Server -> Nat]
             /\ applied' \in [Server -> Seq(Command)]
             /\ chosen' \in Seq([entry : Entry, at : Nat])
  <2>1. N \in Nat /\ N <= Len(log[i]) /\ log[i] \in Seq(Entry)
    BY DEF Committable, TypeOK
  <2>2. commitIndex' \in [Server -> Nat] /\ applied' \in [Server -> Seq(Command)]
    BY <1>2, <2>1, CommitAndApplyType
  <2>3. chosen' \in Seq([entry : Entry, at : Nat])
    BY <1>2, <2>1, NewlyType
  <2> QED BY <2>2, <2>3
<1> QED BY <1>1, <1>2 DEF MaybeAdvanceCommitIndex

-------------------------------------------------------------------------------
LEMMA TypeInit == Init => TypeInv
<1> SUFFICES ASSUME Init PROVE TypeInv
  OBVIOUS
<1>1. TypeOK
  BY DEF Init, TypeOK, VoteRequest, VoteReply, AppendRequest, AppendReply
<1>2. IndexIsPosition
  BY DEF Init, IndexIsPosition
<1> QED BY <1>1, <1>2 DEF TypeInv

LEMMA TypeStep == TypeInv /\ [Next]_vars => TypeInv'
<1> SUFFICES ASSUME TypeInv, [Next]_vars PROVE TypeInv'
  OBVIOUS
<1> USE DEF TypeInv, persistent, role, machine, leaderVars, goroutines, voteRPC, appendRPC,
            history
<1>1. ASSUME NEW i \in Server, StartElection(i)
      PROVE  TypeInv'
  <2>1. \A j \in Server :
          [src |-> i, dst |-> j, term |-> currentTerm[i] + 1,
           lastIndex |-> LastLogIndex(log[i]), lastTerm |-> LastLogTerm(log[i]),
           awaited |-> TRUE] \in VoteRequest
    <3>1. LastLogIndex(log[i]) \in Nat /\ LastLogTerm(log[i]) \in Nat
      BY LastOfLog DEF TypeOK
    <3>2. currentTerm[i] + 1 \in Nat
      BY DEF TypeOK
    <3> QED BY <3>1, <3>2 DEF VoteRequest
  <2>2. voteRequests' \subseteq VoteRequest
    BY <1>1, <2>1 DEF StartElection, TypeOK
  <2>3. ballots' \subseteq [term : Nat, voter : Server, candidate : Server]
    <3>1. currentTerm[i] + 1 \in Nat
      BY DEF TypeOK
    <3>2. [term |-> currentTerm[i] + 1, voter |-> i, candidate |-> i]
            \in [term : Nat, voter : Server, candidate : Server]
      BY <3>1
    <3> QED BY <1>1, <3>2 DEF StartElection, TypeOK
  <2>4. /\ currentTerm' \in [Server -> Nat]
        /\ votedFor' \in [Server -> Server \cup {Nil}]
        /\ state' \in [Server -> {"Follower", "Candidate", "Leader"}]
        /\ votes' \in [Server -> Nat]
        /\ lateTimer' \in [Server -> BOOLEAN]
    BY <1>1 DEF StartElection, SetTermAndVote, TypeOK
  <2> QED BY <1>1, <2>2, <2>3, <2>4 DEF StartElection, TypeOK, IndexIsPosition
<1>2. ASSUME NEW i \in Server, Broadcast(i)
      PROVE  TypeInv'
  BY <1>2 DEF Broadcast, TypeOK, IndexIsPosition
<1>3. ASSUME NEW i \in Server, NEW cmd \in Command, Propose(i, cmd)
      PROVE  TypeInv'
  <2> DEFINE e == [term |-> currentTerm[i], index |-> LastLogIndex(log[i]) + 1, cmd |-> cmd]
  <2>1. log[i] \in Seq(Entry) /\ \A k \in DOMAIN log[i] : log[i][k].index = k
    BY DEF TypeOK, IndexIsPosition
  <2>2. LastLogIndex(log[i]) = Len(log[i])
    <3>1. CASE log[i] = <<>>
      BY <3>1 DEF LastLogIndex
    <3>2. CASE log[i] # <<>>
      <4>1. Len(log[i]) \in DOMAIN log[i]
        BY <2>1, <3>2, EmptySeq
      <4> QED BY <2>1, <3>2, <4>1 DEF LastLogIndex
    <3> QED BY <3>1, <3>2
  <2>3. e \in Entry /\ e.index = Len(log[i]) + 1
    BY <2>1, <2>2 DEF TypeOK, Entry
  <2> HIDE DEF e
  <2>4. /\ Append(log[i], e) \in Seq(Entry)
        /\ \A k \in DOMAIN Append(log[i], e) : Append(log[i], e)[k].index = k
    BY <2>1, <2>3
  <2>5. log' = [log EXCEPT ![i] = Append(log[i], e)]
    BY <1>3 DEF Propose, e
  <2>6. log' \in [Server -> Seq(Entry)]
    BY <2>4, <2>5 DEF TypeOK
  <2>7. IndexIsPosition'
    BY <1>3, <2>4, <2>5 DEF Propose, TypeOK, IndexIsPosition
  <2> QED BY <1>3, <2>6, <2>7 DEF Propose, TypeOK
<1>4. ASSUME NEW i \in Server, NEW j \in Server \ {i}, NEW commit \in announced[i],
             ReplicateToPeer(i, j, commit)
      PROVE  TypeInv'
  <2> DEFINE next == IF nextIndex[i][j] = 0 THEN 1 ELSE nextIndex[i][j]
             rest == EntriesFrom(log[i], next)
             r == [src |-> i, dst |-> j, term |-> currentTerm[i],
                   prevIndex |-> next - 1, prevTerm |-> TermAt(log[i], next - 1),
                   entries |-> rest, commit |-> commit, awaited |-> TRUE]
  <2>1. next \in Nat \ {0}
    BY DEF TypeOK
  <2>2. log[i] \in Seq(Entry) /\ \A k \in DOMAIN log[i] : log[i][k].index = k
    BY DEF TypeOK, IndexIsPosition
  <2>3. TermAt(log[i], next - 1) \in Nat
    <3>1. CASE next - 1 \in 1..Len(log[i])
      <4>1. log[i][next - 1] \in Entry
        BY <2>2, <3>1, ElementOfSeq
      <4> QED BY <3>1, <4>1 DEF TermAt, Entry
    <3>2. CASE next - 1 \notin 1..Len(log[i])
      BY <3>2 DEF TermAt
    <3> QED BY <3>1, <3>2
  <2> HIDE DEF next
  <2>4. /\ rest \in Seq(Entry)
        /\ \A k \in DOMAIN rest : rest[k].index = (next - 1) + k
    <3>1. \A n \in next..Len(log[i]) : log[i][n] \in Entry /\ log[i][n].index = n
      BY <2>1, <2>2
    <3>2. /\ rest \in Seq(Entry)
          /\ Len(rest) = IF next <= Len(log[i]) THEN Len(log[i]) - next + 1 ELSE 0
          /\ \A k \in 1..(Len(log[i]) - next + 1) : rest[k] = log[i][next + k - 1]
      BY <2>1, <2>2, <3>1, SubSeqProperties DEF EntriesFrom
    <3> HIDE DEF rest
    <3>3. ASSUME NEW k \in DOMAIN rest
          PROVE  rest[k].index = (next - 1) + k
      <4>1. DOMAIN rest = 1..Len(rest) /\ Len(log[i]) \in Nat
        BY <2>2, <3>2
      <4>2. k \in 1..(Len(log[i]) - next + 1)
        BY <2>1, <3>2, <4>1
      <4>3. rest[k] = log[i][next + k - 1]
        BY <3>2, <4>2
      <4>4. next + k - 1 \in next..Len(log[i])
        BY <2>1, <4>1, <4>2
      <4>5. log[i][next + k - 1].index = next + k - 1
        BY <3>1, <4>4
      <4> QED BY <2>1, <4>2, <4>3, <4>5
    <3> QED BY <3>2, <3>3
  <2> HIDE DEF rest
  <2>5. r \in AppendRequest
    <3>1. currentTerm[i] \in Nat /\ commit \in Nat /\ next - 1 \in Nat
      BY <2>1 DEF TypeOK
    <3> QED BY <2>3, <2>4, <3>1 DEF AppendRequest
  <2>6. appendRequests' = appendRequests \cup {r}
    BY <1>4 DEF ReplicateToPeer, next, rest
  <2>7. IndexIsPosition'
    <3>1. \A k \in DOMAIN r.entries : r.entries[k].index = r.prevIndex + k
      BY <2>4
    <3> HIDE DEF r
    <3> QED BY <1>4, <2>6, <3>1 DEF ReplicateToPeer, IndexIsPosition
  <2> QED BY <1>4, <2>5, <2>6, <2>7 DEF ReplicateToPeer, TypeOK
<1>5. ASSUME NEW i \in Server, Crash(i)
      PROVE  TypeInv'
  BY <1>5, RebootType DEF Crash, TypeOK, IndexIsPosition
<1>6. ASSUME NEW m \in voteRequests, RejectStaleCandidate(m)
      PROVE  TypeInv'
  <2>1. currentTerm[m.dst] \in Nat
    BY DEF TypeOK, VoteRequest
  <2> QED BY <1>6, <2>1, AnswerVoteType DEF RejectStaleCandidate, TypeOK, IndexIsPosition
<1>7. ASSUME NEW m \in voteRequests, DenyVote(m)
      PROVE  TypeInv'
  <2>1. m.term \in Nat /\ m.dst \in Server
    BY DEF TypeOK, VoteRequest
  <2>2. /\ currentTerm' \in [Server -> Nat]
        /\ votedFor' \in [Server -> Server \cup {Nil}]
        /\ state' \in [Server -> {"Follower", "Candidate", "Leader"}]
        /\ currentLeader' \in [Server -> Server \cup {Nil}]
    BY <1>7, <2>1, BecomeFollowerType DEF DenyVote, TypeOK
  <2> QED BY <1>7, <2>1, <2>2, AnswerVoteType DEF DenyVote, TypeOK, IndexIsPosition
<1>8. ASSUME NEW m \in voteRequests, GrantVote(m)
      PROVE  TypeInv'
  <2>1. m.term \in Nat /\ m.dst \in Server /\ m.src \in Server
    BY DEF TypeOK, VoteRequest
  <2>2. /\ currentTerm' \in [Server -> Nat]
        /\ votedFor' \in [Server -> Server \cup {Nil}]
        /\ state' \in [Server -> {"Follower", "Candidate", "Leader"}]
        /\ currentLeader' \in [Server -> Server \cup {Nil}]
    BY <1>8, <2>1 DEF GrantVote, SetTermAndVote, TypeOK
  <2>3. ballots' \subseteq [term : Nat, voter : Server, candidate : Server]
    <3>1. [term |-> m.term, voter |-> m.dst, candidate |-> m.src]
            \in [term : Nat, voter : Server, candidate : Server]
      BY <2>1
    <3> QED BY <1>8, <3>1 DEF GrantVote, TypeOK
  <2> QED BY <1>8, <2>1, <2>2, <2>3, AnswerVoteType DEF GrantVote, TypeOK, IndexIsPosition
<1>9. ASSUME NEW m \in voteRequests, CrashBeforeVote(m)
      PROVE  TypeInv'
  <2>1. m.term \in Nat /\ m.dst \in Server
    BY DEF TypeOK, VoteRequest
  <2>2. currentTerm' \in [Server -> Nat] /\ votedFor' \in [Server -> Server \cup {Nil}]
    BY <1>9, <2>1 DEF CrashBeforeVote, SetTermAndVote, TypeOK
  <2>3. voteRequests \ {m} \in SUBSET voteRequests
    OBVIOUS
  <2> QED BY <1>9, <2>1, <2>2, <2>3, RebootType DEF CrashBeforeVote, TypeOK, IndexIsPosition
<1>10. ASSUME NEW m \in voteReplies, StepDownOnVoteReply(m)
      PROVE  TypeInv'
  <2>1. m.term \in Nat /\ m.dst \in Server
    BY DEF TypeOK, VoteReply
  <2> QED BY <1>10, <2>1, BecomeFollowerType DEF StepDownOnVoteReply, TypeOK, IndexIsPosition
<1>11. ASSUME NEW m \in voteReplies, IgnoreVoteReply(m)
      PROVE  TypeInv'
  BY <1>11 DEF IgnoreVoteReply, TypeOK, IndexIsPosition
<1>12. ASSUME NEW m \in voteReplies, CountVote(m)
      PROVE  TypeInv'
  <2>1. m.dst \in Server /\ votes' \in [Server -> Nat]
    <3>1. m.dst \in Server
      BY DEF TypeOK, VoteReply
    <3> QED BY <1>12, <3>1 DEF CountVote, TypeOK
  <2>2. CASE votes[m.dst] + 1 >= Majority
    BY <1>12, <2>1, <2>2, BecomeLeaderType DEF CountVote, TypeOK, IndexIsPosition
  <2>3. CASE ~ (votes[m.dst] + 1 >= Majority)
    BY <1>12, <2>1, <2>3 DEF CountVote, TypeOK, IndexIsPosition
  <2> QED BY <2>2, <2>3
<1>13. ASSUME NEW m \in appendRequests, RejectStaleLeader(m)
      PROVE  TypeInv'
  <2>1. currentTerm[m.dst] \in Nat
    BY DEF TypeOK, AppendRequest
  <2> QED BY <1>13, <2>1, AnswerAppendType DEF RejectStaleLeader, TypeOK, IndexIsPosition
<1>14. ASSUME NEW m \in appendRequests, RejectMismatch(m)
      PROVE  TypeInv'
  <2>1. m.term \in Nat /\ m.dst \in Server /\ m.src \in Server
    BY DEF TypeOK, AppendRequest
  <2> QED BY <1>14, <2>1, BecomeFollowerType, AnswerAppendType
          DEF RejectMismatch, TypeOK, IndexIsPosition
<1>15. ASSUME NEW m \in appendRequests, AcceptEntries(m)
      PROVE  TypeInv'
  <2> DEFINE l == IntegrateEntries(log[m.dst], m.entries)
             reach == m.prevIndex + Len(m.entries)
             commit == Smaller(m.commit, reach)
  <2>1. /\ m.term \in Nat /\ m.dst \in Server /\ m.src \in Server
        /\ m.prevIndex \in Nat /\ m.commit \in Nat /\ m.entries \in Seq(Entry)
    BY DEF TypeOK, AppendRequest
  <2>2. m.prevIndex \in 0..Len(log[m.dst])
    BY <1>15, <2>1 DEF AcceptEntries, PrevMatches, TermAt, TypeOK
  <2>3. /\ l \in Seq(Entry)
        /\ \A k \in DOMAIN l : l[k].index = k
        /\ Len(l) >= reach
    <3>1. log[m.dst] \in Seq(EntryOf(Command)) /\ m.entries \in Seq(EntryOf(Command))
      BY <2>1, EntryIsEntryOf DEF TypeOK
    <3>2. Positioned(log[m.dst], 0) /\ Positioned(m.entries, m.prevIndex)
      BY <2>1, PositionedLogs
    <3>3. /\ l \in Seq(EntryOf(Command))
          /\ Positioned(l, 0)
          /\ Len(l) >= reach
      BY <2>2, <3>1, <3>2, IntegrateEntriesLog
    <3> QED BY <3>3, EntryIsEntryOf DEF Positioned
  <2> HIDE DEF l
  <2>4. commit \in Nat /\ commit <= Len(l)
    BY <2>1, <2>3 DEF Smaller
  <2>5. log' = [log EXCEPT ![m.dst] = l]
    BY <1>15 DEF AcceptEntries, l
  <2>6. log' \in [Server -> Seq(Entry)] /\ \A i \in Server : \A k \in DOMAIN log'[i] : log'[i][k].index = k
    BY <2>3, <2>5 DEF TypeOK, IndexIsPosition
  <2>7. commitIndex' \in [Server -> Nat] /\ applied' \in [Server -> Seq(Command)]
    <3>1. CASE commit > commitIndex[m.dst]
      <4>1. CommitAndApply(m.dst, commit, l)
        BY <1>15, <3>1 DEF AcceptEntries, l
      <4> QED BY <2>1, <2>3, <2>4, <4>1, CommitAndApplyType
    <3>2. CASE ~ (commit > commitIndex[m.dst])
      BY <1>15, <3>2 DEF AcceptEntries, TypeOK
    <3> QED BY <3>1, <3>2
  <2>8. BecomeFollower(m.dst, m.term, m.src) /\ AnswerAppend(m, m.term, TRUE)
    BY <1>15 DEF AcceptEntries
  <2>9. appendRequests' \subseteq appendRequests /\ appendReplies' \subseteq AppendReply
    BY <2>1, <2>8, AnswerAppendType
  <2>10. /\ currentTerm' \in [Server -> Nat]
         /\ votedFor' \in [Server -> Server \cup {Nil}]
         /\ state' \in [Server -> {"Follower", "Candidate", "Leader"}]
         /\ currentLeader' \in [Server -> Server \cup {Nil}]
    BY <2>1, <2>8, BecomeFollowerType
  <2>11. UNCHANGED <<leaderVars, goroutines, voteRPC, history>>
    BY <1>15 DEF AcceptEntries
  <2>12. TypeOK'
    BY <2>6, <2>7, <2>9, <2>10, <2>11 DEF TypeOK
  <2>13. IndexIsPosition'
    BY <2>6, <2>9 DEF IndexIsPosition
  <2> QED BY <2>12, <2>13
<1>16. ASSUME NEW m \in appendRequests, CrashWhileAppending(m)
      PROVE  TypeInv'
  <2>1. /\ m.term \in Nat /\ m.dst \in Server
        /\ m.prevIndex \in Nat /\ m.entries \in Seq(Entry)
    BY DEF TypeOK, AppendRequest
  <2>2. m.prevIndex \in 0..Len(log[m.dst])
    BY <1>16, <2>1 DEF CrashWhileAppending, PrevMatches, TermAt, TypeOK
  <2>3. PICK l \in InterruptedIntegrations(log[m.dst], m.entries) :
          log' = [log EXCEPT ![m.dst] = l]
    BY <1>16 DEF CrashWhileAppending
  <2>4. l \in Seq(Entry) /\ \A k \in DOMAIN l : l[k].index = k
    <3>1. log[m.dst] \in Seq(EntryOf(Command)) /\ m.entries \in Seq(EntryOf(Command))
      BY <2>1, EntryIsEntryOf DEF TypeOK
    <3>2. Positioned(log[m.dst], 0) /\ Positioned(m.entries, m.prevIndex)
      BY <2>1, PositionedLogs
    <3>3. l \in Seq(EntryOf(Command)) /\ Positioned(l, 0)
      BY <2>2, <3>1, <3>2, InterruptedIntegrationsLog
    <3> QED BY <3>3, EntryIsEntryOf DEF Positioned
  <2>5. log' \in [Server -> Seq(Entry)] /\ \A i \in Server : \A k \in DOMAIN log'[i] : log'[i][k].index = k
    BY <2>3, <2>4 DEF TypeOK, IndexIsPosition
  <2>6. currentTerm' \in [Server -> Nat] /\ votedFor' \in [Server -> Server \cup {Nil}]
    BY <1>16, <2>1 DEF CrashWhileAppending, SetTermAndVote, VoteIn, TypeOK
  <2>7. Reboot(m.dst, voteRequests) /\ UNCHANGED <<ballots, elected, chosen>>
    BY <1>16 DEF CrashWhileAppending
  <2> QED BY <2>1, <2>5, <2>6, <2>7, RebootType DEF TypeOK, IndexIsPosition
<1>17. ASSUME NEW m \in appendRequests, LoseAppendRequest(m)
      PROVE  TypeInv'
  BY <1>17 DEF LoseAppendRequest, TypeOK, IndexIsPosition
<1>18. ASSUME NEW m \in appendReplies, StepDownOnAppendReply(m)
      PROVE  TypeInv'
  <2>1. m.term \in Nat /\ m.dst \in Server
    BY DEF TypeOK, AppendReply
  <2> QED BY <1>18, <2>1, BecomeFollowerType DEF StepDownOnAppendReply, Take, TypeOK, IndexIsPosition
<1>19. ASSUME NEW m \in appendReplies, IgnoreAppendReply(m)
      PROVE  TypeInv'
  BY <1>19 DEF IgnoreAppendReply, Take, TypeOK, IndexIsPosition
<1>20. ASSUME NEW m \in appendReplies, AdvancePeer(m)
      PROVE  TypeInv'
  <2> DEFINE known == matchIndex[m.dst][m.src]
             match == [matchIndex[m.dst] EXCEPT
                         ![m.src] = IF m.match > known THEN m.match ELSE known]
  <2>1. m.dst \in Server /\ m.src \in Server /\ m.match \in Nat
    BY DEF TypeOK, AppendReply
  <2>2. match \in [Server -> Nat]
    <3>1. matchIndex[m.dst] \in [Server -> Nat]
      BY <2>1 DEF TypeOK
    <3>2. (IF m.match > known THEN m.match ELSE known) \in Nat
      BY <2>1, <3>1
    <3> QED BY <3>1, <3>2
  <2> HIDE DEF match
  <2>3. /\ matchIndex' = [matchIndex EXCEPT ![m.dst] = match]
        /\ MaybeAdvanceCommitIndex(m.dst, match)
        /\ appendReplies' \subseteq appendReplies
    BY <1>20 DEF AdvancePeer, Take, match
  <2>4. nextIndex' \in [Server -> [Server -> Nat]]
    <3>1. nextIndex[m.dst] \in [Server -> Nat]
      BY <2>1 DEF TypeOK
    <3>2. [nextIndex[m.dst] EXCEPT ![m.src] = m.match + 1] \in [Server -> Nat]
      BY <2>1, <3>1
    <3>3. nextIndex' = [nextIndex EXCEPT ![m.dst] =
                          [nextIndex[m.dst] EXCEPT ![m.src] = m.match + 1]]
      BY <1>20, <2>1 DEF AdvancePeer, TypeOK
    <3> QED BY <3>2, <3>3 DEF TypeOK
  <2>5. matchIndex' \in [Server -> [Server -> Nat]]
    BY <2>2, <2>3 DEF TypeOK
  <2>6. /\ commitIndex' \in [Server -> Nat]
        /\ applied' \in [Server -> Seq(Command)]
        /\ chosen' \in Seq([entry : Entry, at : Nat])
    BY <2>1, <2>2, <2>3, MaybeAdvanceType
  <2>7. UNCHANGED <<persistent, role, goroutines, voteRPC, appendRequests, ballots, elected,
                    crashes>>
    BY <1>20 DEF AdvancePeer
  <2> QED BY <2>3, <2>4, <2>5, <2>6, <2>7 DEF TypeOK, IndexIsPosition
<1>21. ASSUME NEW m \in appendReplies, BackOff(m)
      PROVE  TypeInv'
  <2>1. m.dst \in Server /\ m.src \in Server
    BY DEF TypeOK, AppendReply
  <2>2. nextIndex' \in [Server -> [Server -> Nat]]
    <3> DEFINE old == nextIndex[m.dst][m.src]
               new == IF old > 1 THEN old - 1 ELSE old
    <3>1. nextIndex[m.dst] \in [Server -> Nat]
      BY <2>1 DEF TypeOK
    <3>2. new \in Nat
      BY <2>1, <3>1
    <3>3. nextIndex' = [nextIndex EXCEPT ![m.dst] = [nextIndex[m.dst] EXCEPT ![m.src] = new]]
      BY <1>21, <2>1 DEF BackOff, TypeOK
    <3> HIDE DEF new
    <3>4. [nextIndex[m.dst] EXCEPT ![m.src] = new] \in [Server -> Nat]
      BY <2>1, <3>1, <3>2
    <3> QED BY <3>3, <3>4 DEF TypeOK
  <2> QED BY <1>21, <2>2 DEF BackOff, Take, TypeOK, IndexIsPosition
<1>22. ASSUME NEW m \in appendReplies, LoseAppendReply(m)
      PROVE  TypeInv'
  BY <1>22 DEF LoseAppendReply, TypeOK, IndexIsPosition
<1>23. CASE UNCHANGED vars
  BY <1>23 DEF vars, TypeOK, IndexIsPosition
<1> QED
  BY <1>1, <1>2, <1>3, <1>4, <1>5, <1>6, <1>7, <1>8, <1>9, <1>10, <1>11, <1>12, <1>13, <1>14,
     <1>15, <1>16, <1>17, <1>18, <1>19, <1>20, <1>21, <1>22, <1>23
     DEF Next, NodeStep, HandleRequestVote, HandleVoteReply, HandleAppendEntries,
         HandleAppendReply

LEMMA TypesHold == Spec => []TypeInv
<1>1. Init => TypeInv
  BY TypeInit
<1>2. TypeInv /\ [Next]_vars => TypeInv'
  BY TypeStep
<1> QED BY <1>1, <1>2, PTL DEF Spec

\* Whatever the handlers of node.go do, in any order and with a crash anywhere, every
\* term, index, log and message has the type the code gives it: none of the unsigned
\* counters goes below zero and no handler reads behind the end of a log.
THEOREM TypeCorrect == Spec => []TypeOK
<1>1. TypeInv => TypeOK
  BY DEF TypeInv
<1> QED BY <1>1, TypesHold, PTL

\* In every log and every request the Index field of an entry is its position:
\* the truncation of integrateEntriesLocked, which searches by Index, cuts at the
\* place that LogTermAt and the slices of node.go mean.
THEOREM PositionsCorrect == Spec => []IndexIsPosition
<1>1. TypeInv => IndexIsPosition
  BY DEF TypeInv
<1> QED BY <1>1, TypesHold, PTL

-------------------------------------------------------------------------------
(* The elections.                                                          *)

\* Sets of servers are finite and their sizes are ordered as they are.
LEMMA ServerSets ==
  ASSUME NEW A, NEW B, A \subseteq B, B \subseteq Server
  PROVE  /\ IsFiniteSet(A)
         /\ IsFiniteSet(B)
         /\ Cardinality(A) \in Nat
         /\ Cardinality(B) \in Nat
         /\ Cardinality(A) <= Cardinality(B)
<1>1. IsFiniteSet(B)
  BY ServerAssumption, FS_Subset
<1>2. IsFiniteSet(A) /\ Cardinality(A) <= Cardinality(B)
  BY <1>1, FS_Subset
<1> QED BY <1>1, <1>2, FS_CardinalityType

\* Two majorities share a node.
LEMMA MajoritiesIntersect ==
  ASSUME NEW A, NEW B, A \subseteq Server, B \subseteq Server,
         Cardinality(A) >= Majority, Cardinality(B) >= Majority
  PROVE  \E v \in Server : v \in A /\ v \in B
<1>1. /\ Cardinality(Server) \in Nat
      /\ Cardinality(A) \in Nat
      /\ Cardinality(B) \in Nat
  BY ServerSets
<1>2. Cardinality(A) + Cardinality(B) > Cardinality(Server)
  BY <1>1 DEF Majority
<1>3. A \cap B # {}
  BY <1>2, ServerAssumption, FS_MajoritiesIntersect
<1> QED BY <1>3

LEMMA MajorityType == Majority \in Nat \ {0}
BY ServerAssumption, FS_CardinalityType DEF Majority

\* Supporters and Underway over given ballots and replies, so that their values
\* before and after a step can be compared.
SupportersIn(B, term, c) ==
  {v \in Server : [term |-> term, voter |-> v, candidate |-> c] \in B}

UnderwayIn(R, term, c) ==
  {v \in Server : \E m \in R :
     m.src = v /\ m.dst = c /\ m.election = term /\ m.granted}

CountedIn(B, R, term, c) == SupportersIn(B, term, c) \ UnderwayIn(R, term, c)

LEMMA VotesInvBefore ==
  VotesInv <=>
    \A i \in Server : state[i] = "Candidate" =>
      votes[i] <= Cardinality(CountedIn(ballots, voteReplies, currentTerm[i], i))
BY DEF VotesInv, CountedIn, SupportersIn, UnderwayIn, Supporters, Underway

LEMMA VotesInvAfter ==
  VotesInv' <=>
    \A i \in Server : state'[i] = "Candidate" =>
      votes'[i] <= Cardinality(CountedIn(ballots', voteReplies', currentTerm'[i], i))
BY DEF VotesInv, CountedIn, SupportersIn, UnderwayIn, Supporters, Underway

\* A counter stays covered while the votes that count do not shrink.
LEMMA CountedGrows ==
  ASSUME NEW B, NEW BB, NEW R, NEW RR, NEW term, NEW c, NEW n \in Nat,
         n <= Cardinality(CountedIn(B, R, term, c)),
         CountedIn(B, R, term, c) \subseteq CountedIn(BB, RR, term, c)
  PROVE  n <= Cardinality(CountedIn(BB, RR, term, c))
<1>1. CountedIn(BB, RR, term, c) \subseteq Server
  BY DEF CountedIn, SupportersIn
<1> QED BY <1>1, ServerSets

LEMMA ElectionInit == Init => ElectionInv
BY DEF Init, ElectionInv, VoteOnce, BallotInv, VoteRequestInv, VoteReplyInv, VotesInv,
       ElectedInv

-------------------------------------------------------------------------------
(* The steps that create no vote: all but StartElection, GrantVote and     *)
(* CountVote.                                                              *)

\* No node goes back, changes its vote within a term or starts a campaign.
VotersKept ==
  \A i \in Server :
    /\ currentTerm'[i] >= currentTerm[i]
    /\ currentTerm'[i] = currentTerm[i] => votedFor'[i] = votedFor[i]
    /\ state'[i] = "Candidate" =>
         /\ state[i] = "Candidate"
         /\ currentTerm'[i] = currentTerm[i]
         /\ votes'[i] = votes[i]

\* No favourable reply is new.
RepliesKept ==
  \A m \in voteReplies' :
    m \in voteReplies \/ (~m.granted /\ m.election <= currentTerm[m.dst])

\* No request is new, though a caller may have given up on it.
RequestsKept ==
  /\ \A m \in voteRequests' : \E old \in voteRequests :
       m = old \/ m = [old EXCEPT !.awaited = FALSE]
  /\ \A m, other \in voteRequests' :
       other.src = m.src /\ other.dst = m.dst /\ other.term = m.term => other = m

NoNewVote ==
  /\ UNCHANGED <<ballots, elected>>
  /\ VotersKept
  /\ RepliesKept
  /\ RequestsKept

LEMMA NoNewVoteStep ==
  ASSUME TypeOK, TypeOK', ElectionInv, NoNewVote
  PROVE  ElectionInv'
<1> USE DEF ElectionInv, NoNewVote, VotersKept, RepliesKept, RequestsKept
<1>1. \A t, c : Supporters(t, c)' = Supporters(t, c)
  BY DEF Supporters
<1>2. VoteOnce'
  BY DEF VoteOnce
<1>3. BallotInv'
  <2> SUFFICES ASSUME NEW b \in ballots
               PROVE  /\ b.term <= currentTerm'[b.voter]
                      /\ b.term <= currentTerm'[b.candidate]
                      /\ b.term = currentTerm'[b.voter] => votedFor'[b.voter] = b.candidate
    BY DEF BallotInv
  <2>1. b.voter \in Server /\ b.candidate \in Server /\ b.term \in Nat
    BY DEF TypeOK
  <2>2. /\ b.term <= currentTerm[b.voter]
        /\ b.term <= currentTerm[b.candidate]
        /\ b.term = currentTerm[b.voter] => votedFor[b.voter] = b.candidate
    BY DEF BallotInv
  <2>3. /\ currentTerm[b.voter] \in Nat /\ currentTerm'[b.voter] \in Nat
        /\ currentTerm[b.candidate] \in Nat /\ currentTerm'[b.candidate] \in Nat
    BY <2>1 DEF TypeOK
  <2>4. /\ currentTerm'[b.voter] >= currentTerm[b.voter]
        /\ currentTerm'[b.candidate] >= currentTerm[b.candidate]
        /\ currentTerm'[b.voter] = currentTerm[b.voter] => votedFor'[b.voter] = votedFor[b.voter]
    BY <2>1
  <2> QED BY <2>1, <2>2, <2>3, <2>4
<1>4. VoteRequestInv'
  <2> SUFFICES ASSUME NEW m \in voteRequests'
               PROVE  /\ m.term <= currentTerm'[m.src]
                      /\ m.awaited => m.dst \notin Supporters(m.term, m.src)
    BY <1>1 DEF VoteRequestInv
  <2>1. PICK old \in voteRequests : m = old \/ m = [old EXCEPT !.awaited = FALSE]
    OBVIOUS
  <2>2. /\ m.term = old.term /\ m.src = old.src /\ m.dst = old.dst
        /\ m.awaited => old.awaited
        /\ old.src \in Server /\ old.term \in Nat
    BY <2>1 DEF TypeOK, VoteRequest
  <2>3. /\ old.term <= currentTerm[old.src]
        /\ old.awaited => old.dst \notin Supporters(old.term, old.src)
    BY DEF VoteRequestInv
  <2>4. currentTerm[old.src] \in Nat /\ currentTerm'[old.src] \in Nat
    BY <2>2 DEF TypeOK
  <2>5. currentTerm'[old.src] >= currentTerm[old.src]
    BY <2>2
  <2> QED BY <2>2, <2>3, <2>4, <2>5
<1>5. VoteReplyInv'
  <2> SUFFICES ASSUME NEW m \in voteReplies'
               PROVE  /\ m.election <= currentTerm'[m.dst]
                      /\ m.granted => m.term = m.election /\ m.src \in Supporters(m.election, m.dst)
    BY <1>1 DEF VoteReplyInv
  <2>1. m.dst \in Server /\ m.election \in Nat
    BY DEF TypeOK, VoteReply
  <2>2. currentTerm[m.dst] \in Nat /\ currentTerm'[m.dst] \in Nat
    BY <2>1 DEF TypeOK
  <2>3. currentTerm'[m.dst] >= currentTerm[m.dst]
    BY <2>1
  <2>4. CASE m \in voteReplies
    BY <2>1, <2>2, <2>3, <2>4 DEF VoteReplyInv
  <2>5. CASE ~m.granted /\ m.election <= currentTerm[m.dst]
    BY <2>1, <2>2, <2>3, <2>5
  <2> QED BY <2>4, <2>5
<1>6. VotesInv'
  <2> SUFFICES ASSUME NEW i \in Server, state'[i] = "Candidate"
               PROVE  votes'[i] <=
                        Cardinality(CountedIn(ballots', voteReplies', currentTerm'[i], i))
    BY VotesInvAfter
  <2>1. state[i] = "Candidate" /\ currentTerm'[i] = currentTerm[i] /\ votes'[i] = votes[i]
    OBVIOUS
  <2>2. votes[i] <= Cardinality(CountedIn(ballots, voteReplies, currentTerm[i], i))
    BY <2>1, VotesInvBefore
  <2>3. CountedIn(ballots, voteReplies, currentTerm[i], i)
          \subseteq CountedIn(ballots', voteReplies', currentTerm[i], i)
    BY DEF CountedIn, SupportersIn, UnderwayIn
  <2>4. votes[i] \in Nat
    BY DEF TypeOK
  <2> QED BY <2>1, <2>2, <2>3, <2>4, CountedGrows
<1>7. ElectedInv'
  BY <1>1 DEF ElectedInv, Majority
<1> QED BY <1>2, <1>3, <1>4, <1>5, <1>6, <1>7

-------------------------------------------------------------------------------
(* The three steps that do.                                                *)

\* A vote is persisted: v, in a term it has not voted in for another, votes c.
\* What it means for the ballots alone.
LEMMA BallotAdded ==
  ASSUME TypeOK, TypeOK', VoteOnce, BallotInv, ElectedInv,
         NEW t \in Nat, NEW v \in Server, NEW c \in Server,
         currentTerm[v] <= t,
         currentTerm[v] = t => votedFor[v] \in {Nil, c},
         currentTerm'[v] = t, votedFor'[v] = c, t <= currentTerm'[c],
         \A j \in Server \ {v} : currentTerm'[j] = currentTerm[j] /\ votedFor'[j] = votedFor[j],
         ballots' = ballots \cup {[term |-> t, voter |-> v, candidate |-> c]},
         elected' = elected
  PROVE  /\ VoteOnce'
         /\ BallotInv'
         /\ ElectedInv'
         /\ \A b \in ballots : b.voter = v /\ b.term = t => b.candidate = c
<1> DEFINE new == [term |-> t, voter |-> v, candidate |-> c]
<1>1. /\ new.term = t /\ new.voter = v /\ new.candidate = c
      /\ ballots' = ballots \cup {new}
  OBVIOUS
<1> HIDE DEF new
<1>2. ASSUME NEW b \in ballots
      PROVE  /\ b.term \in Nat /\ b.voter \in Server /\ b.candidate \in Server
             /\ b.term <= currentTerm[b.voter]
             /\ b.term <= currentTerm[b.candidate]
             /\ b.term = currentTerm[b.voter] => votedFor[b.voter] = b.candidate
  BY DEF TypeOK, BallotInv
<1>3. ASSUME NEW j \in Server
      PROVE  /\ currentTerm[j] \in Nat
             /\ currentTerm'[j] \in Nat
             /\ currentTerm[j] <= currentTerm'[j]
  <2>1. currentTerm[j] \in Nat /\ currentTerm'[j] \in Nat
    BY DEF TypeOK
  <2>2. CASE j = v
    BY <2>1, <2>2
  <2>3. CASE j # v
    BY <2>1, <2>3
  <2> QED BY <2>1, <2>2, <2>3
<1>4. ASSUME NEW b \in ballots, b.voter = v, b.term = t
      PROVE  b.candidate = c
  <2>1. /\ t <= currentTerm[v]
        /\ t = currentTerm[v] => votedFor[v] = b.candidate
        /\ b.candidate \in Server
    BY <1>2, <1>4
  <2>2. currentTerm[v] \in Nat
    BY <1>3
  <2> QED BY <2>1, <2>2, NilAssumption
<1>5. VoteOnce'
  <2> SUFFICES ASSUME NEW a \in ballots', NEW b \in ballots', a.term = b.term, a.voter = b.voter
               PROVE  a.candidate = b.candidate
    BY DEF VoteOnce
  <2>1. CASE a \in ballots /\ b \in ballots
    BY <2>1 DEF VoteOnce
  <2>2. CASE a = new \/ b = new
    BY <1>1, <1>4, <2>2
  <2> QED BY <1>1, <2>1, <2>2
<1>6. BallotInv'
  <2> SUFFICES ASSUME NEW b \in ballots'
               PROVE  /\ b.term <= currentTerm'[b.voter]
                      /\ b.term <= currentTerm'[b.candidate]
                      /\ b.term = currentTerm'[b.voter] => votedFor'[b.voter] = b.candidate
    BY DEF BallotInv
  <2>1. CASE b = new
    BY <1>1, <2>1
  <2>2. CASE b \in ballots
    <3>1. /\ b.term \in Nat /\ b.voter \in Server /\ b.candidate \in Server
          /\ b.term <= currentTerm[b.voter]
          /\ b.term <= currentTerm[b.candidate]
          /\ b.term = currentTerm[b.voter] => votedFor[b.voter] = b.candidate
      BY <1>2, <2>2
    <3>2. /\ currentTerm[b.voter] <= currentTerm'[b.voter]
          /\ currentTerm[b.candidate] <= currentTerm'[b.candidate]
          /\ currentTerm[b.voter] \in Nat /\ currentTerm'[b.voter] \in Nat
          /\ currentTerm[b.candidate] \in Nat /\ currentTerm'[b.candidate] \in Nat
      BY <1>3, <3>1
    <3>3. /\ b.term <= currentTerm'[b.voter]
          /\ b.term <= currentTerm'[b.candidate]
      BY <3>1, <3>2
    <3>4. CASE b.voter = v
      BY <1>4, <2>2, <3>3, <3>4
    <3>5. CASE b.voter # v
      <4>1. currentTerm'[b.voter] = currentTerm[b.voter] /\ votedFor'[b.voter] = votedFor[b.voter]
        BY <3>1, <3>5
      <4> QED BY <3>1, <3>3, <4>1
    <3> QED BY <3>4, <3>5
  <2> QED BY <1>1, <2>1, <2>2
<1>7. ElectedInv'
  <2> SUFFICES ASSUME NEW e \in elected
               PROVE  Cardinality(SupportersIn(ballots', e.term, e.node)) >= Majority
    BY DEF ElectedInv, Supporters, SupportersIn, Majority
  <2>1. Cardinality(SupportersIn(ballots, e.term, e.node)) >= Majority
    BY DEF ElectedInv, Supporters, SupportersIn
  <2>2. /\ SupportersIn(ballots, e.term, e.node) \subseteq SupportersIn(ballots', e.term, e.node)
        /\ SupportersIn(ballots', e.term, e.node) \subseteq Server
    BY <1>1 DEF SupportersIn
  <2>3. /\ Cardinality(SupportersIn(ballots, e.term, e.node)) \in Nat
        /\ Cardinality(SupportersIn(ballots', e.term, e.node)) \in Nat
        /\ Cardinality(SupportersIn(ballots, e.term, e.node))
             <= Cardinality(SupportersIn(ballots', e.term, e.node))
    BY <2>2, ServerSets
  <2> QED BY <2>1, <2>3, MajorityType
<1> QED BY <1>4, <1>5, <1>6, <1>7

LEMMA StartElectionStep ==
  ASSUME TypeOK, TypeOK', ElectionInv, NEW i \in Server, StartElection(i),
         NEW t, t = currentTerm[i] + 1
  PROVE  ElectionInv'
<1> USE DEF ElectionInv
<1>1. /\ currentTerm' = [currentTerm EXCEPT ![i] = t]
      /\ votedFor' = [votedFor EXCEPT ![i] = i]
      /\ state' = [state EXCEPT ![i] = "Candidate"]
      /\ votes' = [votes EXCEPT ![i] = 1]
      /\ ballots' = ballots \cup {[term |-> t, voter |-> i, candidate |-> i]}
      /\ voteReplies' = voteReplies
      /\ elected' = elected
  BY DEF StartElection, SetTermAndVote, voteRPC
<1>2. currentTerm[i] \in Nat /\ t \in Nat /\ currentTerm[i] < t
  <2>1. currentTerm[i] \in Nat
    BY DEF TypeOK
  <2> QED BY <2>1
<1>3. /\ currentTerm'[i] = t /\ votedFor'[i] = i /\ votes'[i] = 1
      /\ \A j \in Server \ {i} : /\ currentTerm'[j] = currentTerm[j]
                                 /\ votedFor'[j] = votedFor[j]
                                 /\ state'[j] = state[j]
                                 /\ votes'[j] = votes[j]
  BY <1>1 DEF TypeOK
<1>4. VoteOnce' /\ BallotInv' /\ ElectedInv'
  BY <1>1, <1>2, <1>3, BallotAdded
<1>5. ASSUME NEW j \in Server, NEW term \in Nat, term <= currentTerm[j]
      PROVE  term <= currentTerm'[j] /\ (j = i => term # t)
  <2>1. CASE j = i
    BY <1>2, <1>3, <1>5, <2>1
  <2>2. CASE j # i
    BY <1>3, <1>5, <2>2
  <2> QED BY <2>1, <2>2
<1>6. ASSUME NEW m \in voteRequests' PROVE m \in voteRequests \/ (m.src = i /\ m.term = t /\ m.dst \in Server \ {i})
  BY <1>6 DEF StartElection
<1>7. VoteRequestInv'
  <2> SUFFICES ASSUME NEW m \in voteRequests'
               PROVE  /\ m.term <= currentTerm'[m.src]
                      /\ m.awaited => m.dst \notin SupportersIn(ballots', m.term, m.src)
                      /\ \A other \in voteRequests' :
                           other.src = m.src /\ other.dst = m.dst /\ other.term = m.term
                             => other = m
    BY DEF VoteRequestInv, Supporters, SupportersIn
  <2>1. ASSUME NEW r \in voteRequests
        PROVE  /\ r.term <= currentTerm'[r.src]
               /\ r.src = i => r.term # t
    <3>1. r.term \in Nat /\ r.src \in Server /\ r.term <= currentTerm[r.src]
      BY DEF TypeOK, VoteRequest, VoteRequestInv
    <3> QED BY <1>5, <3>1
  <2>2. m.term <= currentTerm'[m.src]
    BY <1>2, <1>3, <1>6, <2>1
  <2>3. ASSUME m.awaited, m.dst \in SupportersIn(ballots', m.term, m.src)
        PROVE  FALSE
    <3>1. [term |-> m.term, voter |-> m.dst, candidate |-> m.src] \in ballots'
      BY <2>3 DEF SupportersIn
    <3>2. CASE m \in voteRequests
      <4>1. m.dst \in Server
        BY <3>2 DEF TypeOK, VoteRequest
      <4>2. m.dst \notin SupportersIn(ballots, m.term, m.src)
        BY <2>3, <3>2 DEF VoteRequestInv, Supporters, SupportersIn
      <4>3. [term |-> m.term, voter |-> m.dst, candidate |-> m.src] \notin ballots
        BY <4>1, <4>2 DEF SupportersIn
      <4>4. m.term = t /\ m.src = i
        BY <1>1, <3>1, <4>3
      <4> QED BY <2>1, <3>2, <4>4
    <3>3. CASE m.src = i /\ m.term = t /\ m.dst \in Server \ {i}
      <4>1. [term |-> t, voter |-> m.dst, candidate |-> i] \in ballots
        BY <1>1, <3>1, <3>3
      <4>2. t <= currentTerm[i]
        BY <4>1 DEF BallotInv
      <4> QED BY <1>2, <4>2
    <3> QED BY <1>6, <3>2, <3>3
  <2>4. ASSUME NEW other \in voteRequests',
               other.src = m.src, other.dst = m.dst, other.term = m.term
        PROVE  other = m
    <3>1. CASE m \in voteRequests /\ other \in voteRequests
      BY <2>4, <3>1 DEF VoteRequestInv
    <3>2. CASE m.src = i /\ m.term = t
      <4>1. m \notin voteRequests /\ other \notin voteRequests
        BY <2>1, <2>4, <3>2
      <4>2. ASSUME NEW r \in voteRequests', r \notin voteRequests
            PROVE  r = [src |-> i, dst |-> r.dst, term |-> t,
                        lastIndex |-> LastLogIndex(log[i]), lastTerm |-> LastLogTerm(log[i]),
                        awaited |-> TRUE]
        BY <4>2 DEF StartElection
      <4> QED BY <2>4, <4>1, <4>2
    <3>3. CASE other.src = i /\ other.term = t
      BY <2>4, <3>2, <3>3
    <3> QED BY <1>6, <3>1, <3>2, <3>3
  <2> QED BY <2>2, <2>3, <2>4
<1>8. ASSUME NEW m \in voteReplies
      PROVE  m.election <= currentTerm'[m.dst] /\ (m.dst = i => m.election # t)
  <2>1. m.dst \in Server /\ m.election \in Nat /\ m.election <= currentTerm[m.dst]
    BY DEF TypeOK, VoteReply, VoteReplyInv
  <2> QED BY <1>5, <2>1
<1>9. VoteReplyInv'
  <2> SUFFICES ASSUME NEW m \in voteReplies, m.granted
               PROVE  m.term = m.election
                        /\ m.src \in SupportersIn(ballots', m.election, m.dst)
    BY <1>1, <1>8 DEF VoteReplyInv, Supporters, SupportersIn
  <2>1. m.term = m.election /\ m.src \in SupportersIn(ballots, m.election, m.dst)
    BY DEF VoteReplyInv, Supporters, SupportersIn
  <2> QED BY <1>1, <2>1 DEF SupportersIn
<1>10. VotesInv'
  <2> SUFFICES ASSUME NEW j \in Server, state'[j] = "Candidate"
               PROVE  votes'[j] <=
                        Cardinality(CountedIn(ballots', voteReplies', currentTerm'[j], j))
    BY VotesInvAfter
  <2>1. CASE j = i
    <3>1. UnderwayIn(voteReplies, t, i) = {}
      BY <1>8 DEF UnderwayIn
    <3>2. {i} \subseteq CountedIn(ballots', voteReplies, t, i)
      BY <1>1, <3>1 DEF CountedIn, SupportersIn
    <3>3. CountedIn(ballots', voteReplies, t, i) \subseteq Server
      BY DEF CountedIn, SupportersIn
    <3>4. Cardinality({i}) = 1
      BY FS_Singleton
    <3>5. Cardinality({i}) <= Cardinality(CountedIn(ballots', voteReplies, t, i))
      BY <3>2, <3>3, ServerSets
    <3> QED BY <1>1, <1>3, <2>1, <3>4, <3>5
  <2>2. CASE j # i
    <3>1. state[j] = "Candidate" /\ votes'[j] = votes[j] /\ currentTerm'[j] = currentTerm[j]
      BY <1>3, <2>2
    <3>2. votes[j] <= Cardinality(CountedIn(ballots, voteReplies, currentTerm[j], j))
      BY <3>1, VotesInvBefore
    <3>3. CountedIn(ballots, voteReplies, currentTerm[j], j)
            \subseteq CountedIn(ballots', voteReplies', currentTerm[j], j)
      BY <1>1 DEF CountedIn, SupportersIn
    <3>4. votes[j] \in Nat
      BY DEF TypeOK
    <3> QED BY <3>1, <3>2, <3>3, <3>4, CountedGrows
  <2> QED BY <2>1, <2>2
<1> QED BY <1>4, <1>7, <1>9, <1>10
LEMMA GrantVoteStep ==
  ASSUME TypeOK, TypeOK', ElectionInv, NEW m \in voteRequests, GrantVote(m),
         NEW t, NEW v, NEW c, t = m.term, v = m.dst, c = m.src
  PROVE  ElectionInv'
<1> USE DEF ElectionInv
<1>1. /\ t \in Nat /\ v \in Server /\ c \in Server
      /\ currentTerm[v] \in Nat /\ currentTerm[c] \in Nat
  <2>1. t \in Nat /\ v \in Server /\ c \in Server
    BY DEF TypeOK, VoteRequest
  <2> QED BY <2>1 DEF TypeOK
<1>2. /\ currentTerm[v] <= t
      /\ currentTerm[v] = t => votedFor[v] \in {Nil, c}
      /\ currentTerm' = [currentTerm EXCEPT ![v] = t]
      /\ votedFor' = [votedFor EXCEPT ![v] = c]
      /\ ballots' = ballots \cup {[term |-> t, voter |-> v, candidate |-> c]}
      /\ elected' = elected
      /\ votes' = votes
  BY <1>1 DEF GrantVote, CanGrant, VoteIn, SetTermAndVote, goroutines
<1>3. /\ currentTerm'[v] = t /\ votedFor'[v] = c
      /\ \A j \in Server \ {v} : currentTerm'[j] = currentTerm[j] /\ votedFor'[j] = votedFor[j]
  BY <1>1, <1>2 DEF TypeOK
<1>4. ASSUME NEW j \in Server, NEW term \in Nat, term <= currentTerm[j]
      PROVE  term <= currentTerm'[j]
  <2>1. CASE j = v
    BY <1>1, <1>2, <1>3, <1>4, <2>1
  <2>2. CASE j # v
    BY <1>3, <1>4, <2>2
  <2> QED BY <2>1, <2>2
<1>5. t <= currentTerm'[c]
  <2>1. t <= currentTerm[c]
    BY DEF VoteRequestInv
  <2> QED BY <1>1, <1>4, <2>1
<1>6. VoteOnce' /\ BallotInv' /\ ElectedInv'
  BY <1>1, <1>2, <1>3, <1>5, BallotAdded
<1>7. VoteRequestInv'
  <2>1. voteRequests' = voteRequests \ {m}
    BY DEF GrantVote, AnswerVote
  <2> SUFFICES ASSUME NEW r \in voteRequests, r # m
               PROVE  /\ r.term <= currentTerm'[r.src]
                      /\ r.awaited => r.dst \notin SupportersIn(ballots', r.term, r.src)
                      /\ \A other \in voteRequests :
                           other.src = r.src /\ other.dst = r.dst /\ other.term = r.term
                             => other = r
    BY <2>1 DEF VoteRequestInv, Supporters, SupportersIn
  <2>2. r.term \in Nat /\ r.src \in Server /\ r.dst \in Server
    BY DEF TypeOK, VoteRequest
  <2>3. /\ r.term <= currentTerm[r.src]
        /\ r.awaited => r.dst \notin SupportersIn(ballots, r.term, r.src)
        /\ \A other \in voteRequests :
             other.src = r.src /\ other.dst = r.dst /\ other.term = r.term => other = r
    BY DEF VoteRequestInv, Supporters, SupportersIn
  <2>4. [term |-> r.term, voter |-> r.dst, candidate |-> r.src]
          # [term |-> t, voter |-> v, candidate |-> c]
    <3>1. ~(m.src = r.src /\ m.dst = r.dst /\ m.term = r.term)
      BY <2>3
    <3> QED BY <3>1
  <2>5. r.awaited => r.dst \notin SupportersIn(ballots', r.term, r.src)
    BY <1>2, <2>2, <2>3, <2>4 DEF SupportersIn
  <2> QED BY <1>4, <2>2, <2>3, <2>5
<1> DEFINE answer == [src |-> v, dst |-> c, term |-> t, election |-> t, granted |-> TRUE]
<1>8. /\ answer.src = v /\ answer.dst = c /\ answer.term = t
      /\ answer.election = t /\ answer.granted
      /\ voteReplies' = IF m.awaited THEN voteReplies \cup {answer} ELSE voteReplies
  BY DEF GrantVote, AnswerVote
<1> HIDE DEF answer
<1>9. VoteReplyInv'
  <2> SUFFICES ASSUME NEW r \in voteReplies'
               PROVE  /\ r.election <= currentTerm'[r.dst]
                      /\ r.granted => r.term = r.election
                                        /\ r.src \in SupportersIn(ballots', r.election, r.dst)
    BY DEF VoteReplyInv, Supporters, SupportersIn
  <2>1. CASE r \in voteReplies
    <3>1. r.dst \in Server /\ r.election \in Nat
      BY <2>1 DEF TypeOK, VoteReply
    <3>2. /\ r.election <= currentTerm[r.dst]
          /\ r.granted => r.term = r.election
                            /\ r.src \in SupportersIn(ballots, r.election, r.dst)
      BY <2>1 DEF VoteReplyInv, Supporters, SupportersIn
    <3>3. r.election <= currentTerm'[r.dst]
      BY <1>4, <3>1, <3>2
    <3> QED BY <1>2, <3>2, <3>3 DEF SupportersIn
  <2>2. CASE r = answer
    BY <1>1, <1>2, <1>5, <1>8, <2>2 DEF SupportersIn
  <2> QED BY <1>8, <2>1, <2>2
<1>10. VotesInv'
  <2> SUFFICES ASSUME NEW j \in Server, state'[j] = "Candidate"
               PROVE  votes'[j] <=
                        Cardinality(CountedIn(ballots', voteReplies', currentTerm'[j], j))
    BY VotesInvAfter
  <2>1. state[j] = "Candidate" /\ currentTerm'[j] = currentTerm[j]
    <3>1. CASE t > currentTerm[v]
      <4>1. state' = [state EXCEPT ![v] = "Follower"]
        BY <3>1 DEF GrantVote
      <4>2. j # v /\ state'[j] = state[j]
        BY <4>1 DEF TypeOK
      <4> QED BY <1>3, <4>2
    <3>2. CASE t = currentTerm[v]
      <4>1. state' = state
        BY <1>1, <3>2 DEF GrantVote, role
      <4> QED BY <1>3, <3>2, <4>1
    <3> QED BY <1>1, <1>2, <3>1, <3>2
  <2>2. votes[j] <= Cardinality(CountedIn(ballots, voteReplies, currentTerm[j], j))
    BY <2>1, VotesInvBefore
  <2>3. CountedIn(ballots, voteReplies, currentTerm[j], j)
          \subseteq CountedIn(ballots', voteReplies', currentTerm[j], j)
    <3> SUFFICES ASSUME NEW x \in SupportersIn(ballots, currentTerm[j], j),
                        x \notin UnderwayIn(voteReplies, currentTerm[j], j),
                        x \in UnderwayIn(voteReplies', currentTerm[j], j)
                 PROVE  FALSE
      BY <1>2 DEF CountedIn, SupportersIn
    <3>1. x = v /\ j = c /\ currentTerm[j] = t /\ m.awaited
      BY <1>8 DEF UnderwayIn
    <3>2. v \notin SupportersIn(ballots, t, c)
      BY <3>1 DEF VoteRequestInv, Supporters, SupportersIn
    <3> QED BY <3>1, <3>2
  <2>4. votes[j] \in Nat
    BY DEF TypeOK
  <2> QED BY <1>2, <2>1, <2>2, <2>3, <2>4, CountedGrows
<1> QED BY <1>6, <1>7, <1>9, <1>10

LEMMA CountVoteStep ==
  ASSUME TypeOK, TypeOK', ElectionInv, NEW m \in voteReplies, CountVote(m),
         NEW d, NEW s, NEW t, d = m.dst, s = m.src, t = m.election
  PROVE  ElectionInv'
<1> USE DEF ElectionInv
<1>1. /\ d \in Server /\ s \in Server /\ t \in Nat
      /\ votes[d] \in Nat
      /\ state[d] = "Candidate" /\ currentTerm[d] = t /\ m.granted
  <2>1. d \in Server /\ s \in Server /\ t \in Nat
    BY DEF TypeOK, VoteReply
  <2> QED BY <2>1 DEF TypeOK, CountVote, Counts
<1>2. /\ UNCHANGED <<currentTerm, votedFor, ballots, voteRequests>>
      /\ votes' = [votes EXCEPT ![d] = votes[d] + 1]
      /\ voteReplies' = voteReplies \ {m}
  BY DEF CountVote, persistent
<1>3. VoteOnce' /\ BallotInv'
  BY <1>2 DEF VoteOnce, BallotInv
<1>4. VoteRequestInv'
  BY <1>2 DEF VoteRequestInv, Supporters
<1>5. VoteReplyInv'
  BY <1>2 DEF VoteReplyInv, Supporters
<1> DEFINE before == CountedIn(ballots, voteReplies, t, d)
           after == CountedIn(ballots', voteReplies', t, d)
<1>6. s \in after /\ s \notin before /\ before \subseteq after /\ after \subseteq Server
  <2>1. m.term = m.election /\ s \in SupportersIn(ballots, t, d)
    BY <1>1 DEF VoteReplyInv, Supporters, SupportersIn
  <2>2. s \in UnderwayIn(voteReplies, t, d)
    BY <1>1 DEF UnderwayIn
  <2>3. ASSUME NEW r \in voteReplies, r.src = s, r.dst = d, r.election = t, r.granted
        PROVE  r = m
    <3>1. r.term = r.election
      BY <2>3 DEF VoteReplyInv
    <3>2. r \in VoteReply /\ m \in VoteReply
      BY DEF TypeOK
    <3>3. r.granted = TRUE /\ m.granted = TRUE
      BY <1>1, <2>3, <3>2 DEF VoteReply
    <3>4. /\ r = [src |-> r.src, dst |-> r.dst, term |-> r.term,
                  election |-> r.election, granted |-> r.granted]
          /\ m = [src |-> m.src, dst |-> m.dst, term |-> m.term,
                  election |-> m.election, granted |-> m.granted]
      BY <3>2 DEF VoteReply
    <3> QED BY <2>1, <2>3, <3>1, <3>3, <3>4
  <2>4. s \notin UnderwayIn(voteReplies', t, d)
    BY <1>2, <2>3 DEF UnderwayIn
  <2> QED BY <1>2, <2>1, <2>2, <2>4 DEF CountedIn, SupportersIn, UnderwayIn
<1>7. votes[d] + 1 <= Cardinality(after)
  <2>1. votes[d] <= Cardinality(before)
    BY <1>1, VotesInvBefore
  <2>2. /\ IsFiniteSet(before) /\ Cardinality(before) \in Nat /\ Cardinality(after) \in Nat
        /\ before \cup {s} \subseteq after
    BY <1>6, ServerSets
  <2>3. Cardinality(before \cup {s}) = Cardinality(before) + 1
    BY <1>6, <2>2, FS_AddElement
  <2>4. Cardinality(before \cup {s}) <= Cardinality(after)
    BY <1>6, <2>2, ServerSets
  <2> QED BY <1>1, <2>1, <2>2, <2>3, <2>4
<1> HIDE DEF before
<1>8. VotesInv'
  <2> SUFFICES ASSUME NEW j \in Server, state'[j] = "Candidate"
               PROVE  votes'[j] <=
                        Cardinality(CountedIn(ballots', voteReplies', currentTerm'[j], j))
    BY VotesInvAfter
  <2>1. CASE j = d
    <3>1. votes'[d] = votes[d] + 1
      BY <1>1, <1>2 DEF TypeOK
    <3> QED BY <1>1, <1>2, <1>7, <2>1, <3>1
  <2>2. CASE j # d
    <3>1. votes'[j] = votes[j] /\ currentTerm'[j] = currentTerm[j] /\ votes[j] \in Nat
      BY <1>2, <2>2 DEF TypeOK
    <3>2. state[j] = "Candidate"
      <4>1. state' = state \/ state' = [state EXCEPT ![d] = "Leader"]
        BY DEF CountVote, BecomeLeader, role
      <4> QED BY <2>2, <4>1 DEF TypeOK
    <3>3. votes[j] <= Cardinality(CountedIn(ballots, voteReplies, currentTerm[j], j))
      BY <3>2, VotesInvBefore
    <3>4. CountedIn(ballots, voteReplies, currentTerm[j], j)
            \subseteq CountedIn(ballots', voteReplies', currentTerm[j], j)
      BY <1>2 DEF CountedIn, SupportersIn, UnderwayIn
    <3> QED BY <3>1, <3>3, <3>4, CountedGrows
  <2> QED BY <2>1, <2>2
<1>9. ElectedInv'
  <2> SUFFICES ASSUME NEW e \in elected'
               PROVE  Cardinality(SupportersIn(ballots', e.term, e.node)) >= Majority
    BY DEF ElectedInv, Supporters, SupportersIn, Majority
  <2>1. CASE e \in elected
    BY <1>2, <2>1 DEF ElectedInv, Supporters, SupportersIn
  <2>2. CASE e \notin elected
    <3>1. votes[d] + 1 >= Majority /\ e = [term |-> t, node |-> d]
      BY <1>1, <2>2 DEF CountVote, BecomeLeader
    <3>2. /\ after \subseteq SupportersIn(ballots', t, d)
          /\ SupportersIn(ballots', t, d) \subseteq Server
      BY DEF CountedIn, SupportersIn
    <3>3. /\ Cardinality(after) \in Nat
          /\ Cardinality(SupportersIn(ballots', t, d)) \in Nat
          /\ Cardinality(after) <= Cardinality(SupportersIn(ballots', t, d))
      BY <3>2, ServerSets
    <3> HIDE DEF after
    <3>4. Cardinality(SupportersIn(ballots', t, d)) >= Majority
      BY <1>1, <1>7, <3>1, <3>3, MajorityType
    <3> QED BY <3>1, <3>4
  <2> QED BY <2>1, <2>2
<1> QED BY <1>3, <1>4, <1>5, <1>8, <1>9
-------------------------------------------------------------------------------
(* Every other step is a NoNewVote.                                        *)

LEMMA RequestsSubset ==
  ASSUME VoteRequestInv, voteRequests' \subseteq voteRequests
  PROVE  RequestsKept
BY DEF RequestsKept, VoteRequestInv

LEMMA RequestsAbandoned ==
  ASSUME TypeOK, VoteRequestInv, NEW i \in Server, NEW pending \in SUBSET voteRequests,
         voteRequests' = Abandon(i, pending)
  PROVE  RequestsKept
<1> DEFINE f(old) == IF old.src = i THEN [old EXCEPT !.awaited = FALSE] ELSE old
<1>1. \A m \in voteRequests' : \E old \in pending : m = f(old)
  BY DEF Abandon
<1>2. ASSUME NEW old \in voteRequests
      PROVE  f(old).src = old.src /\ f(old).dst = old.dst /\ f(old).term = old.term
  BY DEF TypeOK, VoteRequest
<1>3. ASSUME NEW m \in voteRequests', NEW other \in voteRequests',
             other.src = m.src, other.dst = m.dst, other.term = m.term
      PROVE  other = m
  <2>1. PICK a \in pending, b \in pending : m = f(a) /\ other = f(b)
    BY <1>1
  <2>2. b.src = a.src /\ b.dst = a.dst /\ b.term = a.term
    BY <1>2, <1>3, <2>1
  <2>3. a = b
    BY <2>2 DEF VoteRequestInv
  <2> QED BY <2>1, <2>3
<1> QED BY <1>1, <1>3 DEF RequestsKept

\* The request was read, and refused.
LEMMA AnsweredNo ==
  ASSUME TypeOK, VoteRequestInv, NEW m \in voteRequests, NEW term, AnswerVote(m, term, FALSE)
  PROVE  RepliesKept /\ RequestsKept
<1>1. RequestsKept
  BY RequestsSubset DEF AnswerVote
<1>2. m.term <= currentTerm[m.src]
  BY DEF VoteRequestInv
<1> QED BY <1>1, <1>2 DEF RepliesKept, AnswerVote

LEMMA RepliesSubset ==
  ASSUME voteReplies' \subseteq voteReplies
  PROVE  RepliesKept
BY DEF RepliesKept

LEMMA VotersUnchanged ==
  ASSUME TypeOK, UNCHANGED <<currentTerm, votedFor, state, votes>>
  PROVE  VotersKept
<1>1. \A i \in Server : currentTerm[i] \in Nat
  BY DEF TypeOK
<1> QED BY <1>1 DEF VotersKept

\* One node moves to a term at least its own and campaigns no more.
LEMMA OneStepsDown ==
  ASSUME TypeOK, NEW i \in Server, NEW term \in Nat, term >= currentTerm[i],
         SetTermAndVote(i, term, VoteIn(i, term)),
         state' = [state EXCEPT ![i] = "Follower"],
         \A j \in Server \ {i} : votes'[j] = votes[j]
  PROVE  VotersKept
<1>1. \A j \in Server : currentTerm[j] \in Nat
  BY DEF TypeOK
<1>2. /\ currentTerm'[i] = term
      /\ votedFor'[i] = IF term > currentTerm[i] THEN Nil ELSE votedFor[i]
      /\ state'[i] = "Follower"
      /\ \A j \in Server \ {i} : /\ currentTerm'[j] = currentTerm[j]
                                 /\ votedFor'[j] = votedFor[j]
                                 /\ state'[j] = state[j]
  BY DEF SetTermAndVote, VoteIn, TypeOK
<1> SUFFICES ASSUME NEW k \in Server
             PROVE  /\ currentTerm'[k] >= currentTerm[k]
                    /\ currentTerm'[k] = currentTerm[k] => votedFor'[k] = votedFor[k]
                    /\ state'[k] = "Candidate" =>
                         /\ state[k] = "Candidate"
                         /\ currentTerm'[k] = currentTerm[k]
                         /\ votes'[k] = votes[k]
  BY DEF VotersKept
<1>3. CASE k = i
  BY <1>1, <1>2, <1>3
<1>4. CASE k # i
  BY <1>1, <1>2, <1>4
<1> QED BY <1>3, <1>4

\* A node steps down and nothing else about the votes happens.
LEMMA StepsDownQuietly ==
  ASSUME TypeOK, VoteRequestInv, NEW i \in Server, NEW term \in Nat, NEW leader,
         term >= currentTerm[i], BecomeFollower(i, term, leader),
         voteRequests' = voteRequests, voteReplies' \subseteq voteReplies,
         UNCHANGED <<votes, ballots, elected>>
  PROVE  NoNewVote
BY OneStepsDown, RequestsSubset, RepliesSubset DEF NoNewVote, BecomeFollower

LEMMA Rebooted ==
  ASSUME TypeOK, VoteRequestInv, NEW i \in Server, NEW pending \in SUBSET voteRequests,
         Reboot(i, pending)
  PROVE  /\ RequestsKept
         /\ RepliesKept
         /\ state' = [state EXCEPT ![i] = "Follower"]
         /\ \A j \in Server \ {i} : votes'[j] = votes[j]
<1>1. /\ voteRequests' = Abandon(i, pending)
      /\ voteReplies' \subseteq voteReplies
      /\ state' = [state EXCEPT ![i] = "Follower"]
      /\ votes' = [votes EXCEPT ![i] = 0]
  BY DEF Reboot
<1> QED BY <1>1, RequestsAbandoned, RepliesSubset DEF TypeOK

LEMMA CrashStep ==
  ASSUME TypeOK, VoteRequestInv, NEW i \in Server, Crash(i)
  PROVE  NoNewVote
<1>1. /\ Reboot(i, voteRequests)
      /\ UNCHANGED <<currentTerm, votedFor, ballots, elected>>
  BY DEF Crash, persistent
<1>2. /\ currentTerm[i] \in Nat
      /\ currentTerm' = [currentTerm EXCEPT ![i] = currentTerm[i]]
      /\ votedFor' = [votedFor EXCEPT ![i] = votedFor[i]]
  BY <1>1 DEF TypeOK
<1>3. SetTermAndVote(i, currentTerm[i], VoteIn(i, currentTerm[i]))
  <2>1. VoteIn(i, currentTerm[i]) = votedFor[i]
    BY <1>2 DEF VoteIn
  <2> QED BY <1>2, <2>1 DEF SetTermAndVote
<1> QED BY <1>1, <1>2, <1>3, Rebooted, OneStepsDown DEF NoNewVote

LEMMA CrashBeforeVoteStep ==
  ASSUME TypeOK, VoteRequestInv, NEW m \in voteRequests, CrashBeforeVote(m)
  PROVE  NoNewVote
<1>1. m.dst \in Server /\ m.term \in Nat
  BY DEF TypeOK, VoteRequest
<1>2. currentTerm[m.dst] \in Nat /\ m.term > currentTerm[m.dst]
  BY <1>1 DEF TypeOK, CrashBeforeVote
<1>3. /\ Reboot(m.dst, voteRequests \ {m})
      /\ SetTermAndVote(m.dst, m.term, VoteIn(m.dst, m.term))
      /\ UNCHANGED <<ballots, elected>>
  BY <1>2 DEF CrashBeforeVote, VoteIn
<1>4. RequestsKept /\ RepliesKept /\ VotersKept
  BY <1>1, <1>2, <1>3, Rebooted, OneStepsDown
<1> QED BY <1>3, <1>4 DEF NoNewVote

LEMMA CrashWhileAppendingStep ==
  ASSUME TypeOK, VoteRequestInv, NEW m \in appendRequests, CrashWhileAppending(m)
  PROVE  NoNewVote
<1>1. m.dst \in Server /\ m.term \in Nat
  BY DEF TypeOK, AppendRequest
<1>2. /\ m.term >= currentTerm[m.dst]
      /\ Reboot(m.dst, voteRequests)
      /\ SetTermAndVote(m.dst, m.term, VoteIn(m.dst, m.term))
      /\ UNCHANGED <<ballots, elected>>
  BY DEF CrashWhileAppending
<1>3. RequestsKept /\ RepliesKept /\ VotersKept
  BY <1>1, <1>2, Rebooted, OneStepsDown
<1> QED BY <1>2, <1>3 DEF NoNewVote

LEMMA HandleRequestVoteStep ==
  ASSUME TypeOK, VoteRequestInv, NEW m \in voteRequests,
         RejectStaleCandidate(m) \/ DenyVote(m)
  PROVE  NoNewVote
<1>1. m.dst \in Server /\ m.term \in Nat
  BY DEF TypeOK, VoteRequest
<1>2. CASE RejectStaleCandidate(m)
  <2>1. /\ AnswerVote(m, currentTerm[m.dst], FALSE)
        /\ UNCHANGED <<currentTerm, votedFor, state, votes, ballots, elected>>
    BY <1>2 DEF RejectStaleCandidate, persistent, role, goroutines, history
  <2> QED BY <2>1, AnsweredNo, VotersUnchanged DEF NoNewVote
<1>3. CASE DenyVote(m)
  <2>1. /\ AnswerVote(m, m.term, FALSE)
        /\ UNCHANGED <<votes, ballots, elected>>
    BY <1>3 DEF DenyVote, goroutines, history
  <2>2. CASE m.term > currentTerm[m.dst]
    <3>1. BecomeFollower(m.dst, m.term, Nil) /\ m.term >= currentTerm[m.dst]
      BY <1>3, <2>2 DEF DenyVote
    <3>2. VotersKept
      BY <1>1, <2>1, <3>1, OneStepsDown DEF BecomeFollower
    <3> QED BY <2>1, <3>2, AnsweredNo DEF NoNewVote
  <2>3. CASE ~(m.term > currentTerm[m.dst])
    <3>1. UNCHANGED <<currentTerm, votedFor, state>>
      BY <1>3, <2>3 DEF DenyVote, role
    <3> QED BY <2>1, <3>1, AnsweredNo, VotersUnchanged DEF NoNewVote
  <2> QED BY <2>2, <2>3
<1> QED BY <1>2, <1>3

LEMMA HandleVoteReplyStep ==
  ASSUME TypeOK, VoteRequestInv, NEW m \in voteReplies,
         StepDownOnVoteReply(m) \/ IgnoreVoteReply(m)
  PROVE  NoNewVote
<1>1. m.dst \in Server /\ m.term \in Nat
  BY DEF TypeOK, VoteReply
<1>2. currentTerm[m.dst] \in Nat
  BY <1>1 DEF TypeOK
<1>3. CASE StepDownOnVoteReply(m)
  <2>1. /\ m.term > currentTerm[m.dst]
        /\ BecomeFollower(m.dst, m.term, Nil)
        /\ voteReplies' \subseteq voteReplies
        /\ UNCHANGED <<votes, voteRequests, ballots, elected>>
    BY <1>3 DEF StepDownOnVoteReply, goroutines, history
  <2>2. m.term >= currentTerm[m.dst]
    BY <1>1, <1>2, <2>1
  <2> QED BY <1>1, <2>1, <2>2, StepsDownQuietly
<1>4. CASE IgnoreVoteReply(m)
  <2>1. /\ voteReplies' \subseteq voteReplies
        /\ UNCHANGED <<currentTerm, votedFor, state, votes, voteRequests, ballots, elected>>
    BY <1>4 DEF IgnoreVoteReply, persistent, role, goroutines, history
  <2> QED BY <2>1, VotersUnchanged, RequestsSubset, RepliesSubset DEF NoNewVote
<1> QED BY <1>3, <1>4

\* The steps that leave the voters and the vote messages alone.
LEMMA QuietStep ==
  ASSUME TypeOK, VoteRequestInv,
         UNCHANGED <<currentTerm, votedFor, state, votes, voteRequests, voteReplies,
                     ballots, elected>>
  PROVE  NoNewVote
BY VotersUnchanged, RequestsSubset, RepliesSubset DEF NoNewVote

LEMMA HandleAppendEntriesStep ==
  ASSUME TypeOK, VoteRequestInv, NEW m \in appendRequests,
         HandleAppendEntries(m) \/ LoseAppendRequest(m)
  PROVE  NoNewVote
<1>1. m.dst \in Server /\ m.term \in Nat
  BY DEF TypeOK, AppendRequest
<1>2. CASE RejectStaleLeader(m) \/ LoseAppendRequest(m)
  BY <1>2, QuietStep DEF RejectStaleLeader, LoseAppendRequest, persistent, role, goroutines,
                         voteRPC, history
<1>3. CASE RejectMismatch(m) \/ AcceptEntries(m)
  <2>1. /\ m.term >= currentTerm[m.dst]
        /\ BecomeFollower(m.dst, m.term, m.src)
        /\ UNCHANGED <<votes, voteRequests, voteReplies, ballots, elected>>
    BY <1>3 DEF RejectMismatch, AcceptEntries, goroutines, voteRPC, history
  <2> QED BY <1>1, <2>1, StepsDownQuietly
<1> QED BY <1>2, <1>3 DEF HandleAppendEntries

LEMMA HandleAppendReplyStep ==
  ASSUME TypeOK, VoteRequestInv, NEW m \in appendReplies,
         HandleAppendReply(m) \/ LoseAppendReply(m)
  PROVE  NoNewVote
<1>1. m.dst \in Server /\ m.term \in Nat
  BY DEF TypeOK, AppendReply
<1>2. currentTerm[m.dst] \in Nat
  BY <1>1 DEF TypeOK
<1>3. CASE StepDownOnAppendReply(m)
  <2>1. /\ m.term > currentTerm[m.dst]
        /\ BecomeFollower(m.dst, m.term, Nil)
        /\ UNCHANGED <<votes, voteRequests, voteReplies, ballots, elected>>
    BY <1>3 DEF StepDownOnAppendReply, goroutines, voteRPC, history
  <2>2. m.term >= currentTerm[m.dst]
    BY <1>1, <1>2, <2>1
  <2> QED BY <1>1, <2>1, <2>2, StepsDownQuietly
<1>4. CASE IgnoreAppendReply(m) \/ BackOff(m) \/ LoseAppendReply(m)
  BY <1>4, QuietStep DEF IgnoreAppendReply, BackOff, LoseAppendReply, persistent, role,
                         goroutines, voteRPC, history
<1>5. CASE AdvancePeer(m)
  BY <1>5, QuietStep DEF AdvancePeer, persistent, role, goroutines, voteRPC
<1> QED BY <1>3, <1>4, <1>5 DEF HandleAppendReply

LEMMA ElectionStep ==
  ASSUME TypeOK, TypeOK', ElectionInv, [Next]_vars
  PROVE  ElectionInv'
<1>1. VoteRequestInv
  BY DEF ElectionInv
<1>2. ASSUME NEW i \in Server, NodeStep(i)
      PROVE  ElectionInv'
  <2>1. CASE StartElection(i)
    BY <2>1, StartElectionStep
  <2>2. CASE Crash(i)
    BY <1>1, <2>2, CrashStep, NoNewVoteStep
  <2>3. CASE Broadcast(i)
    BY <1>1, <2>3, QuietStep, NoNewVoteStep
       DEF Broadcast, persistent, role, voteRPC, history
  <2>4. ASSUME NEW cmd \in Command, Propose(i, cmd)
        PROVE  ElectionInv'
    BY <1>1, <2>4, QuietStep, NoNewVoteStep
       DEF Propose, role, goroutines, voteRPC, history
  <2>5. ASSUME NEW j \in Server, NEW commit, ReplicateToPeer(i, j, commit)
        PROVE  ElectionInv'
    BY <1>1, <2>5, QuietStep, NoNewVoteStep
       DEF ReplicateToPeer, persistent, role, goroutines, voteRPC, history
  <2> QED BY <1>2, <2>1, <2>2, <2>3, <2>4, <2>5 DEF NodeStep
<1>3. ASSUME NEW m \in voteRequests, HandleRequestVote(m) \/ CrashBeforeVote(m)
      PROVE  ElectionInv'
  <2>1. CASE GrantVote(m)
    BY <2>1, GrantVoteStep
  <2>2. CASE RejectStaleCandidate(m) \/ DenyVote(m)
    BY <1>1, <2>2, HandleRequestVoteStep, NoNewVoteStep
  <2>3. CASE CrashBeforeVote(m)
    BY <1>1, <2>3, CrashBeforeVoteStep, NoNewVoteStep
  <2> QED BY <1>3, <2>1, <2>2, <2>3 DEF HandleRequestVote
<1>4. ASSUME NEW m \in voteReplies, HandleVoteReply(m)
      PROVE  ElectionInv'
  <2>1. CASE CountVote(m)
    BY <2>1, CountVoteStep
  <2>2. CASE StepDownOnVoteReply(m) \/ IgnoreVoteReply(m)
    BY <1>1, <2>2, HandleVoteReplyStep, NoNewVoteStep
  <2> QED BY <1>4, <2>1, <2>2 DEF HandleVoteReply
<1>5. ASSUME NEW m \in appendRequests,
             HandleAppendEntries(m) \/ CrashWhileAppending(m) \/ LoseAppendRequest(m)
      PROVE  ElectionInv'
  BY <1>1, <1>5, HandleAppendEntriesStep, CrashWhileAppendingStep, NoNewVoteStep
<1>6. ASSUME NEW m \in appendReplies, HandleAppendReply(m) \/ LoseAppendReply(m)
      PROVE  ElectionInv'
  BY <1>1, <1>6, HandleAppendReplyStep, NoNewVoteStep
<1>7. CASE UNCHANGED vars
  BY <1>1, <1>7, QuietStep, NoNewVoteStep
     DEF vars, persistent, role, goroutines, voteRPC, history
<1> QED BY <1>2, <1>3, <1>4, <1>5, <1>6, <1>7 DEF Next

-------------------------------------------------------------------------------
\* Two leaders of one term would have a common voter, who voted once.
LEMMA ElectionInvImplies ==
  ASSUME TypeOK, ElectionInv
  PROVE  ElectionSafety /\ VoteOnce
<1>1. VoteOnce
  BY DEF ElectionInv
<1>2. ASSUME NEW a \in elected, NEW b \in elected, a.term = b.term
      PROVE  a.node = b.node
  <2>1. /\ Cardinality(Supporters(a.term, a.node)) >= Majority
        /\ Cardinality(Supporters(b.term, b.node)) >= Majority
    BY DEF ElectionInv, ElectedInv
  <2>2. /\ Supporters(a.term, a.node) \subseteq Server
        /\ Supporters(b.term, b.node) \subseteq Server
    BY DEF Supporters
  <2>3. PICK v \in Server : v \in Supporters(a.term, a.node) /\ v \in Supporters(b.term, b.node)
    BY <2>1, <2>2, MajoritiesIntersect
  <2>4. /\ [term |-> a.term, voter |-> v, candidate |-> a.node] \in ballots
        /\ [term |-> a.term, voter |-> v, candidate |-> b.node] \in ballots
    BY <1>2, <2>3 DEF Supporters
  <2> QED BY <1>1, <2>4 DEF VoteOnce
<1> QED BY <1>1, <1>2 DEF ElectionSafety

LEMMA ElectionInvHolds == Spec => []ElectionInv
<1>1. Init => ElectionInv
  BY ElectionInit
<1>2. TypeOK /\ TypeOK' /\ ElectionInv /\ [Next]_vars => ElectionInv'
  BY ElectionStep
<1> QED BY <1>1, <1>2, TypeCorrect, PTL DEF Spec

\* In every cluster, whatever crashes, restarts and late or lost answers there
\* are, a term has at most one leader (startElection and becomeLeaderLocked of
\* node.go): the votes that goroutines of an older election bring are not counted.
THEOREM ElectionSafe == Spec => []ElectionSafety
<1>1. TypeOK /\ ElectionInv => ElectionSafety
  BY ElectionInvImplies
<1> QED BY <1>1, TypeCorrect, ElectionInvHolds, PTL

\* A node votes for one candidate in a term, also when it crashes between two
\* writes of HandleRequestVote and is asked again (SetTermAndVote of storage.go).
THEOREM VotesOnce == Spec => []VoteOnce
<1>1. TypeOK /\ ElectionInv => VoteOnce
  BY ElectionInvImplies
<1> QED BY <1>1, TypeCorrect, ElectionInvHolds, PTL
-------------------------------------------------------------------------------
(* Pieces of logs.                                                         *)

Matching(g, h) ==
  \A k \in DOMAIN g \cap DOMAIN h :
    g[k].term = h[k].term => \A n \in 1..k : g[n] = h[n]

\* What l shares with g is still in r, which is a beginning of g.
Merged(r, l, g) ==
  /\ Begins(r, g)
  /\ \A k \in Nat : Agree(l, g, k) => Agree(r, g, k)

\* r is l below "from", and from there on the entries k to last of es.
Joined(r, l, from, es, k, last) ==
  /\ Len(r) = from + last - k
  /\ \A n \in 1..(from - 1) : n \in DOMAIN l /\ r[n] = l[n]
  /\ \A n \in from..(from + last - k) : r[n] = es[n - from + k]

\* What is left of a log when it is cut, and what follows.
LEMMA CutAndAppendElements ==
  ASSUME NEW C, NEW l \in Seq(EntryOf(C)), NEW es \in Seq(EntryOf(C)),
         NEW k \in 1..Len(es), NEW from \in Nat \ {0}, from <= Len(l) + 1,
         NEW last \in (k - 1)..Len(es),
         NEW r, r = Truncate(l, from) \o SubSeq(es, k, last)
  PROVE  Joined(r, l, from, es, k, last)
<1> DEFINE cut  == Truncate(l, from)
           rest == SubSeq(es, k, last)
<1>0. r = cut \o rest
  OBVIOUS
<1>1. /\ cut \in Seq(EntryOf(C))
      /\ Len(cut) = from - 1
      /\ \A n \in 1..(from - 1) : n \in DOMAIN l /\ cut[n] = l[n]
  BY DEF Truncate
<1>2. /\ rest \in Seq(EntryOf(C))
      /\ Len(rest) = last - k + 1
      /\ \A n \in 1..(last - k + 1) : rest[n] = es[k + n - 1]
  <2>1. \A n \in k..last : es[n] \in EntryOf(C)
    BY ElementOfSeq
  <2> QED BY <2>1, SubSeqProperties
<1> HIDE DEF cut, rest
<1>3. /\ Len(r) = Len(cut) + Len(rest)
      /\ \A n \in 1..(Len(cut) + Len(rest)) :
           r[n] = IF n <= Len(cut) THEN cut[n] ELSE rest[n - Len(cut)]
  <2>1. /\ Len(cut \o rest) = Len(cut) + Len(rest)
        /\ \A n \in 1..(Len(cut) + Len(rest)) :
             (cut \o rest)[n] = IF n <= Len(cut) THEN cut[n] ELSE rest[n - Len(cut)]
    BY <1>1, <1>2, ConcatProperties
  <2> QED BY <1>0, <2>1, Zenon
<1>4. Len(r) = from + last - k
  BY <1>1, <1>2, <1>3
<1>5. ASSUME NEW n \in 1..(from - 1)
      PROVE  n \in DOMAIN l /\ r[n] = l[n]
  <2>1. n \in 1..(Len(cut) + Len(rest)) /\ n <= Len(cut)
    BY <1>1, <1>2
  <2> QED BY <1>1, <1>3, <2>1
<1>6. ASSUME NEW n \in from..(from + last - k)
      PROVE  r[n] = es[n - from + k]
  <2>1. PICK q \in 1..(last - k + 1) : q = n - (from - 1)
    OBVIOUS
  <2>2. n \in 1..(Len(cut) + Len(rest)) /\ ~(n <= Len(cut)) /\ n - Len(cut) = q
    BY <1>1, <1>2, <2>1
  <2>3. r[n] = rest[q]
    BY <1>3, <2>2
  <2>4. rest[q] = es[k + q - 1] /\ k + q - 1 = n - from + k
    BY <1>2, <2>1
  <2> QED BY <2>3, <2>4
<1> QED BY <1>4, <1>5, <1>6 DEF Joined

\* A log that matches g and receives what follows "prev" in g: wherever
\* integrateEntriesLocked stops after its cut, the log is a beginning of g and has
\* lost nothing of g.
LEMMA IntegratedBegins ==
  ASSUME NEW C, NEW l \in Seq(EntryOf(C)), NEW g \in Seq(EntryOf(C)),
         Positioned(g, 0), Matching(l, g),
         NEW prev \in 0..Len(g),
         prev > 0 => prev \in 1..Len(l) /\ l[prev].term = g[prev].term,
         NEW es \in Seq(EntryOf(C)), Len(es) <= Len(g) - prev,
         \A n \in 1..Len(es) : es[n] = g[prev + n],
         NewEntries(l, es) # {},
         NEW last \in (FirstNew(l, es) - 1)..Len(es)
  PROVE  /\ Len(Truncate(l, es[FirstNew(l, es)].index)
                  \o SubSeq(es, FirstNew(l, es), last)) = prev + last
         /\ Merged(Truncate(l, es[FirstNew(l, es)].index)
                     \o SubSeq(es, FirstNew(l, es), last), l, g)
<1>1. PICK k \in 1..Len(es) :
        /\ k = FirstNew(l, es)
        /\ k \in NewEntries(l, es)
        /\ \A other \in NewEntries(l, es) : k <= other
  BY FirstNewIsFirst
<1>2. /\ Len(es) <= Len(g) - prev
      /\ \A n \in 1..Len(es) : es[n] = g[prev + n]
  OBVIOUS
<1>3. \A n \in 1..Len(es) : es[n].index = prev + n
  <2> SUFFICES ASSUME NEW n \in 1..Len(es) PROVE es[n].index = prev + n
    OBVIOUS
  <2>1. PICK j \in DOMAIN g : j = prev + n
    OBVIOUS
  <2>2. g[j].index = 0 + j
    BY Zenon DEF Positioned
  <2>3. es[n] = g[j]
    BY <2>1
  <2> QED BY <2>1, <2>2, <2>3
<1>4. PICK from \in Nat \ {0} : from = prev + k
  OBVIOUS
<1>5. from <= Len(l) + 1
  <2>1. prev \in 0..Len(l)
    OBVIOUS
  <2>2. Positioned(es, prev)
    <3>1. DOMAIN es = 1..Len(es)
      OBVIOUS
    <3> QED BY <1>3, <3>1, Zenon DEF Positioned
  <2> QED BY <2>2,  <1>1, <1>4, <2>1, FirstNewAdjoins
<1>6. ASSUME NEW n \in 1..(from - 1)
      PROVE  l[n] = g[n]
  <2>1. ASSUME from - 1 \in DOMAIN l \cap DOMAIN g, l[from - 1].term = g[from - 1].term
        PROVE  l[n] = g[n]
    BY <1>4, <1>6, <2>1 DEF Matching
  <2>2. CASE k = 1
    <3>1. prev > 0 /\ prev = from - 1
      BY <1>4, <1>6, <2>2
    <3> QED BY <2>1, <3>1
  <2>3. CASE k > 1
    <3>1. k - 1 \in DOMAIN es /\ k - 1 \notin NewEntries(l, es)
      BY <1>1, <2>3
    <3>2. es[k - 1].index = from - 1
      <4>1. PICK j \in 1..Len(es) : j = k - 1
        BY <3>1
      <4>2. es[j].index = prev + j
        BY <1>3, Zenon
      <4>3. prev + j = from - 1
        BY <1>1, <1>4, <4>1
      <4> QED BY <4>1, <4>2, <4>3
    <3>3. from - 1 \in DOMAIN l /\ l[from - 1].term = es[k - 1].term
      BY <3>1, <3>2 DEF NewEntries
    <3>4. es[k - 1] = g[from - 1] /\ from - 1 \in DOMAIN g
      BY <1>2, <1>4, <3>1
    <3> QED BY <2>1, <3>3, <3>4
  <2> QED BY <2>2, <2>3
<1>7. PICK r : r = Truncate(l, from) \o SubSeq(es, k, last)
  OBVIOUS
<1>8. last \in (k - 1)..Len(es)
  BY <1>1
<1>9. /\ Len(r) = from + last - k
      /\ \A n \in 1..(from - 1) : n \in DOMAIN l /\ r[n] = l[n]
      /\ \A n \in from..(from + last - k) : r[n] = es[n - from + k]
  <2>1. Joined(r, l, from, es, k, last)
    BY <1>5, <1>7, <1>8, CutAndAppendElements
  <2> QED BY <2>1, Zenon DEF Joined
<1>10. Len(r) = prev + last /\ Len(r) <= Len(g)
  <2>1. /\ last \in Int /\ k \in Int /\ prev \in Int /\ from \in Int
        /\ Len(g) \in Int /\ Len(es) \in Int
        /\ last <= Len(es)
    BY <1>8
  <2>2. from + last - k = prev + last
    BY <1>4, <2>1
  <2>3. prev + last <= Len(g)
    BY <1>2, <2>1
  <2>4. Len(r) = from + last - k
    BY <1>9, Zenon
  <2> QED BY <2>2, <2>3, <2>4
<1>11. ASSUME NEW n \in 1..Len(r)
       PROVE  r[n] = g[n]
  <2>1. CASE n < from
    <3>1. n \in 1..(from - 1)
      BY <1>4, <1>8, <1>10, <2>1
    <3> QED BY <1>6, <1>9, <3>1
  <2>2. CASE n >= from
    <3>1. n \in from..(from + last - k)
      BY <1>4, <1>8, <1>9, <1>10, <2>2
    <3>2. PICK q \in 1..Len(es) : q = n - prev
      BY <1>4, <1>8, <1>10, <2>2
    <3>3. r[n] = es[n - from + k]
      BY <1>9, <3>1, Zenon
    <3>4. n - from + k = q
      <4>1. n \in Int /\ k \in Int /\ prev \in Int
        BY <3>1
      <4>2. n - (prev + k) + k = n - prev
        BY <4>1
      <4> QED BY <1>4, <3>2, <4>2, Zenon
    <3>5. es[q] = g[prev + q] /\ prev + q = n
      BY <1>1, <1>2, <1>8, <1>10, <3>2
    <3> QED BY <3>3, <3>4, <3>5
  <2> QED BY <1>4, <1>8, <1>10, <2>1, <2>2
<1>12. Begins(r, g)
  BY <1>10, <1>11 DEF Begins, Agree
<1>13. from \in DOMAIN l => l[from] # g[from]
  <2>1. k \in NewEntries(l, es) /\ es[k].index = from /\ es[k] = g[from]
    BY <1>1, <1>2, <1>3, <1>4
  <2> QED BY <2>1 DEF NewEntries
<1>14. ASSUME NEW n \in Nat, Agree(l, g, n)
       PROVE  Agree(r, g, n)
  <2>1. n < from
    BY <1>4, <1>13, <1>14 DEF Agree
  <2>2. n <= Len(r)
    BY <1>1, <1>4, <1>8, <1>10, <2>1
  <2> QED BY <1>10, <1>11, <1>14, <2>2 DEF Agree
<1>15. es[FirstNew(l, es)].index = from
  BY <1>1, <1>3, <1>4
<1>16. Merged(r, l, g)
  BY <1>12, <1>14 DEF Merged
<1> QED BY <1>1, <1>7, <1>10, <1>15, <1>16

\* The same for integrateEntriesLocked, whether it finishes or the process dies in
\* it; when it finishes, the log has everything of the request.
LEMMA IntegrationBegins ==
  ASSUME NEW C, NEW l \in Seq(EntryOf(C)), NEW g \in Seq(EntryOf(C)),
         Positioned(g, 0), Matching(l, g),
         NEW prev \in 0..Len(g),
         prev > 0 => prev \in 1..Len(l) /\ l[prev].term = g[prev].term,
         NEW es \in Seq(EntryOf(C)), Len(es) <= Len(g) - prev,
         \A n \in 1..Len(es) : es[n] = g[prev + n]
  PROVE  /\ \A r \in {IntegrateEntries(l, es)} \cup InterruptedIntegrations(l, es) :
              r = l \/ Merged(r, l, g)
         /\ Agree(IntegrateEntries(l, es), g, prev + Len(es))
<1>1. CASE NewEntries(l, es) = {}
  <2>1. IntegrateEntries(l, es) = l /\ InterruptedIntegrations(l, es) = {l}
    BY <1>1 DEF IntegrateEntries, InterruptedIntegrations
  <2>2. PICK last \in Nat : last = prev + Len(es) /\ last <= Len(g)
    OBVIOUS
  <2>3. last > 0 => last \in DOMAIN l /\ l[last].term = g[last].term
    <3>1. CASE Len(es) = 0
      BY <2>2, <3>1
    <3>2. CASE Len(es) > 0
      <4>1. PICK n \in 1..Len(es) : n = Len(es)
        BY <3>2
      <4>2. es[n] = g[last] /\ last \in DOMAIN g
        BY <2>2, <4>1
      <4>3. g[last].index = 0 + last
        BY <4>2, Zenon DEF Positioned
      <4>4. es[n].index = last
        BY <2>2, <4>2, <4>3
      <4>5. last \in DOMAIN l /\ l[last].term = es[n].term
        BY <1>1, <4>4 DEF NewEntries
      <4> QED BY <4>2, <4>5
    <3> QED BY <3>1, <3>2
  <2>4. last <= Len(l) /\ \A n \in 1..last : l[n] = g[n]
    <3>1. CASE last = 0
      BY <3>1
    <3>2. CASE last > 0
      <4>1. last \in DOMAIN l \cap DOMAIN g /\ l[last].term = g[last].term
        BY <2>2, <2>3, <3>2
      <4>2. \A n \in 1..last : l[n] = g[n]
        BY <4>1, Zenon DEF Matching
      <4> QED BY <4>1, <4>2
    <3> QED BY <2>2, <3>1, <3>2
  <2>5. Agree(l, g, last)
    BY <2>2, <2>4 DEF Agree
  <2> QED BY <2>1, <2>2, <2>5
<1>2. CASE NewEntries(l, es) # {}
  <2>1. PICK k \in 1..Len(es) : k = FirstNew(l, es)
    BY <1>2, FirstNewIsFirst
  <2>2. Len(es) \in (FirstNew(l, es) - 1)..Len(es)
    BY <2>1
  <2>3. \A last \in (FirstNew(l, es) - 1)..Len(es) :
          /\ Len(Truncate(l, es[FirstNew(l, es)].index)
                   \o SubSeq(es, FirstNew(l, es), last)) = prev + last
          /\ Merged(Truncate(l, es[FirstNew(l, es)].index)
                      \o SubSeq(es, FirstNew(l, es), last), l, g)
    BY <1>2, IntegratedBegins
  <2>4. /\ Len(IntegrateEntries(l, es)) = prev + Len(es)
        /\ Merged(IntegrateEntries(l, es), l, g)
    BY <1>2, <2>2, <2>3 DEF IntegrateEntries
  <2>5. ASSUME NEW r \in InterruptedIntegrations(l, es)
        PROVE  r = l \/ Merged(r, l, g)
    BY <1>2, <2>3, <2>5 DEF InterruptedIntegrations
  <2>6. Agree(IntegrateEntries(l, es), g, prev + Len(es))
    BY <2>4 DEF Merged, Begins
  <2> QED BY <2>4, <2>5, <2>6
<1> QED BY <1>1, <1>2

LEMMA AgreeTransitive ==
  ASSUME NEW C, NEW a \in Seq(C), NEW b \in Seq(C), NEW c \in Seq(C),
         NEW k \in Nat, NEW n \in Nat, Agree(a, b, k), Agree(b, c, n),
         NEW x \in Nat, x <= k, x <= n
  PROVE  Agree(a, c, x)
<1>1. \A y \in 1..x : y \in 1..k /\ y \in 1..n
  OBVIOUS
<1> QED BY <1>1 DEF Agree

LEMMA AgreeSymmetric ==
  ASSUME NEW a, NEW b, NEW k, Agree(a, b, k)
  PROVE  Agree(b, a, k)
BY DEF Agree

LEMMA PieceGrows ==
  ASSUME NEW m \in AppendRequest, NEW g \in Seq(Entry), NEW h \in Seq(Entry),
         IsPiece(m, g), Begins(g, h)
  PROVE  IsPiece(m, h)
<1>1. m.prevIndex \in Nat /\ m.entries \in Seq(Entry)
  BY DEF AppendRequest
<1>2. CASE m.prevIndex > 0 /\ m.prevTerm = 0
  BY <1>2 DEF IsPiece
<1>3. CASE ~(m.prevIndex > 0 /\ m.prevTerm = 0)
  <2>1. /\ m.prevIndex + Len(m.entries) <= Len(g)
        /\ m.prevIndex > 0 => m.prevTerm = g[m.prevIndex].term
        /\ \A n \in DOMAIN m.entries : m.entries[n] = g[m.prevIndex + n]
    BY <1>3 DEF IsPiece
  <2>2. /\ Len(g) <= Len(h)
        /\ \A n \in 1..Len(g) : g[n] = h[n]
    BY DEF Begins, Agree
  <2>3. m.prevIndex + Len(m.entries) <= Len(h)
    BY <1>1, <2>1, <2>2
  <2>4. ASSUME m.prevIndex > 0
        PROVE  m.prevTerm = h[m.prevIndex].term
    <3>1. PICK p \in 1..Len(g) : p = m.prevIndex
      BY <1>1, <2>1, <2>4
    <3> QED BY <2>1, <2>2, <2>4, <3>1
  <2>5. \A n \in DOMAIN m.entries : m.entries[n] = h[m.prevIndex + n]
    <3> SUFFICES ASSUME NEW n \in DOMAIN m.entries
                 PROVE  m.entries[n] = h[m.prevIndex + n]
      OBVIOUS
    <3>1. n \in Nat /\ 1 <= n /\ n <= Len(m.entries)
      BY <1>1
    <3>2. PICK p \in 1..Len(g) : p = m.prevIndex + n
      BY <1>1, <2>1, <3>1
    <3> QED BY <2>1, <2>2, <3>2
  <2> QED BY <2>3, <2>4, <2>5 DEF IsPiece
<1> QED BY <1>2, <1>3

-------------------------------------------------------------------------------
(* Who leads, and who says so.                                             *)

RoleInv ==
  /\ HintIsElected
  /\ \A i \in Server :
       state[i] = "Leader" => [term |-> currentTerm[i], node |-> i] \in elected
  /\ \A e \in elected :
       /\ e.term <= currentTerm[e.node]
       /\ e.term = currentTerm[e.node] => state[e.node] # "Candidate"
  /\ \A m \in appendRequests : [term |-> m.term, node |-> m.src] \in elected

MatchingInv == RoleInv /\ \E L : LedgerInv(L)

(* What all steps but CountVote and Propose have in common.                *)

\* A node stays what it is, steps down or becomes a candidate of a new term.
RolesKept ==
  /\ elected' = elected
  /\ \A i \in Server :
       \/ /\ currentTerm'[i] = currentTerm[i]
          /\ state'[i] = state[i]
          /\ currentLeader'[i] = currentLeader[i]
       \/ /\ currentTerm'[i] >= currentTerm[i]
          /\ state'[i] = "Follower"
          /\ \/ currentLeader'[i] = Nil
             \/ [term |-> currentTerm'[i], node |-> currentLeader'[i]] \in elected
       \/ /\ currentTerm'[i] > currentTerm[i]
          /\ state'[i] = "Candidate"

\* A request is an old one, perhaps abandoned, or made by a leader from its log.
AppendsKept ==
  \A m \in appendRequests' :
    \/ m \in appendRequests
    \/ \E old \in appendRequests : m = [old EXCEPT !.awaited = FALSE]
    \/ /\ m.src \in Server
       /\ state[m.src] = "Leader"
       /\ m.term = currentTerm[m.src]
       /\ IsPiece(m, log[m.src])

\* A log stays, or a follower takes over what the leader of its term had.
LogsKept(L) ==
  \A i \in Server :
    \/ log'[i] = log[i]
    \/ /\ state'[i] = "Follower"
       /\ \E e \in elected : e.term = currentTerm'[i]
       /\ Merged(log'[i], log[i], L[currentTerm'[i]])

Quiet(L) == RolesKept /\ AppendsKept /\ LogsKept(L)

LEMMA RoleStep ==
  ASSUME TypeOK, TypeOK', RoleInv, RolesKept, AppendsKept
  PROVE  RoleInv'
<1>1. \A i \in Server : currentTerm[i] \in Nat /\ currentTerm'[i] \in Nat
  BY DEF TypeOK
<1>2. HintIsElected'
  <2> SUFFICES ASSUME NEW i \in Server, state'[i] = "Follower", currentLeader'[i] # Nil
               PROVE  [term |-> currentTerm'[i], node |-> currentLeader'[i]] \in elected'
    BY DEF HintIsElected
  <2> QED BY DEF RolesKept, RoleInv, HintIsElected
<1>3. \A i \in Server :
        state'[i] = "Leader" => [term |-> currentTerm'[i], node |-> i] \in elected'
  BY DEF RolesKept, RoleInv
<1>4. ASSUME NEW e \in elected'
      PROVE  /\ e.term <= currentTerm'[e.node]
             /\ e.term = currentTerm'[e.node] => state'[e.node] # "Candidate"
  <2>1. e \in elected /\ e.node \in Server /\ e.term \in Nat
    BY DEF RolesKept, TypeOK
  <2>2. /\ e.term <= currentTerm[e.node]
        /\ e.term = currentTerm[e.node] => state[e.node] # "Candidate"
    BY <2>1 DEF RoleInv
  <2>3. /\ currentTerm'[e.node] >= currentTerm[e.node]
        /\ state'[e.node] = "Candidate" =>
             \/ currentTerm'[e.node] > currentTerm[e.node]
             \/ currentTerm'[e.node] = currentTerm[e.node] /\ state[e.node] = "Candidate"
    <3>1. PICK i \in Server : i = e.node
      BY <2>1
    <3>2. \/ currentTerm'[i] = currentTerm[i] /\ state'[i] = state[i]
          \/ currentTerm'[i] >= currentTerm[i] /\ state'[i] = "Follower"
          \/ currentTerm'[i] > currentTerm[i]
      BY DEF RolesKept
    <3> QED BY <1>1, <3>1, <3>2
  <2> QED BY <1>1, <2>1, <2>2, <2>3
<1>5. ASSUME NEW m \in appendRequests'
      PROVE  [term |-> m.term, node |-> m.src] \in elected'
  <2>1. CASE m \in appendRequests
    BY <2>1 DEF RolesKept, RoleInv
  <2>2. ASSUME NEW old \in appendRequests, m = [old EXCEPT !.awaited = FALSE]
        PROVE  [term |-> m.term, node |-> m.src] \in elected'
    <3>1. m.term = old.term /\ m.src = old.src
      BY <2>2 DEF TypeOK, AppendRequest
    <3> QED BY <3>1 DEF RolesKept, RoleInv
  <2>3. CASE m.src \in Server /\ state[m.src] = "Leader" /\ m.term = currentTerm[m.src]
    BY <2>3 DEF RolesKept, RoleInv
  <2> QED BY <2>1, <2>2, <2>3 DEF AppendsKept
<1> QED BY <1>2, <1>3, <1>4, <1>5 DEF RoleInv

LEMMA QuietLedger ==
  ASSUME TypeInv, TypeInv', NEW L, LedgerInv(L), Quiet(L)
  PROVE  LedgerInv(L)'
<1>1. \A i \in Server : currentTerm[i] \in Nat /\ currentTerm'[i] \in Nat
  BY DEF TypeInv, TypeOK
<1>2. \A i \in Server : currentTerm'[i] >= currentTerm[i]
  <2> SUFFICES ASSUME NEW i \in Server PROVE currentTerm'[i] >= currentTerm[i]
    OBVIOUS
  <2>1. currentTerm'[i] = currentTerm[i] \/ currentTerm'[i] >= currentTerm[i]
          \/ currentTerm'[i] > currentTerm[i]
    BY DEF Quiet, RolesKept
  <2> QED BY <1>1, <2>1
<1>3. ASSUME NEW i \in Server
      PROVE  \E t \in 0..currentTerm'[i] : Begins(log'[i], L[t])
  <2>1. CASE log'[i] = log[i]
    <3>1. PICK t \in 0..currentTerm[i] : Begins(log[i], L[t])
      BY DEF LedgerInv, LogsFromLeaders
    <3>2. t \in 0..currentTerm'[i]
      BY <1>1, <1>2
    <3> QED BY <2>1, <3>1, <3>2
  <2>2. CASE log'[i] # log[i]
    <3>1. Begins(log'[i], L[currentTerm'[i]])
      BY <2>2 DEF Quiet, LogsKept, Merged
    <3> QED BY <1>1, <3>1
  <2> QED BY <2>1, <2>2
<1>4. \A i \in Server : state'[i] = "Leader" => log'[i] = L[currentTerm'[i]]
  BY DEF Quiet, RolesKept, LogsKept, LedgerInv, LogsFromLeaders
<1>5. ASSUME NEW m \in appendRequests'
      PROVE  IsPiece(m, L[m.term])
  <2>1. CASE m \in appendRequests
    BY <2>1 DEF LedgerInv
  <2>2. ASSUME NEW old \in appendRequests, m = [old EXCEPT !.awaited = FALSE]
        PROVE  IsPiece(m, L[m.term])
    <3>1. /\ m.term = old.term
          /\ m.entries = old.entries
          /\ m.prevIndex = old.prevIndex
          /\ m.prevTerm = old.prevTerm
      BY <2>2 DEF TypeInv, TypeOK, AppendRequest
    <3>2. IsPiece(old, L[old.term])
      BY DEF LedgerInv
    <3> QED BY <3>1, <3>2 DEF IsPiece
  <2>3. CASE /\ m.src \in Server
             /\ state[m.src] = "Leader"
             /\ m.term = currentTerm[m.src]
             /\ IsPiece(m, log[m.src])
    BY <2>3 DEF LedgerInv, LogsFromLeaders
  <2> QED BY <2>1, <2>2, <2>3 DEF Quiet, AppendsKept
<1>6. LogsFromLeaders(L)'
  BY <1>3, <1>4 DEF LogsFromLeaders
<1>7. \A t \in Nat : L[t] # <<>> => \E e \in elected' : e.term = t
  BY DEF LedgerInv, Quiet, RolesKept
<1>8. EntriesFromLeaders(L)
  BY DEF LedgerInv
<1> QED BY <1>5, <1>6, <1>7, <1>8 DEF LedgerInv, EntriesFromLeaders

-------------------------------------------------------------------------------
(* The two steps that are different.                                       *)

\* The log of a leader becomes g: its own log, and perhaps an entry of its term.
LeaderHas(i, g) ==
  /\ UNCHANGED <<currentTerm, appendRequests>>
  /\ state'[i] = "Leader"
  /\ log'[i] = g
  /\ \A j \in Server \ {i} : log'[j] = log[j] /\ state'[j] = state[j]
  /\ elected \subseteq elected'
  /\ Begins(log[i], g)
  /\ \A k \in DOMAIN g : k \in DOMAIN log[i] \/ g[k].term = currentTerm[i]

LEMMA LedgerGrows ==
  ASSUME TypeInv, TypeInv', ElectionSafety', RoleInv', NEW L, LedgerInv(L),
         NEW i \in Server, NEW g, LeaderHas(i, g),
         NEW T, T = currentTerm[i], Begins(L[T], g),
         NEW M, M = [L EXCEPT ![T] = g]
  PROVE  /\ LedgerInv(M)'
         /\ \A t \in Nat : Begins(L[t], M[t])
<1>1. /\ T \in Nat /\ currentTerm' = currentTerm /\ appendRequests' = appendRequests
      /\ \A j \in Server : currentTerm[j] \in Nat
      /\ \A t \in Nat : L[t] \in Seq(Entry)
      /\ \A j \in Server : log[j] \in Seq(Entry)
      /\ g \in Seq(Entry) /\ log'[i] = g
  BY DEF TypeInv, TypeOK, LedgerInv, LeaderHas
<1>2. /\ M \in [Nat -> Seq(Entry)]
      /\ M[T] = g
      /\ \A t \in Nat \ {T} : M[t] = L[t]
      /\ \A t \in Nat : M[t] \in Seq(Entry)
  BY <1>1 DEF LedgerInv
<1>3. \A a \in Seq(Entry) : Len(a) \in Nat /\ DOMAIN a = 1..Len(a)
  OBVIOUS
<1>4. \A e \in Entry : e.term \in Nat
  BY DEF Entry
<1>5. \A a, b, c \in Seq(Entry) : \A k, n, x \in Nat :
        Agree(a, b, k) /\ Agree(b, c, n) /\ x <= k /\ x <= n => Agree(a, c, x)
  BY AgreeTransitive
<1>6. ASSUME NEW t \in Nat
      PROVE  Begins(L[t], M[t])
  <2>1. CASE t = T
    BY <1>2, <2>1
  <2>2. CASE t # T
    <3>1. PICK a \in Seq(Entry) : a = L[t] /\ a = M[t]
      BY <1>1, <1>2, <2>2
    <3>2. Begins(a, a)
      BY DEF Begins, Agree
    <3> QED BY <3>1, <3>2
  <2> QED BY <2>1, <2>2
<1>7. \A t \in Nat : \A k \in DOMAIN L[t] :
        L[t][k].term \in Nat /\ L[t][k].term <= t /\ Agree(L[t], L[L[t][k].term], k)
  <2> SUFFICES ASSUME NEW t \in Nat, NEW k \in DOMAIN L[t]
               PROVE  L[t][k].term \in Nat /\ L[t][k].term <= t
                        /\ Agree(L[t], L[L[t][k].term], k)
    OBVIOUS
  <2>1. L[t][k] \in Entry
    <3>1. PICK a \in Seq(Entry) : a = L[t]
      BY <1>1
    <3> QED BY <3>1
  <2> QED BY <1>4, <2>1 DEF LedgerInv, EntriesFromLeaders
<1>8. ASSUME NEW t \in Nat, NEW k \in DOMAIN L[t]
      PROVE  Agree(L[t], M[L[t][k].term], k)
  <2>1. PICK u \in Nat : u = L[t][k].term /\ Agree(L[t], L[u], k)
    BY <1>7
  <2>2. Agree(L[u], M[u], Len(L[u]))
    BY <1>6 DEF Begins
  <2>3. k \in Nat /\ k <= k /\ k <= Len(L[u]) /\ Len(L[u]) \in Nat
    BY <1>1, <1>3, <2>1 DEF Agree
  <2>4. Agree(L[t], M[u], k)
    BY <1>1, <1>2, <1>5, <2>1, <2>2, <2>3, Zenon
  <2> QED BY <2>1, <2>4
<1>9. ASSUME NEW k \in DOMAIN g
      PROVE  g[k].term <= T /\ Agree(g, M[g[k].term], k)
  <2>1. CASE g[k].term = T
    <3>1. Agree(g, g, k)
      BY <1>1 DEF Agree
    <3> QED BY <1>1, <1>2, <2>1, <3>1
  <2>2. CASE g[k].term # T
    <3>1. k \in DOMAIN log[i] /\ Begins(log[i], g)
      BY <2>2 DEF LeaderHas
    <3>2. PICK s \in 0..T : Begins(log[i], L[s])
      BY DEF LedgerInv, LogsFromLeaders
    <3>3. PICK l \in Seq(Entry), h \in Seq(Entry) : l = log[i] /\ h = L[s] /\ s \in Nat
      BY <1>1
    <3>4. k \in 1..Len(l) /\ Begins(l, g) /\ Begins(l, h)
      BY <1>3, <3>1, <3>2, <3>3
    <3>5. /\ k \in DOMAIN h /\ k \in Nat /\ g[k] = h[k]
          /\ Agree(g, h, k)
      <4>1. /\ k \in Nat /\ k <= Len(g) /\ k <= Len(h) /\ k \in 1..Len(h)
            /\ \A n \in 1..k : n \in 1..Len(l)
        BY <1>1, <1>3, <3>4 DEF Begins, Agree
      <4>2. \A n \in 1..Len(l) : l[n] = g[n] /\ l[n] = h[n]
        BY <3>4 DEF Begins, Agree
      <4> QED BY <1>3, <3>4, <4>1, <4>2 DEF Agree
    <3>6. PICK u \in Nat : u = g[k].term /\ u <= s
      BY <1>7, <3>3, <3>5
    <3>7. Agree(h, M[u], k)
      BY <1>8, <3>3, <3>6, <3>5
    <3>8. k <= k
      BY <3>5
    <3>9. Agree(g, M[u], k)
      BY <1>1, <1>2, <1>5, <3>5, <3>7, <3>8, Zenon
    <3>10. u <= T
      BY <1>1, <3>6
    <3> QED BY <3>6, <3>9, <3>10
  <2> QED BY <2>1, <2>2
<1>10. EntriesFromLeaders(M)
  <2> SUFFICES ASSUME NEW t \in Nat, NEW k \in DOMAIN M[t]
               PROVE  M[t][k].term <= t /\ Agree(M[t], M[M[t][k].term], k)
    BY DEF EntriesFromLeaders
  <2> QED BY <1>2, <1>7, <1>8, <1>9
<1>11. \A t \in Nat : \A k \in DOMAIN M[t] : M[t][k].index = k
  <2>1. \A k \in DOMAIN g : g[k].index = k
    BY <1>1 DEF TypeInv, IndexIsPosition
  <2> QED BY <1>2, <2>1 DEF LedgerInv
<1>12. [term |-> T, node |-> i] \in elected'
  BY <1>1 DEF RoleInv, LeaderHas
<1>13. \A t \in Nat : M[t] # <<>> => \E e \in elected' : e.term = t
  BY <1>2, <1>12 DEF LedgerInv, LeaderHas
<1>14. ASSUME NEW j \in Server
       PROVE  /\ \E t \in 0..currentTerm[j] : Begins(log'[j], M[t])
              /\ state'[j] = "Leader" => log'[j] = M[currentTerm[j]]
  <2>1. CASE j = i
    <3>1. Begins(g, M[T])
      BY <1>1, <1>2 DEF Begins, Agree
    <3>2. T \in 0..currentTerm[j] /\ log'[j] = g /\ currentTerm[j] = T
      BY <1>1, <2>1
    <3> QED BY <1>2, <3>1, <3>2, Zenon
  <2>2. CASE j # i
    <3>1. log'[j] = log[j] /\ state'[j] = state[j]
      BY <2>2 DEF LeaderHas
    <3>2. PICK t \in 0..currentTerm[j] : Begins(log[j], L[t])
      BY DEF LedgerInv, LogsFromLeaders
    <3>3. Begins(log[j], M[t])
      <4>1. t \in Nat
        BY <1>1
      <4>2. PICK a \in Seq(Entry), b \in Seq(Entry), c \in Seq(Entry) :
              a = log[j] /\ b = L[t] /\ c = M[t]
        BY <1>1, <1>2, <4>1
      <4>3. Begins(a, b) /\ Begins(b, c)
        BY <1>6, <3>2, <4>1, <4>2
      <4>4. Begins(a, c)
        BY <4>3 DEF Begins, Agree
      <4> QED BY <4>2, <4>4
    <3>4. ASSUME state'[j] = "Leader"
          PROVE  log[j] = M[currentTerm[j]]
      <4>1. [term |-> currentTerm[j], node |-> j] \in elected'
        BY <1>1, <3>4 DEF RoleInv
      <4>2. currentTerm[j] # T
        BY <1>12, <2>2, <4>1 DEF ElectionSafety
      <4> QED BY <1>1, <1>2, <3>1, <3>4, <4>2 DEF LedgerInv, LogsFromLeaders
    <3> QED BY <3>1, <3>2, <3>3, <3>4
  <2> QED BY <2>1, <2>2
<1>15. LogsFromLeaders(M)'
  BY <1>1, <1>14 DEF LogsFromLeaders
<1>16. ASSUME NEW m \in appendRequests
       PROVE  IsPiece(m, M[m.term])
  <2>1. m \in AppendRequest /\ m.term \in Nat
    BY DEF TypeInv, TypeOK, AppendRequest
  <2>2. IsPiece(m, L[m.term])
    BY DEF LedgerInv
  <2> QED BY <1>1, <1>2, <1>6, <2>1, <2>2, PieceGrows
<1> QED BY <1>1, <1>2, <1>6, <1>10, <1>11, <1>13, <1>15, <1>16 DEF LedgerInv, EntriesFromLeaders

\* A node that is elected: its term had no leader before.
LEMMA CountVoteElects ==
  ASSUME TypeInv, TypeInv', ElectionSafety', RoleInv, NEW m \in voteReplies, CountVote(m),
         votes[m.dst] + 1 >= Majority
  PROVE  /\ RoleInv'
         /\ LeaderHas(m.dst, log[m.dst])
         /\ elected' = elected \cup {[term |-> currentTerm[m.dst], node |-> m.dst]}
         /\ \A e \in elected : e.term # currentTerm[m.dst]
<1> DEFINE i == m.dst
           new == [term |-> currentTerm[i], node |-> i]
<1>1. /\ i \in Server /\ state[i] = "Candidate" /\ currentTerm[i] \in Nat
      /\ UNCHANGED <<currentTerm, votedFor, log, appendRequests>>
  BY DEF CountVote, Counts, TypeInv, TypeOK, VoteReply, persistent, appendRPC
<1>2. /\ state' = [state EXCEPT ![i] = "Leader"]
      /\ currentLeader' = [currentLeader EXCEPT ![i] = i]
      /\ elected' = elected \cup {new}
  BY DEF CountVote, BecomeLeader
<1>3. /\ state'[i] = "Leader"
      /\ \A j \in Server \ {i} : state'[j] = state[j] /\ currentLeader'[j] = currentLeader[j]
  BY <1>1, <1>2 DEF TypeInv, TypeOK
<1>4. RoleInv'
  <2>1. HintIsElected'
    BY <1>1, <1>2, <1>3 DEF RoleInv, HintIsElected
  <2>2. \A j \in Server :
          state'[j] = "Leader" => [term |-> currentTerm'[j], node |-> j] \in elected'
    BY <1>1, <1>2, <1>3 DEF RoleInv
  <2>3. ASSUME NEW e \in elected'
        PROVE  /\ e.term <= currentTerm'[e.node]
               /\ e.term = currentTerm'[e.node] => state'[e.node] # "Candidate"
    <3>1. e.node \in Server
      BY DEF TypeInv, TypeOK
    <3>2. CASE e = new
      BY <1>1, <1>3, <3>2
    <3>3. CASE e # new
      BY <1>1, <1>2, <1>3, <3>1, <3>3 DEF RoleInv
    <3> QED BY <3>2, <3>3
  <2>4. \A r \in appendRequests' : [term |-> r.term, node |-> r.src] \in elected'
    BY <1>1, <1>2 DEF RoleInv
  <2> QED BY <2>1, <2>2, <2>3, <2>4 DEF RoleInv
<1>5. LeaderHas(i, log[i])
  <2>1. Begins(log[i], log[i])
    BY <1>1 DEF TypeInv, TypeOK, Begins, Agree
  <2> QED BY <1>1, <1>2, <1>3, <2>1 DEF LeaderHas
<1>6. ASSUME NEW e \in elected, e.term = currentTerm[i]
      PROVE  FALSE
  <2>1. e.node = i
    <3>1. e \in elected' /\ new \in elected'
      BY <1>2
    <3>2. e.term = new.term => e.node = new.node
      BY <3>1 DEF ElectionSafety
    <3> QED BY <1>6, <3>2
  <2>2. e.term = currentTerm[e.node] => state[e.node] # "Candidate"
    BY DEF RoleInv
  <2> QED BY <1>1, <1>6, <2>1, <2>2
<1> QED BY <1>2, <1>4, <1>5, <1>6

\* The new leader's term had no log; now it has the winner's.
LEMMA CountVoteLedger ==
  ASSUME TypeInv, TypeInv', ElectionSafety', RoleInv, NEW L, LedgerInv(L),
         NEW m \in voteReplies, CountVote(m)
  PROVE  MatchingInv'
<1>1. CASE votes[m.dst] + 1 >= Majority
  <2>1. /\ RoleInv'
        /\ LeaderHas(m.dst, log[m.dst])
        /\ \A e \in elected : e.term # currentTerm[m.dst]
    BY <1>1, CountVoteElects
  <2>2. /\ m.dst \in Server /\ currentTerm[m.dst] \in Nat /\ log[m.dst] \in Seq(Entry)
    BY DEF TypeInv, TypeOK, VoteReply
  <2>3. L[currentTerm[m.dst]] = <<>>
    BY <2>1, <2>2 DEF LedgerInv
  <2>4. Begins(L[currentTerm[m.dst]], log[m.dst])
    BY <2>2, <2>3 DEF Begins, Agree
  <2>5. PICK M : M = [L EXCEPT ![currentTerm[m.dst]] = log[m.dst]]
    OBVIOUS
  <2>6. LedgerInv(M)'
    BY <2>1, <2>2, <2>4, <2>5, LedgerGrows
  <2> QED BY <2>1, <2>6 DEF MatchingInv
<1>2. CASE ~(votes[m.dst] + 1 >= Majority)
  <2>1. UNCHANGED <<currentTerm, log, appendRequests, state, currentLeader, elected>>
    BY <1>2 DEF CountVote, role, persistent, appendRPC
  <2>2. RoleInv'
    BY <2>1 DEF RoleInv, HintIsElected
  <2>3. LedgerInv(L)'
    BY <2>1 DEF LedgerInv, LogsFromLeaders, EntriesFromLeaders
  <2> QED BY <2>2, <2>3 DEF MatchingInv
<1> QED BY <1>1, <1>2

\* A leader that proposes has its own log and one entry of its term.
LEMMA ProposeLeads ==
  ASSUME TypeInv, TypeInv', RoleInv, NEW i \in Server, NEW cmd \in Command, Propose(i, cmd)
  PROVE  /\ RoleInv'
         /\ LeaderHas(i, log'[i])
         /\ state[i] = "Leader"
         /\ elected' = elected
         /\ Len(log'[i]) = Len(log[i]) + 1
<1>1. /\ state[i] = "Leader"
      /\ UNCHANGED <<currentTerm, state, currentLeader, appendRequests, elected>>
  BY DEF Propose, role, appendRPC, history
<1>2. PICK new : new = [term |-> currentTerm[i], index |-> LastLogIndex(log[i]) + 1,
                        cmd |-> cmd]
  OBVIOUS
<1>3. log[i] \in Seq(Entry) /\ currentTerm[i] \in Nat
  BY DEF TypeInv, TypeOK
<1>4. new \in Entry /\ new.term = currentTerm[i]
  <2>1. LastLogIndex(log[i]) + 1 \in Nat
    <3>1. LastLogIndex(log[i]) \in Nat
      BY <1>3, LastOfLog
    <3> QED BY <3>1
  <2> QED BY <1>2, <1>3, <2>1 DEF Entry
<1>5. PICK r : r = Append(log[i], new)
  OBVIOUS
<1>6. /\ Len(r) = Len(log[i]) + 1
      /\ \A n \in 1..Len(log[i]) : r[n] = log[i][n]
      /\ r[Len(log[i]) + 1] = new
      /\ DOMAIN r = 1..(Len(log[i]) + 1)
  BY <1>3, <1>4, <1>5
<1>7. /\ log'[i] = r
      /\ \A j \in Server \ {i} : log'[j] = log[j]
  BY <1>2, <1>5 DEF Propose, TypeInv, TypeOK
<1>8. RoleInv'
  BY <1>1 DEF RoleInv, HintIsElected
<1>9. Begins(log[i], r)
  BY <1>3, <1>6 DEF Begins, Agree
<1>10. \A k \in DOMAIN r : k \in DOMAIN log[i] \/ r[k].term = currentTerm[i]
  BY <1>3, <1>4, <1>6
<1> QED BY <1>1, <1>6, <1>7, <1>8, <1>9, <1>10 DEF LeaderHas

LEMMA ProposeLedger ==
  ASSUME TypeInv, TypeInv', ElectionSafety', RoleInv, NEW L, LedgerInv(L),
         NEW i \in Server, NEW cmd \in Command, Propose(i, cmd)
  PROVE  MatchingInv'
<1>1. RoleInv' /\ LeaderHas(i, log'[i]) /\ state[i] = "Leader"
  BY ProposeLeads
<1>2. Begins(L[currentTerm[i]], log'[i])
  BY <1>1 DEF LeaderHas, LedgerInv, LogsFromLeaders
<1>3. PICK M : M = [L EXCEPT ![currentTerm[i]] = log'[i]]
  OBVIOUS
<1>4. LedgerInv(M)'
  BY <1>1, <1>2, <1>3, LedgerGrows
<1> QED BY <1>1, <1>4 DEF MatchingInv

-------------------------------------------------------------------------------
(* The others are quiet: they keep roles, requests and logs.               *)

\* One node steps down.
LEMMA FollowerKept ==
  ASSUME TypeOK, NEW i \in Server, NEW term \in Nat, term >= currentTerm[i],
         currentTerm' = [currentTerm EXCEPT ![i] = term],
         state' = [state EXCEPT ![i] = "Follower"],
         NEW leader, currentLeader' = [currentLeader EXCEPT ![i] = leader],
         leader = Nil \/ [term |-> term, node |-> leader] \in elected,
         elected' = elected
  PROVE  RolesKept
<1>1. /\ currentTerm'[i] = term /\ state'[i] = "Follower" /\ currentLeader'[i] = leader
      /\ \A j \in Server \ {i} : /\ currentTerm'[j] = currentTerm[j]
                                 /\ state'[j] = state[j]
                                 /\ currentLeader'[j] = currentLeader[j]
  BY DEF TypeOK
<1> QED BY <1>1 DEF RolesKept

LEMMA RolesSame ==
  ASSUME UNCHANGED <<currentTerm, state, currentLeader, elected>>
  PROVE  RolesKept
BY DEF RolesKept

LEMMA AppendsSubset ==
  ASSUME appendRequests' \subseteq appendRequests
  PROVE  AppendsKept
BY DEF AppendsKept

LEMMA AppendsAbandoned ==
  ASSUME NEW i, appendRequests' = Abandon(i, appendRequests)
  PROVE  AppendsKept
BY DEF AppendsKept, Abandon

\* Two beginnings of what leaders had match.
LEMMA LedgersMatch ==
  ASSUME NEW L, LedgerInv(L), NEW s \in Nat, NEW t \in Nat,
         NEW a \in Seq(Entry), NEW b \in Seq(Entry), Begins(a, L[s]), Begins(b, L[t])
  PROVE  Matching(a, b)
<1> SUFFICES ASSUME NEW k \in DOMAIN a \cap DOMAIN b, a[k].term = b[k].term, NEW n \in 1..k
             PROVE  a[n] = b[n]
  BY DEF Matching
<1>1. L[s] \in Seq(Entry) /\ L[t] \in Seq(Entry)
  BY DEF LedgerInv
<1>2. /\ k \in DOMAIN L[s] /\ k \in DOMAIN L[t]
      /\ a[k] = L[s][k] /\ b[k] = L[t][k]
      /\ a[n] = L[s][n] /\ b[n] = L[t][n]
  BY <1>1 DEF Begins, Agree
<1>3. PICK u : u = a[k].term
  OBVIOUS
<1>4. Agree(L[s], L[u], k) /\ Agree(L[t], L[u], k)
  BY <1>2, <1>3 DEF LedgerInv, EntriesFromLeaders
<1> QED BY <1>2, <1>4 DEF Agree

\* What integrateEntriesLocked makes of a log and a request begins what the leader
\* had, and loses nothing of it.
LEMMA RequestIntegrated ==
  ASSUME TypeInv, NEW L, LedgerInv(L), NEW m \in appendRequests,
         PrevMatches(log[m.dst], m.prevIndex, m.prevTerm)
  PROVE  /\ \A r \in {IntegrateEntries(log[m.dst], m.entries)}
                       \cup InterruptedIntegrations(log[m.dst], m.entries) :
              r = log[m.dst] \/ Merged(r, log[m.dst], L[m.term])
         /\ Agree(IntegrateEntries(log[m.dst], m.entries), L[m.term],
                  m.prevIndex + Len(m.entries))
<1>1. PICK l : l = log[m.dst]
  OBVIOUS
<1>2. /\ m.dst \in Server /\ m.entries \in Seq(Entry) /\ m.prevIndex \in Nat /\ m.term \in Nat
      /\ l \in Seq(Entry)
  BY <1>1 DEF TypeInv, TypeOK, AppendRequest
<1>3. PICK g \in Seq(Entry) : g = L[m.term]
  BY <1>2 DEF LedgerInv
<1>4. Positioned(g, 0) /\ Matching(l, g)
  <2>1. \A k \in DOMAIN g : g[k].index = k
    BY <1>2, <1>3 DEF LedgerInv
  <2>2. \A k \in DOMAIN g : 0 + k = k
    OBVIOUS
  <2>3. PICK t \in 0..currentTerm[m.dst] : Begins(l, L[t])
    BY <1>1, <1>2 DEF LedgerInv, LogsFromLeaders
  <2>4. Begins(g, g)
    BY DEF Begins, Agree
  <2>5. t \in Nat
    BY <1>2 DEF TypeInv, TypeOK
  <2>6. Matching(l, g)
    BY <1>2, <1>3, <2>3, <2>4, <2>5, LedgersMatch
  <2> QED BY <2>1, <2>2, <2>6 DEF Positioned
<1>5. /\ m.prevIndex + Len(m.entries) <= Len(g)
      /\ m.prevIndex > 0 => m.prevTerm = g[m.prevIndex].term
      /\ \A n \in DOMAIN m.entries : m.entries[n] = g[m.prevIndex + n]
  <2>1. IsPiece(m, g)
    BY <1>3 DEF LedgerInv
  <2>2. m.prevIndex > 0 => m.prevTerm # 0
    BY DEF PrevMatches
  <2> QED BY <2>1, <2>2 DEF IsPiece
<1>6. PICK p \in 0..Len(g) : p = m.prevIndex
  BY <1>2, <1>5
<1>7. PICK es \in Seq(Entry) : es = m.entries
  BY <1>2
<1>8. /\ p > 0 => p \in 1..Len(l) /\ l[p].term = g[p].term
      /\ Len(es) <= Len(g) - p
      /\ \A n \in 1..Len(es) : es[n] = g[p + n]
  <2>1. p > 0 => p \in 1..Len(l) /\ l[p].term = g[p].term
    BY <1>1, <1>5, <1>6 DEF PrevMatches, TermAt
  <2>2. Len(es) <= Len(g) - p
    BY <1>5, <1>6, <1>7
  <2> QED BY <1>5, <1>6, <1>7, <2>1, <2>2
<1>9. /\ \A r \in {IntegrateEntries(l, es)} \cup InterruptedIntegrations(l, es) :
           r = l \/ Merged(r, l, g)
      /\ Agree(IntegrateEntries(l, es), g, p + Len(es))
  BY <1>2, <1>4, <1>8, EntryIsEntryOf, IntegrationBegins
<1> QED BY <1>1, <1>3, <1>6, <1>7, <1>9

LEMMA StartElectionQuiet ==
  ASSUME TypeInv, NEW L, NEW i \in Server, StartElection(i)
  PROVE  Quiet(L)
<1>1. /\ currentTerm' = [currentTerm EXCEPT ![i] = currentTerm[i] + 1]
      /\ state' = [state EXCEPT ![i] = "Candidate"]
      /\ UNCHANGED <<log, currentLeader, appendRequests, elected>>
  BY DEF StartElection, SetTermAndVote, appendRPC
<1>2. /\ currentTerm[i] \in Nat
      /\ currentTerm'[i] = currentTerm[i] + 1 /\ state'[i] = "Candidate"
      /\ \A j \in Server \ {i} : currentTerm'[j] = currentTerm[j] /\ state'[j] = state[j]
  BY <1>1 DEF TypeInv, TypeOK
<1>3. currentTerm'[i] > currentTerm[i]
  BY <1>2
<1>4. RolesKept
  BY <1>1, <1>2, <1>3 DEF RolesKept
<1> QED BY <1>1, <1>4, AppendsSubset DEF Quiet, LogsKept

\* A process dies; what is on its disk afterwards is its log or a beginning of one.
LEMMA RebootQuiet ==
  ASSUME TypeInv, NEW L, NEW i \in Server, NEW pending, Reboot(i, pending),
         NEW term \in Nat, term >= currentTerm[i],
         currentTerm' = [currentTerm EXCEPT ![i] = term], elected' = elected,
         NEW l, log' = [log EXCEPT ![i] = l],
         \/ l = log[i]
         \/ Merged(l, log[i], L[term]) /\ \E e \in elected : e.term = term
  PROVE  Quiet(L)
<1>1. /\ state' = [state EXCEPT ![i] = "Follower"]
      /\ currentLeader' = [currentLeader EXCEPT ![i] = Nil]
      /\ appendRequests' = Abandon(i, appendRequests)
  BY DEF Reboot
<1>2. RolesKept
  BY <1>1, FollowerKept DEF TypeInv
<1>3. AppendsKept
  BY <1>1, AppendsAbandoned
<1>4. LogsKept(L)
  <2>1. /\ log'[i] = l /\ state'[i] = "Follower" /\ currentTerm'[i] = term
        /\ \A j \in Server \ {i} : log'[j] = log[j]
    BY <1>1 DEF TypeInv, TypeOK
  <2> QED BY <2>1 DEF LogsKept
<1> QED BY <1>2, <1>3, <1>4 DEF Quiet

LEMMA CrashQuiet ==
  ASSUME TypeInv, NEW L, NEW i \in Server, Crash(i)
  PROVE  Quiet(L)
<1>1. /\ Reboot(i, voteRequests)
      /\ UNCHANGED <<currentTerm, log, elected>>
  BY DEF Crash, persistent
<1>2. /\ currentTerm[i] \in Nat
      /\ currentTerm' = [currentTerm EXCEPT ![i] = currentTerm[i]]
      /\ log' = [log EXCEPT ![i] = log[i]]
  BY <1>1 DEF TypeInv, TypeOK
<1>3. currentTerm[i] >= currentTerm[i]
  BY <1>2
<1> QED BY <1>1, <1>2, <1>3, RebootQuiet

LEMMA CrashBeforeVoteQuiet ==
  ASSUME TypeInv, NEW L, NEW m \in voteRequests, CrashBeforeVote(m)
  PROVE  Quiet(L)
<1>1. m.dst \in Server /\ m.term \in Nat /\ currentTerm[m.dst] \in Nat
  BY DEF TypeInv, TypeOK, VoteRequest
<1>2. /\ m.term > currentTerm[m.dst]
      /\ Reboot(m.dst, voteRequests \ {m})
      /\ currentTerm' = [currentTerm EXCEPT ![m.dst] = m.term]
      /\ UNCHANGED <<log, elected>>
  BY DEF CrashBeforeVote, SetTermAndVote
<1>3. log' = [log EXCEPT ![m.dst] = log[m.dst]] /\ m.term >= currentTerm[m.dst]
  BY <1>1, <1>2 DEF TypeInv, TypeOK
<1> QED BY <1>1, <1>2, <1>3, RebootQuiet

LEMMA CrashWhileAppendingQuiet ==
  ASSUME TypeInv, RoleInv, NEW L, LedgerInv(L), NEW m \in appendRequests,
         CrashWhileAppending(m)
  PROVE  Quiet(L)
<1>1. m.dst \in Server /\ m.term \in Nat
  BY DEF TypeInv, TypeOK, AppendRequest
<1>2. /\ m.term >= currentTerm[m.dst]
      /\ PrevMatches(log[m.dst], m.prevIndex, m.prevTerm)
      /\ Reboot(m.dst, voteRequests)
      /\ currentTerm' = [currentTerm EXCEPT ![m.dst] = m.term]
      /\ elected' = elected
  BY DEF CrashWhileAppending, SetTermAndVote
<1>3. PICK l \in InterruptedIntegrations(log[m.dst], m.entries) :
        log' = [log EXCEPT ![m.dst] = l]
  BY DEF CrashWhileAppending
<1>4. l = log[m.dst] \/ Merged(l, log[m.dst], L[m.term])
  BY <1>2, RequestIntegrated
<1>5. \E e \in elected : e.term = m.term
  BY DEF RoleInv
<1> QED BY <1>1, <1>2, <1>3, <1>4, <1>5, RebootQuiet

\* The steps that leave roles, logs and requests alone.
LEMMA SameQuiet ==
  ASSUME NEW L, UNCHANGED <<currentTerm, state, currentLeader, elected, log>>,
         appendRequests' \subseteq appendRequests
  PROVE  Quiet(L)
BY RolesSame, AppendsSubset DEF Quiet, LogsKept

\* A node steps down and keeps its log.
LEMMA StepsDownQuiet ==
  ASSUME TypeInv, NEW L, NEW i \in Server, NEW term \in Nat, term >= currentTerm[i],
         NEW leader, BecomeFollower(i, term, leader),
         leader = Nil \/ [term |-> term, node |-> leader] \in elected,
         UNCHANGED <<elected, log>>, appendRequests' \subseteq appendRequests
  PROVE  Quiet(L)
<1>1. RolesKept
  BY FollowerKept DEF BecomeFollower, SetTermAndVote, TypeInv
<1> QED BY <1>1, AppendsSubset DEF Quiet, LogsKept

LEMMA HandleRequestVoteQuiet ==
  ASSUME TypeInv, NEW L, NEW m \in voteRequests, HandleRequestVote(m)
  PROVE  Quiet(L)
<1>1. m.dst \in Server /\ m.term \in Nat /\ currentTerm[m.dst] \in Nat
  BY DEF TypeInv, TypeOK, VoteRequest
<1>2. CASE RejectStaleCandidate(m)
  BY <1>2, SameQuiet DEF RejectStaleCandidate, persistent, role, appendRPC, history
<1>3. CASE DenyVote(m)
  <2>1. UNCHANGED <<log, appendRequests, elected>> /\ m.term >= currentTerm[m.dst]
    BY <1>3 DEF DenyVote, appendRPC, history
  <2>2. CASE m.term > currentTerm[m.dst]
    <3>1. BecomeFollower(m.dst, m.term, Nil)
      BY <1>3, <2>2 DEF DenyVote
    <3> QED BY <1>1, <2>1, <3>1, StepsDownQuiet
  <2>3. CASE ~(m.term > currentTerm[m.dst])
    <3>1. UNCHANGED <<currentTerm, state, currentLeader>>
      BY <1>3, <2>3 DEF DenyVote, role
    <3> QED BY <2>1, <3>1, SameQuiet
  <2> QED BY <2>2, <2>3
<1>4. CASE GrantVote(m)
  <2>1. /\ UNCHANGED <<log, appendRequests, elected>> /\ m.term >= currentTerm[m.dst]
        /\ currentTerm' = [currentTerm EXCEPT ![m.dst] = m.term]
    BY <1>4 DEF GrantVote, appendRPC, SetTermAndVote
  <2>2. CASE m.term > currentTerm[m.dst]
    <3>1. /\ state' = [state EXCEPT ![m.dst] = "Follower"]
          /\ currentLeader' = [currentLeader EXCEPT ![m.dst] = Nil]
      BY <1>4, <2>2 DEF GrantVote
    <3>2. RolesKept
      BY <1>1, <2>1, <3>1, FollowerKept DEF TypeInv
    <3> QED BY <2>1, <3>2, AppendsSubset DEF Quiet, LogsKept
  <2>3. CASE ~(m.term > currentTerm[m.dst])
    <3>1. UNCHANGED <<state, currentLeader>>
      BY <1>4, <2>3 DEF GrantVote, role
    <3>2. m.term = currentTerm[m.dst]
      BY <1>1, <2>1, <2>3
    <3>3. currentTerm' = currentTerm
      BY <2>1, <3>2 DEF TypeInv, TypeOK
    <3> QED BY <2>1, <3>1, <3>3, SameQuiet
  <2> QED BY <2>2, <2>3
<1> QED BY <1>2, <1>3, <1>4 DEF HandleRequestVote

LEMMA HandleVoteReplyQuiet ==
  ASSUME TypeInv, NEW L, NEW m \in voteReplies, StepDownOnVoteReply(m) \/ IgnoreVoteReply(m)
  PROVE  Quiet(L)
<1>1. m.dst \in Server /\ m.term \in Nat /\ currentTerm[m.dst] \in Nat
  BY DEF TypeInv, TypeOK, VoteReply
<1>2. CASE StepDownOnVoteReply(m)
  <2>1. /\ UNCHANGED <<log, appendRequests, elected>>
        /\ m.term > currentTerm[m.dst]
        /\ BecomeFollower(m.dst, m.term, Nil)
    BY <1>2 DEF StepDownOnVoteReply, appendRPC, history
  <2>2. m.term >= currentTerm[m.dst]
    BY <1>1, <2>1
  <2> QED BY <1>1, <2>1, <2>2, StepsDownQuiet
<1>3. CASE IgnoreVoteReply(m)
  BY <1>3, SameQuiet DEF IgnoreVoteReply, persistent, role, appendRPC, history
<1> QED BY <1>2, <1>3

LEMMA HandleAppendEntriesQuiet ==
  ASSUME TypeInv, RoleInv, NEW L, LedgerInv(L), NEW m \in appendRequests,
         HandleAppendEntries(m) \/ LoseAppendRequest(m)
  PROVE  Quiet(L)
<1>1. m.dst \in Server /\ m.term \in Nat /\ currentTerm[m.dst] \in Nat
  BY DEF TypeInv, TypeOK, AppendRequest
<1>2. [term |-> m.term, node |-> m.src] \in elected
  BY DEF RoleInv
<1>3. CASE LoseAppendRequest(m)
  BY <1>3, SameQuiet DEF LoseAppendRequest, persistent, role, history
<1>4. CASE RejectStaleLeader(m)
  <2>1. /\ UNCHANGED <<currentTerm, state, currentLeader, elected, log>>
        /\ appendRequests' \subseteq appendRequests
    BY <1>4 DEF RejectStaleLeader, AnswerAppend, Take, persistent, role, history
  <2> QED BY <2>1, SameQuiet
<1>5. CASE RejectMismatch(m)
  <2>1. /\ m.term >= currentTerm[m.dst]
        /\ BecomeFollower(m.dst, m.term, m.src)
        /\ UNCHANGED <<elected, log>>
        /\ appendRequests' \subseteq appendRequests
    BY <1>5 DEF RejectMismatch, AnswerAppend, Take, history
  <2> QED BY <1>1, <1>2, <2>1, StepsDownQuiet
<1>6. CASE AcceptEntries(m)
  <2>1. /\ m.term >= currentTerm[m.dst]
        /\ PrevMatches(log[m.dst], m.prevIndex, m.prevTerm)
        /\ BecomeFollower(m.dst, m.term, m.src)
        /\ log' = [log EXCEPT ![m.dst] = IntegrateEntries(log[m.dst], m.entries)]
        /\ elected' = elected
        /\ appendRequests' \subseteq appendRequests
    BY <1>6 DEF AcceptEntries, AnswerAppend, Take, history
  <2>2. RolesKept
    BY <1>1, <1>2, <2>1, FollowerKept DEF BecomeFollower, SetTermAndVote, TypeInv
  <2>3. \/ IntegrateEntries(log[m.dst], m.entries) = log[m.dst]
        \/ Merged(IntegrateEntries(log[m.dst], m.entries), log[m.dst], L[m.term])
    BY <2>1, RequestIntegrated
  <2>4. LogsKept(L)
    <3>1. /\ log'[m.dst] = IntegrateEntries(log[m.dst], m.entries)
          /\ state'[m.dst] = "Follower"
          /\ currentTerm'[m.dst] = m.term
          /\ \A j \in Server \ {m.dst} : log'[j] = log[j]
      BY <1>1, <2>1 DEF TypeInv, TypeOK, BecomeFollower, SetTermAndVote
    <3>2. \E e \in elected : e.term = m.term
      BY <1>2
    <3> QED BY <2>3, <3>1, <3>2 DEF LogsKept
  <2> QED BY <2>1, <2>2, <2>4, AppendsSubset DEF Quiet
<1> QED BY <1>3, <1>4, <1>5, <1>6 DEF HandleAppendEntries

LEMMA HandleAppendReplyQuiet ==
  ASSUME TypeInv, NEW L, NEW m \in appendReplies, HandleAppendReply(m) \/ LoseAppendReply(m)
  PROVE  Quiet(L)
<1>1. m.dst \in Server /\ m.term \in Nat /\ currentTerm[m.dst] \in Nat
  BY DEF TypeInv, TypeOK, AppendReply
<1>2. CASE StepDownOnAppendReply(m)
  <2>1. /\ UNCHANGED <<log, appendRequests, elected>>
        /\ m.term > currentTerm[m.dst]
        /\ BecomeFollower(m.dst, m.term, Nil)
    BY <1>2 DEF StepDownOnAppendReply, history
  <2>2. m.term >= currentTerm[m.dst]
    BY <1>1, <2>1
  <2> QED BY <1>1, <2>1, <2>2, StepsDownQuiet
<1>3. CASE IgnoreAppendReply(m) \/ BackOff(m) \/ LoseAppendReply(m) \/ AdvancePeer(m)
  <2>1. UNCHANGED <<currentTerm, state, currentLeader, elected, log, appendRequests>>
    BY <1>3 DEF IgnoreAppendReply, BackOff, LoseAppendReply, AdvancePeer, persistent, role,
                history
  <2> QED BY <2>1, SameQuiet
<1> QED BY <1>2, <1>3 DEF HandleAppendReply

\* replicateToPeer reads a piece of its own log.
LEMMA ReplicateToPeerQuiet ==
  ASSUME TypeInv, NEW L, NEW i \in Server, NEW j \in Server, NEW commit,
         ReplicateToPeer(i, j, commit)
  PROVE  Quiet(L)
<1>1. PICK next \in Nat : next = IF nextIndex[i][j] = 0 THEN 1 ELSE nextIndex[i][j]
  BY DEF TypeInv, TypeOK
<1>2. next \in Nat \ {0}
  BY <1>1
<1>3. PICK new :
        /\ new = [src |-> i, dst |-> j, term |-> currentTerm[i],
                  prevIndex |-> next - 1, prevTerm |-> TermAt(log[i], next - 1),
                  entries |-> EntriesFrom(log[i], next),
                  commit |-> commit, awaited |-> TRUE]
        /\ appendRequests' = appendRequests \cup {new}
  BY <1>1 DEF ReplicateToPeer
<1>4. /\ state[i] = "Leader"
      /\ UNCHANGED <<currentTerm, state, currentLeader, elected, log>>
  BY DEF ReplicateToPeer, persistent, role, history
<1>5. IsPiece(new, log[i])
  <2>1. PICK l \in Seq(Entry) : l = log[i]
    BY DEF TypeInv, TypeOK
  <2>2. /\ new.entries = SubSeq(l, next, Len(l))
        /\ new.prevIndex = next - 1
        /\ new.prevTerm = TermAt(l, next - 1)
    BY <1>3, <2>1 DEF EntriesFrom
  <2>3. CASE next <= Len(l) + 1
    <3>1. /\ Len(new.entries) = Len(l) + 1 - next
          /\ \A n \in 1..Len(new.entries) : new.entries[n] = l[next + n - 1]
          /\ DOMAIN new.entries = 1..Len(new.entries)
      BY <1>2, <2>2, <2>3
    <3>2. /\ new.prevIndex + Len(new.entries) <= Len(l)
          /\ \A n \in DOMAIN new.entries : new.entries[n] = l[new.prevIndex + n]
      BY <1>2, <2>2, <2>3, <3>1
    <3>3. new.prevIndex > 0 => new.prevTerm = l[new.prevIndex].term
      BY <1>2, <2>2, <2>3 DEF TermAt
    <3> QED BY <2>1, <3>2, <3>3 DEF IsPiece
  <2>4. CASE next > Len(l) + 1
    <3>1. new.prevIndex > 0 /\ new.prevTerm = 0
      BY <1>2, <2>2, <2>4 DEF TermAt
    <3> QED BY <3>1 DEF IsPiece
  <2> QED BY <1>2, <2>3, <2>4
<1>6. AppendsKept
  <2>1. new.src = i /\ new.term = currentTerm[i]
    BY <1>3
  <2> QED BY <1>3, <1>4, <1>5, <2>1 DEF AppendsKept
<1> QED BY <1>4, <1>6, RolesSame DEF Quiet, LogsKept

-------------------------------------------------------------------------------
LEMMA MatchingInit == Init => MatchingInv
<1> SUFFICES ASSUME Init PROVE MatchingInv
  OBVIOUS
<1>1. RoleInv
  BY DEF Init, RoleInv, HintIsElected
<1>2. PICK L : L = [t \in Nat |-> <<>>]
  OBVIOUS
<1>3. L \in [Nat -> Seq(Entry)] /\ \A t \in Nat : L[t] = <<>> /\ DOMAIN L[t] = {}
  BY <1>2
<1>4. LogsFromLeaders(L)
  <2>1. 0 \in 0..0
    OBVIOUS
  <2> QED BY <1>3, <2>1 DEF Init, LogsFromLeaders, Begins, Agree
<1>5. LedgerInv(L)
  BY <1>3, <1>4 DEF Init, LedgerInv, EntriesFromLeaders
<1> QED BY <1>1, <1>5 DEF MatchingInv

LEMMA QuietMatching ==
  ASSUME TypeInv, TypeInv', RoleInv, NEW L, LedgerInv(L), Quiet(L)
  PROVE  MatchingInv'
<1>1. RoleInv'
  BY RoleStep DEF Quiet, TypeInv
<1>2. LedgerInv(L)'
  BY QuietLedger
<1> QED BY <1>1, <1>2 DEF MatchingInv

LEMMA MatchingStep ==
  ASSUME TypeInv, TypeInv', ElectionSafety, ElectionSafety', MatchingInv, [Next]_vars
  PROVE  MatchingInv'
<1>1. RoleInv
  BY DEF MatchingInv
<1>2. PICK L : LedgerInv(L)
  BY DEF MatchingInv
<1>3. ASSUME NEW i \in Server, NodeStep(i)
      PROVE  MatchingInv'
  <2>1. CASE StartElection(i)
    BY <1>1, <1>2, <2>1, StartElectionQuiet, QuietMatching
  <2>2. CASE Broadcast(i)
    <3>1. /\ UNCHANGED <<currentTerm, state, currentLeader, elected, log>>
          /\ appendRequests' \subseteq appendRequests
      BY <2>2 DEF Broadcast, persistent, role, appendRPC, history
    <3> QED BY <1>1, <1>2, <3>1, SameQuiet, QuietMatching
  <2>3. ASSUME NEW cmd \in Command, Propose(i, cmd)
        PROVE  MatchingInv'
    BY <1>1, <1>2, <2>3, ProposeLedger
  <2>4. ASSUME NEW j \in Server, NEW commit, ReplicateToPeer(i, j, commit)
        PROVE  MatchingInv'
    BY <1>1, <1>2, <2>4, ReplicateToPeerQuiet, QuietMatching
  <2>5. CASE Crash(i)
    BY <1>1, <1>2, <2>5, CrashQuiet, QuietMatching
  <2> QED BY <1>3, <2>1, <2>2, <2>3, <2>4, <2>5 DEF NodeStep
<1>4. ASSUME NEW m \in voteRequests, HandleRequestVote(m) \/ CrashBeforeVote(m)
      PROVE  MatchingInv'
  BY <1>1, <1>2, <1>4, HandleRequestVoteQuiet, CrashBeforeVoteQuiet, QuietMatching
<1>5. ASSUME NEW m \in voteReplies, HandleVoteReply(m)
      PROVE  MatchingInv'
  <2>1. CASE CountVote(m)
    BY <1>1, <1>2, <2>1, CountVoteLedger
  <2>2. CASE StepDownOnVoteReply(m) \/ IgnoreVoteReply(m)
    BY <1>1, <1>2, <2>2, HandleVoteReplyQuiet, QuietMatching
  <2> QED BY <1>5, <2>1, <2>2 DEF HandleVoteReply
<1>6. ASSUME NEW m \in appendRequests,
             HandleAppendEntries(m) \/ CrashWhileAppending(m) \/ LoseAppendRequest(m)
      PROVE  MatchingInv'
  BY <1>1, <1>2, <1>6, HandleAppendEntriesQuiet, CrashWhileAppendingQuiet, QuietMatching
<1>7. ASSUME NEW m \in appendReplies, HandleAppendReply(m) \/ LoseAppendReply(m)
      PROVE  MatchingInv'
  BY <1>1, <1>2, <1>7, HandleAppendReplyQuiet, QuietMatching
<1>8. CASE UNCHANGED vars
  <2>1. /\ UNCHANGED <<currentTerm, state, currentLeader, elected, log>>
        /\ appendRequests' \subseteq appendRequests
    BY <1>8 DEF vars, persistent, role, appendRPC, history
  <2> QED BY <1>1, <1>2, <2>1, SameQuiet, QuietMatching
<1> QED BY <1>3, <1>4, <1>5, <1>6, <1>7, <1>8 DEF Next

LEMMA MatchingInvImplies ==
  ASSUME TypeInv, MatchingInv
  PROVE  HintIsElected /\ LogMatching
<1>1. PICK L : LedgerInv(L)
  BY DEF MatchingInv
<1>2. ASSUME NEW i \in Server, NEW j \in Server, NEW k \in DOMAIN log[i] \cap DOMAIN log[j],
             log[i][k].term = log[j][k].term
      PROVE  Prefix(log[i], k) = Prefix(log[j], k)
  <2>1. PICK a \in Seq(Entry), b \in Seq(Entry) : a = log[i] /\ b = log[j]
    BY DEF TypeInv, TypeOK
  <2>2. Matching(a, b)
    <3>1. PICK s \in 0..currentTerm[i], t \in 0..currentTerm[j] :
            Begins(a, L[s]) /\ Begins(b, L[t])
      BY <1>1, <2>1 DEF LedgerInv, LogsFromLeaders
    <3>2. s \in Nat /\ t \in Nat
      BY DEF TypeInv, TypeOK
    <3> QED BY <1>1, <3>1, <3>2, LedgersMatch
  <2>3. \A n \in 1..k : a[n] = b[n]
    BY <1>2, <2>1, <2>2 DEF Matching
  <2>4. k \in 1..Len(a) /\ k \in 1..Len(b)
    BY <1>2, <2>1
  <2>5. /\ SubSeq(a, 1, k) = [n \in 1..k |-> a[n]]
        /\ SubSeq(b, 1, k) = [n \in 1..k |-> b[n]]
    BY <2>4
  <2> QED BY <2>1, <2>3, <2>5 DEF Prefix
<1> QED BY <1>2 DEF MatchingInv, RoleInv, LogMatching

LEMMA MatchingInvHolds == Spec => []MatchingInv
<1>1. Init => MatchingInv
  BY MatchingInit
<1>2. /\ TypeInv /\ TypeInv' /\ ElectionSafety /\ ElectionSafety' /\ MatchingInv
      /\ [Next]_vars
      => MatchingInv'
  BY MatchingStep
<1> QED BY <1>1, <1>2, TypesHold, ElectionSafe, PTL DEF Spec

\* In every cluster, whatever crashes, elections and late, repeated or lost requests
\* there are, two logs that agree on the term at an index agree up to it
\* (HandleAppendEntries, integrateEntriesLocked of node.go).
THEOREM LogsMatch == Spec => []LogMatching
<1>1. TypeInv /\ MatchingInv => LogMatching
  BY MatchingInvImplies
<1> QED BY <1>1, TypesHold, MatchingInvHolds, PTL

\* A node never names as its leader a node that was not elected in its term, however
\* late the request is that it heard of the leader from (becomeFollowerLocked and
\* HandleAppendEntries of node.go).
THEOREM HintsElected == Spec => []HintIsElected
<1>1. TypeInv /\ MatchingInv => HintIsElected
  BY MatchingInvImplies
<1> QED BY <1>1, TypesHold, MatchingInvHolds, PTL
===============================================================================
