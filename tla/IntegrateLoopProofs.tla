-------------------------- MODULE IntegrateLoopProofs --------------------------
(***************************************************************************)
(* A vote request, an append request and the answers to them arrive as     *)
(* they were sent, field by field, also where a field has the zero value   *)
(* of its type and is not on the wire at all.  And what                    *)
(* integrateEntriesLocked makes of the entries that arrive, step by step,  *)
(* is what RaftLog says of the whole call, for logs and requests of any    *)
(* length.                                                                 *)
(***************************************************************************)
EXTENDS IntegrateLoop, RaftLogProofs, TLAPS

\* A message type's fields, each with some value.
IsMessage(message, type) == message = [f \in DOMAIN type |-> message[f]]

LEMMA RoundTrip ==
  ASSUME NEW type, NEW message, IsMessage(message, type)
  PROVE  Unmarshal(Marshal(message, type), type) = message
<1> DEFINE wire == Marshal(message, type)
<1>1. DOMAIN wire = {g \in DOMAIN type : message[g] # type[g]}
  BY DEF Marshal
<1>2. ASSUME NEW f \in DOMAIN type
      PROVE  (IF f \in DOMAIN wire THEN wire[f] ELSE type[f]) = message[f]
  <2>1. CASE message[f] # type[f]
    <3>1. f \in DOMAIN wire /\ wire[f] = message[f]
      BY <1>1, <2>1 DEF Marshal
    <3> QED BY <3>1
  <2>2. CASE message[f] = type[f]
    <3>1. f \notin DOMAIN wire
      BY <1>1, <2>2
    <3> QED BY <3>1, <2>2
  <2> QED BY <2>1, <2>2
<1>3. Unmarshal(wire, type) = [f \in DOMAIN type |-> message[f]]
  BY <1>2, Zenon DEF Unmarshal
<1> QED BY <1>3 DEF IsMessage

LEMMA CommandArrives ==
  ASSUME NEW cmd \in Command
  PROVE  CommandFromWire(CommandToWire(cmd)) = cmd
<1> DEFINE m == [op |-> toProtoOp(cmd.op), key |-> cmd.key, value |-> cmd.value]
<1>1. IsMessage(m, CommandMessage)
  BY DEF IsMessage, CommandMessage
<1>2. Unmarshal(CommandToWire(cmd), CommandMessage) = m
  BY <1>1, RoundTrip DEF CommandToWire
<1>3. fromProtoOp(toProtoOp(cmd.op)) = cmd.op
  BY DEF Command, OpPut, OpDelete, fromProtoOp, toProtoOp, OpType_OP_PUT, OpType_OP_DELETE
<1> HIDE DEF m
<1>4. CommandFromWire(CommandToWire(cmd))
        = [op |-> fromProtoOp(m.op), key |-> m.key, value |-> m.value]
  BY <1>2 DEF CommandFromWire
<1>5. m.op = toProtoOp(cmd.op) /\ m.key = cmd.key /\ m.value = cmd.value
  BY DEF m
<1> QED BY <1>3, <1>4, <1>5 DEF Command

\* raftlog.Entry.
Entry == [term : Nat, index : Nat, cmd : Command]

LEMMA EntryArrives ==
  ASSUME NEW e \in Entry
  PROVE  EntryFromWire(EntryToWire(e)) = e
<1> DEFINE m == [term |-> e.term, index |-> e.index, command |-> CommandToWire(e.cmd)]
<1>1. IsMessage(m, LogEntry)
  BY DEF IsMessage, LogEntry
<1>2. Unmarshal(EntryToWire(e), LogEntry) = m
  BY <1>1, RoundTrip DEF EntryToWire
<1> HIDE DEF m
<1>3. EntryFromWire(EntryToWire(e))
        = [term |-> m.term, index |-> m.index, cmd |-> CommandFromWire(m.command)]
  BY <1>2 DEF EntryFromWire
<1>4. m.term = e.term /\ m.index = e.index /\ m.command = CommandToWire(e.cmd)
  BY DEF m
<1>5. CommandFromWire(CommandToWire(e.cmd)) = e.cmd
  BY CommandArrives DEF Entry
<1> QED BY <1>3, <1>4, <1>5 DEF Entry

LEMMA EntriesArrive ==
  ASSUME NEW n \in Nat, NEW es \in [1..n -> Entry]
  PROVE  fromProtoEntries(toProtoEntries(es)) = es
<1>1. \A k \in 1..n : EntryFromWire(EntryToWire(es[k])) = es[k]
  BY EntryArrives
<1> DEFINE wire == toProtoEntries(es)
<1>2. DOMAIN wire = 1..n /\ \A k \in 1..n : wire[k] = EntryToWire(es[k])
  BY DEF toProtoEntries
<1>3. \A k \in 1..n : EntryFromWire(wire[k]) = es[k]
  BY <1>1, <1>2
<1> HIDE DEF wire
<1>4. fromProtoEntries(wire) = [k \in 1..n |-> EntryFromWire(wire[k])]
  BY <1>2, Zenon DEF fromProtoEntries
<1>5. fromProtoEntries(wire) = [k \in 1..n |-> es[k]]
  BY <1>3, <1>4, Zenon
<1> QED BY <1>5 DEF wire

\* The arguments and the results of the two calls between nodes (node.go).
RequestVoteArgs ==
  [term : Nat, candidateID : Text, lastLogIndex : Nat, lastLogTerm : Nat]
RequestVoteResult == [term : Nat, voteGranted : BOOLEAN]

AppendEntriesArgs(n) ==
  [term : Nat, leaderID : Text, prevLogIndex : Nat, prevLogTerm : Nat,
   entries : [1..n -> Entry], leaderCommit : Nat]
AppendEntriesResult == [term : Nat, success : BOOLEAN]

\* Client.RequestVote and Server.RequestVote: the request.
LEMMA VoteRequestArrives ==
  ASSUME NEW args \in RequestVoteArgs
  PROVE  VoteRequestFromWire(VoteRequestToWire(args)) = args
<1> DEFINE m == [term |-> args.term, candidateId |-> args.candidateID,
                 lastLogIndex |-> args.lastLogIndex, lastLogTerm |-> args.lastLogTerm]
<1>1. IsMessage(m, RequestVoteRequest)
  BY DEF IsMessage, RequestVoteRequest
<1>2. Unmarshal(VoteRequestToWire(args), RequestVoteRequest) = m
  BY <1>1, RoundTrip DEF VoteRequestToWire
<1> HIDE DEF m
<1>3. VoteRequestFromWire(VoteRequestToWire(args))
        = [term |-> m.term, candidateID |-> m.candidateId,
           lastLogIndex |-> m.lastLogIndex, lastLogTerm |-> m.lastLogTerm]
  BY <1>2 DEF VoteRequestFromWire
<1>4. /\ m.term = args.term /\ m.candidateId = args.candidateID
      /\ m.lastLogIndex = args.lastLogIndex /\ m.lastLogTerm = args.lastLogTerm
  BY DEF m
<1> QED BY <1>3, <1>4 DEF RequestVoteArgs

\* HandleRequestVote is called with the arguments that startElection gave to
\* Client.RequestVote, and what it returns is what startElection gets: the zero term
\* and the refusal, which are not on the wire, included.
THEOREM RequestVoteArrives ==
  ASSUME NEW args \in RequestVoteArgs, NEW result \in RequestVoteResult
  PROVE  /\ VoteRequestFromWire(VoteRequestToWire(args)) = args
         /\ VoteResultFromWire(VoteResultToWire(result)) = result
<1>1. IsMessage(result, RequestVoteResponse)
  BY DEF IsMessage, RequestVoteResponse, RequestVoteResult
<1>2. VoteResultFromWire(VoteResultToWire(result)) = result
  BY <1>1, RoundTrip DEF VoteResultToWire, VoteResultFromWire
<1> QED BY <1>2, VoteRequestArrives

\* Client.AppendEntries and Server.AppendEntries: the request.
LEMMA AppendRequestArrives ==
  ASSUME NEW n \in Nat, NEW args \in AppendEntriesArgs(n)
  PROVE  AppendRequestFromWire(AppendRequestToWire(args)) = args
<1> DEFINE m == [term |-> args.term, leaderId |-> args.leaderID,
                 prevLogIndex |-> args.prevLogIndex, prevLogTerm |-> args.prevLogTerm,
                 entries |-> toProtoEntries(args.entries),
                 leaderCommit |-> args.leaderCommit]
<1>1. IsMessage(m, AppendEntriesRequest)
  BY DEF IsMessage, AppendEntriesRequest
<1>2. Unmarshal(AppendRequestToWire(args), AppendEntriesRequest) = m
  BY <1>1, RoundTrip DEF AppendRequestToWire
<1> HIDE DEF m
<1>3. AppendRequestFromWire(AppendRequestToWire(args))
        = [term |-> m.term, leaderID |-> m.leaderId,
           prevLogIndex |-> m.prevLogIndex, prevLogTerm |-> m.prevLogTerm,
           entries |-> fromProtoEntries(m.entries),
           leaderCommit |-> m.leaderCommit]
  BY <1>2 DEF AppendRequestFromWire
<1>4. /\ m.term = args.term /\ m.leaderId = args.leaderID
      /\ m.prevLogIndex = args.prevLogIndex /\ m.prevLogTerm = args.prevLogTerm
      /\ m.entries = toProtoEntries(args.entries)
      /\ m.leaderCommit = args.leaderCommit
  BY DEF m
<1>5. fromProtoEntries(toProtoEntries(args.entries)) = args.entries
  <2>1. args.entries \in [1..n -> Entry]
    BY DEF AppendEntriesArgs
  <2> QED BY <2>1, EntriesArrive
<1> QED BY <1>3, <1>4, <1>5 DEF AppendEntriesArgs

\* HandleAppendEntries is called with the arguments that replicateToPeer gave to
\* Client.AppendEntries, the entries and their commands included, and what it returns
\* is what replicateToPeer gets.
THEOREM AppendEntriesArrives ==
  ASSUME NEW n \in Nat, NEW args \in AppendEntriesArgs(n),
         NEW result \in AppendEntriesResult
  PROVE  /\ AppendRequestFromWire(AppendRequestToWire(args)) = args
         /\ AppendResultFromWire(AppendResultToWire(result)) = result
<1>1. IsMessage(result, AppendEntriesResponse)
  BY DEF IsMessage, AppendEntriesResponse, AppendEntriesResult
<1>2. AppendResultFromWire(AppendResultToWire(result)) = result
  BY <1>1, RoundTrip DEF AppendResultToWire, AppendResultFromWire
<1> QED BY <1>2, AppendRequestArrives
-------------------------------------------------------------------------------
(* integrateEntriesLocked.                                                 *)

\* The call: a log, and the entries behind its position prev.
Call(prev) ==
  /\ before \in Seq(EntryOf(Command)) /\ Positioned(before, 0)
  /\ sent \in Seq(EntryOf(Command)) /\ Positioned(sent, prev)
  /\ prev \in 0..Len(before)
  /\ entries = sent

\* The entries up to the loop's position are in the log.
Duplicates ==
  /\ at = "check"
  /\ log = before
  /\ \A k \in 1..(next - 1) : k \notin NewEntries(before, sent)

\* From the first that is new on, what has been looked at is at the end of the log.
AppendingFrom(k) ==
  /\ k <= next
  /\ at = "check" => k < next
  /\ at = "append" => next <= Len(sent)
  /\ log = Truncate(before, sent[k].index) \o SubSeq(sent, k, next - 1)

Appending ==
  /\ NewEntries(before, sent) # {}
  /\ AppendingFrom(FirstNew(before, sent))

LoopInv ==
  /\ \E prev : Call(prev)
  /\ next \in 1..Len(sent) + 1
  /\ at \in {"check", "append"}
  /\ Duplicates \/ Appending

\* What Sequence yields is a log.
LEMMA SequenceIsLog ==
  ASSUME NEW terms \in Terms, NEW cmds \in [Term -> Command], NEW first \in Nat \ {0}
  PROVE  /\ Sequence(first, terms, cmds) \in Seq(EntryOf(Command))
         /\ Positioned(Sequence(first, terms, cmds), first - 1)
         /\ Len(Sequence(first, terms, cmds)) = Len(terms)
         /\ Len(terms) \in Nat
<1>1. PICK n \in Nat : terms \in [1..n -> Term]
  <2>1. terms \in UNION {[1..n -> Term] : n \in 0..MaxLength}
    BY DEF Terms
  <2>2. \E n \in 0..MaxLength : terms \in [1..n -> Term]
    BY <2>1
  <2> QED BY <2>2
<1> DEFINE s == Sequence(first, terms, cmds)
<1>2. s = [k \in 1..n |-> [term |-> terms[k], index |-> first + k - 1, cmd |-> cmds[terms[k]]]]
  BY <1>1 DEF Sequence
<1>3. ASSUME NEW k \in 1..n
      PROVE  /\ [term |-> terms[k], index |-> first + k - 1, cmd |-> cmds[terms[k]]]
                   \in EntryOf(Command)
             /\ s[k].index = (first - 1) + k
  <2>1. terms[k] \in Term /\ terms[k] \in Nat
    BY <1>1, LoopAssumption
  <2>2. first + k - 1 \in Nat /\ first + k - 1 = (first - 1) + k
    OBVIOUS
  <2> QED BY <1>2, <2>1, <2>2 DEF EntryOf
<1>4. s \in [1..n -> EntryOf(Command)]
  BY <1>2, <1>3
<1> HIDE DEF s
<1>5. s \in Seq(EntryOf(Command)) /\ Len(s) = n /\ DOMAIN s = 1..n
  BY <1>4
<1>6. Len(terms) = n
  BY <1>1
<1>7. Positioned(s, first - 1)
  BY <1>3, <1>5 DEF Positioned
<1> QED BY <1>5, <1>6, <1>7 DEF s

\* The loop runs over the entries that the leader sent.
LEMMA SentArrives ==
  ASSUME NEW es \in Seq(EntryOf(Command))
  PROVE  Arriving(es) = es
<1> DEFINE args == [term |-> 1, leaderID |-> Empty, prevLogIndex |-> 0, prevLogTerm |-> 0,
                    entries |-> es, leaderCommit |-> 0]
<1>1. PICK n \in Nat : es \in [1..n -> Entry]
  <2>1. EntryOf(Command) = Entry
    BY DEF EntryOf, Entry
  <2>2. es \in Seq(Entry)
    BY <2>1
  <2>3. Len(es) \in Nat /\ es \in [1..Len(es) -> Entry]
    BY <2>2, LenProperties
  <2> QED BY <2>3
<1>2. args \in AppendEntriesArgs(n)
  BY <1>1, TextAssumption DEF AppendEntriesArgs
<1>3. AppendRequestFromWire(AppendRequestToWire(args)) = args
  BY <1>2, AppendRequestArrives
<1>4. args.entries = es
  OBVIOUS
<1> QED BY <1>3, <1>4 DEF Arriving

LEMMA LoopInit == Init => LoopInv
<1> SUFFICES ASSUME Init
             PROVE  LoopInv
  OBVIOUS
<1>1. PICK mine \in Terms, theirs \in Terms, cmds \in [Term -> Command] :
        \E p \in 0..Len(mine) :
          /\ before = Sequence(1, mine, cmds)
          /\ sent = Sequence(p + 1, theirs, cmds)
          /\ entries = Arriving(sent)
          /\ log = before
          /\ next = 1
          /\ at = "check"
  BY DEF Init
<1>2. PICK prev \in 0..Len(mine) :
          /\ before = Sequence(1, mine, cmds)
          /\ sent = Sequence(prev + 1, theirs, cmds)
          /\ entries = Arriving(sent)
          /\ log = before
          /\ next = 1
          /\ at = "check"
  BY <1>1
<1>3. /\ before \in Seq(EntryOf(Command)) /\ Positioned(before, 1 - 1)
      /\ Len(before) = Len(mine) /\ Len(mine) \in Nat
  BY <1>2, SequenceIsLog
<1>4. prev + 1 \in Nat \ {0} /\ (prev + 1) - 1 = prev
  BY <1>3
<1>5. sent \in Seq(EntryOf(Command)) /\ Positioned(sent, prev)
  BY <1>2, <1>4, SequenceIsLog
<1>6. Call(prev)
  BY <1>2, <1>3, <1>5, SentArrives DEF Call
<1>7. Duplicates
  BY <1>2 DEF Duplicates
<1>8. next \in 1..Len(sent) + 1
  BY <1>2, <1>5
<1> QED BY <1>2, <1>6, <1>7, <1>8 DEF LoopInv

\* The first that is new is where it began.
LEMMA AppendingSince ==
  ASSUME NEW prev, Call(prev), Appending
  PROVE  \E k \in 1..Len(sent) :
           /\ k = FirstNew(before, sent)
           /\ k \in NewEntries(before, sent)
           /\ AppendingFrom(k)
<1>1. /\ FirstNew(before, sent) \in 1..Len(sent)
      /\ FirstNew(before, sent) \in NewEntries(before, sent)
  BY FirstNewIsFirst DEF Call, Appending
<1> QED BY <1>1 DEF Appending

\* Once the loop appends, the log ends where the loop is.
LEMMA AppendingEnds ==
  ASSUME NEW prev, Call(prev), Appending, next \in 1..Len(sent) + 1
  PROVE  Len(log) = prev + (next - 1)
<1>1. PICK k \in 1..Len(sent) : k = FirstNew(before, sent) /\ AppendingFrom(k)
  BY AppendingSince
<1>2. prev + k <= Len(before) + 1
  BY <1>1, FirstNewAdjoins DEF Call, Appending
<1>3. PICK last \in (k - 1)..Len(sent) : last = next - 1
  <2>1. k <= next /\ Len(sent) \in Nat
    BY <1>1 DEF AppendingFrom, Call
  <2> QED BY <2>1
<1>4. Len(Truncate(before, sent[k].index) \o SubSeq(sent, k, last)) = prev + last
  <2>1. /\ before \in Seq(EntryOf(Command)) /\ Positioned(before, 0)
        /\ sent \in Seq(EntryOf(Command)) /\ Positioned(sent, prev)
        /\ prev \in 0..Len(before)
    BY DEF Call
  <2>2. LET r == Truncate(before, sent[k].index) \o SubSeq(sent, k, last)
        IN  /\ r \in Seq(EntryOf(Command))
            /\ Positioned(r, 0)
            /\ Len(r) = prev + last
    BY <1>2, <2>1, CutAndAppend
  <2> QED BY <2>2
<1> QED BY <1>1, <1>3, <1>4 DEF AppendingFrom

\* An entry that is new while all before it are not is the first.
LEMMA FirstFound ==
  ASSUME NEW prev, Call(prev), Duplicates, next \in NewEntries(before, sent),
         next \in 1..Len(sent)
  PROVE  next = FirstNew(before, sent)
<1>1. /\ FirstNew(before, sent) \in 1..Len(sent)
      /\ FirstNew(before, sent) \in NewEntries(before, sent)
      /\ FirstNew(before, sent) <= next
  BY FirstNewIsFirst DEF Call
<1>2. FirstNew(before, sent) \notin 1..(next - 1)
  BY <1>1 DEF Duplicates
<1> QED BY <1>1, <1>2

LEMMA LoopStep == LoopInv /\ [Next]_vars => LoopInv'
<1> SUFFICES ASSUME LoopInv, [Next]_vars
             PROVE  LoopInv'
  OBVIOUS
<1>1. PICK prev : Call(prev)
  BY DEF LoopInv
<1>2. /\ next \in 1..Len(sent) + 1
      /\ Duplicates \/ Appending
      /\ Len(sent) \in Nat /\ Len(before) \in Nat /\ prev \in Nat
      /\ entries = sent
      /\ \A k \in 1..Len(sent) : sent[k].index = prev + k
  BY <1>1 DEF LoopInv, Call, Positioned
<1>3. ASSUME UNCHANGED <<before, sent, entries>>
      PROVE  Call(prev)'
  BY <1>1, <1>3 DEF Call
<1>4. ASSUME at = "check", next <= Len(entries), entries[next].index <= Len(log)
      PROVE  Duplicates /\ next \in 1..Len(sent) /\ entries[next].index \in DOMAIN before
  <2>1. next \in 1..Len(sent) /\ sent[next].index = prev + next
    BY <1>2, <1>4
  <2>2. ~Appending
    <3> SUFFICES ASSUME Appending
                 PROVE  FALSE
      OBVIOUS
    <3>1. Len(log) = prev + (next - 1)
      BY <1>1, <1>2, AppendingEnds
    <3> QED BY <1>2, <1>4, <2>1, <3>1
  <2>3. log = before
    BY <1>2, <2>2 DEF Duplicates
  <2> QED BY <1>1, <1>2, <1>4, <2>1, <2>2, <2>3 DEF Call
<1>5. CASE Skip
  <2>1. /\ Duplicates /\ next \in 1..Len(sent) /\ sent[next].index \in DOMAIN before
        /\ log[sent[next].index].term = sent[next].term
        /\ log = before
    BY <1>2, <1>4, <1>5 DEF Skip, Duplicates
  <2>2. next \notin NewEntries(before, sent)
    BY <2>1 DEF NewEntries
  <2>3. \A k \in 1..next : k \notin NewEntries(before, sent)
    BY <2>1, <2>2 DEF Duplicates
  <2>4. /\ UNCHANGED <<before, sent, entries, log, at>> /\ next' = next + 1
        /\ 1..(next' - 1) = 1..next /\ next' \in 1..Len(sent) + 1
    BY <1>2, <1>5, <2>1 DEF Skip
  <2>5. Duplicates'
    BY <2>1, <2>3, <2>4 DEF Duplicates
  <2> QED BY <1>3, <2>4, <2>5 DEF LoopInv
<1>6. ASSUME next \in 1..Len(sent), next = FirstNew(before, sent),
             next \in NewEntries(before, sent),
             UNCHANGED <<before, sent, entries, next>>, at' = "append",
             log' = Truncate(before, sent[next].index)
      PROVE  LoopInv'
  <2>1. SubSeq(sent, next, next - 1) = <<>>
    BY <1>6, SubSeqEmpty
  <2>2. log' = Truncate(before, sent[next].index) \o SubSeq(sent, next, next - 1)
    <3>1. Truncate(before, sent[next].index) \in Seq(EntryOf(Command))
      BY <1>1, <1>2, <1>6, TruncateLog DEF Call
    <3> QED BY <1>6, <2>1, <3>1, ConcatEmptySeq
  <2>3. Appending'
    <3>1. next \in Nat
      BY <1>6
    <3>2. AppendingFrom(next)'
      BY <1>2, <1>6, <2>2, <3>1 DEF AppendingFrom
    <3> QED BY <1>6, <3>2 DEF Appending
  <2> QED BY <1>2, <1>3, <1>6, <2>3 DEF LoopInv
<1>7. CASE CutConflict
  <2>1. /\ Duplicates /\ next \in 1..Len(sent) /\ sent[next].index \in DOMAIN before
        /\ log[sent[next].index].term # sent[next].term
        /\ log = before
    BY <1>2, <1>4, <1>7 DEF CutConflict, Duplicates
  <2>2. next \in NewEntries(before, sent)
    BY <1>1, <2>1 DEF NewEntries, Call
  <2>3. next = FirstNew(before, sent)
    BY <1>1, <2>1, <2>2, FirstFound
  <2> QED BY <1>2, <1>6, <1>7, <2>1, <2>2, <2>3 DEF CutConflict
<1>8. CASE ReachEnd
  <2>1. /\ at = "check" /\ next \in 1..Len(sent) /\ sent[next].index > Len(log)
        /\ sent[next].index = prev + next
        /\ UNCHANGED <<before, sent, entries, log, next>> /\ at' = "append"
    BY <1>2, <1>8 DEF ReachEnd
  <2>2. CASE Duplicates
    <3>1. log = before /\ sent[next].index \notin DOMAIN before
      BY <1>1, <1>2, <2>1, <2>2 DEF Duplicates, Call
    <3>2. next \in NewEntries(before, sent)
      BY <1>1, <2>1, <3>1 DEF NewEntries, Call
    <3>3. next = FirstNew(before, sent)
      BY <1>1, <2>1, <2>2, <3>2, FirstFound
    <3>4. Truncate(before, sent[next].index) = before
      BY <1>1, <3>1 DEF Truncate, Call
    <3> QED BY <1>6, <2>1, <3>1, <3>2, <3>3, <3>4
  <2>3. CASE Appending
    <3>1. Appending'
      BY <1>2, <2>1, <2>3 DEF Appending, AppendingFrom
    <3> QED BY <1>2, <1>3, <2>1, <3>1 DEF LoopInv
  <2> QED BY <1>2, <2>2, <2>3
<1>9. CASE AppendEntry
  <2>1. /\ at = "append" /\ log' = Append(log, sent[next]) /\ next' = next + 1
        /\ at' = "check" /\ UNCHANGED <<before, sent, entries>>
    BY <1>2, <1>9 DEF AppendEntry
  <2>2. Appending /\ next \in 1..Len(sent) /\ next' - 1 = next
    <3>1. Appending
      BY <1>2, <2>1 DEF Duplicates
    <3>2. next <= Len(sent)
      BY <2>1, <3>1 DEF Appending, AppendingFrom
    <3> QED BY <1>2, <2>1, <3>1, <3>2
  <2>3. PICK k \in 1..Len(sent) :
          /\ k = FirstNew(before, sent)
          /\ k <= next
          /\ log = Truncate(before, sent[k].index) \o SubSeq(sent, k, next - 1)
    BY <1>1, <2>2, AppendingSince DEF AppendingFrom
  <2> DEFINE cut == Truncate(before, sent[k].index)
             rest == SubSeq(sent, k, next - 1)
  <2>4. cut \in Seq(EntryOf(Command))
    BY <1>1, <1>2, TruncateLog DEF Call
  <2>5. rest \in Seq(EntryOf(Command)) /\ sent[next] \in EntryOf(Command)
    BY <1>1, <1>2, <2>2 DEF Call
  <2>6. SubSeq(sent, k, next) = Append(rest, sent[next])
    <3>1. sent \in Seq(EntryOf(Command)) /\ next \in k..Len(sent)
      BY <1>1, <2>2, <2>3 DEF Call
    <3>2. SubSeq(sent, k, next) = rest \o <<sent[next]>>
      BY <3>1, SubSeqRecursiveSecond
    <3>3. Append(rest, sent[next]) = rest \o <<sent[next]>>
      BY <2>5, AppendIsConcat
    <3> QED BY <3>2, <3>3
  <2> HIDE DEF cut, rest
  <2>7. Append(cut \o rest, sent[next]) = cut \o Append(rest, sent[next])
    BY <2>4, <2>5
  <2>8. log' = cut \o SubSeq(sent, k, next)
    BY <2>1, <2>3, <2>6, <2>7 DEF cut, rest
  <2>9. Appending'
    <3>1. log' = Truncate(before', sent'[k].index) \o SubSeq(sent', k, next' - 1)
      BY <2>1, <2>2, <2>8 DEF cut
    <3>2. k < next' /\ k <= next'
      BY <2>1, <2>2, <2>3
    <3>3. AppendingFrom(k)'
      BY <2>1, <3>1, <3>2 DEF AppendingFrom
    <3> QED BY <2>1, <2>2, <2>3, <3>3 DEF Appending
  <2> QED BY <1>2, <1>3, <2>1, <2>2, <2>9 DEF LoopInv
<1>10. CASE UNCHANGED vars
  BY <1>10 DEF vars, LoopInv, Call, Duplicates, Appending, AppendingFrom
<1> QED BY <1>5, <1>7, <1>8, <1>9, <1>10 DEF Next

LEMMA LoopHolds == Spec => []LoopInv
BY LoopInit, LoopStep, PTL DEF Spec

\* When the loop ends, the log is what RaftLog says of the whole call, so Raft may take
\* it as one step (integrateEntriesLocked, Storage.Truncate, Storage.Append).
THEOREM LoopIntegrates == Spec => []ResultIsIntegrateEntries
<1>1. LoopInv => ResultIsIntegrateEntries
  <2> SUFFICES ASSUME LoopInv, at = "check", next > Len(entries)
               PROVE  log = IntegrateEntries(before, sent)
    BY DEF ResultIsIntegrateEntries
  <2>1. PICK prev : Call(prev)
    BY DEF LoopInv
  <2>2. next - 1 = Len(sent) /\ Len(sent) \in Nat /\ DOMAIN sent = 1..Len(sent)
    BY <2>1 DEF LoopInv, Call
  <2>3. CASE Duplicates
    <3>1. NewEntries(before, sent) = {}
      BY <2>2, <2>3 DEF Duplicates, NewEntries
    <3> QED BY <2>3, <3>1 DEF Duplicates, IntegrateEntries
  <2>4. CASE Appending
    BY <2>2, <2>4 DEF Appending, AppendingFrom, IntegrateEntries
  <2> QED BY <2>3, <2>4 DEF LoopInv
<1> QED BY <1>1, LoopHolds, PTL

\* Wherever the process dies inside the call, it finds on disk one of the logs that a
\* crash in Raft may leave (CrashWhileAppending).
THEOREM LoopCrashesAnticipated == Spec => []DiskIsAnticipated
<1>1. LoopInv => DiskIsAnticipated
  <2> SUFFICES ASSUME LoopInv
               PROVE  log \in InterruptedIntegrations(before, sent)
    BY DEF DiskIsAnticipated
  <2>1. PICK prev : Call(prev)
    BY DEF LoopInv
  <2>2. next \in 1..Len(sent) + 1 /\ Len(sent) \in Nat
    BY <2>1 DEF LoopInv, Call
  <2>3. CASE Duplicates
    BY <2>3 DEF Duplicates, InterruptedIntegrations
  <2>4. CASE Appending
    <3>1. PICK k \in 1..Len(sent) :
            /\ k = FirstNew(before, sent)
            /\ k \in NewEntries(before, sent)
            /\ k <= next
            /\ log = Truncate(before, sent[k].index) \o SubSeq(sent, k, next - 1)
      BY <2>1, <2>4, AppendingSince DEF AppendingFrom
    <3>2. next - 1 \in (k - 1)..Len(sent)
      BY <2>2, <3>1
    <3> QED BY <2>4, <3>1, <3>2 DEF Appending, InterruptedIntegrations
  <2> QED BY <2>3, <2>4 DEF LoopInv
<1> QED BY <1>1, LoopHolds, PTL

\* No crash inside the call loses an entry before the first that conflicts with the
\* request (integrateEntriesLocked truncates only there).
THEOREM LoopKeepsAgreement == Spec => []AgreementSurvives
<1>1. LoopInv => AgreementSurvives
  <2> SUFFICES ASSUME LoopInv, NEW x \in DOMAIN before,
                      \A c \in DOMAIN entries :
                        /\ entries[c].index <= Len(before)
                        /\ before[entries[c].index].term # entries[c].term
                        => x < entries[c].index
               PROVE  x \in DOMAIN log /\ log[x] = before[x]
    BY DEF AgreementSurvives
  <2>1. PICK prev : Call(prev)
    BY DEF LoopInv
  <2>2. next \in 1..Len(sent) + 1 /\ Len(sent) \in Nat /\ DOMAIN sent = 1..Len(sent)
    BY <2>1 DEF LoopInv, Call
  <2>3. CASE Duplicates
    BY <2>3 DEF Duplicates
  <2>4. CASE Appending
    <3>1. PICK k \in 1..Len(sent) :
            /\ k = FirstNew(before, sent)
            /\ k \in NewEntries(before, sent)
            /\ k <= next
            /\ log = Truncate(before, sent[k].index) \o SubSeq(sent, k, next - 1)
      BY <2>1, <2>4, AppendingSince DEF AppendingFrom
    <3> DEFINE cut == Truncate(before, sent[k].index)
               rest == SubSeq(sent, k, next - 1)
    <3>3. PICK n \in Nat : n = sent[k].index /\ n > 0
      <4>1. sent[k].index = prev + k
        BY <2>1, <2>2, <3>1 DEF Call, Positioned
      <4> QED BY <2>1, <4>1 DEF Call
    <3>4. cut \in Seq(EntryOf(Command)) /\ rest \in Seq(EntryOf(Command))
      BY <2>1, <2>2, <3>1, <3>3, TruncateLog DEF Call
    <3>5. x \in DOMAIN cut /\ cut[x] = before[x]
      <4>1. CASE n \in 1..Len(before)
        <5>1. x < n
          BY <2>1, <2>2, <3>1, <3>3, <4>1 DEF NewEntries, Call
        <5>2. cut = SubSeq(before, 1, n - 1)
          BY <3>3, <4>1 DEF Truncate
        <5> QED BY <2>1, <4>1, <5>1, <5>2 DEF Call
      <4>2. CASE n \notin 1..Len(before)
        BY <3>3, <4>2 DEF Truncate
      <4> QED BY <4>1, <4>2
    <3> HIDE DEF cut, rest
    <3>6. x \in DOMAIN (cut \o rest) /\ (cut \o rest)[x] = cut[x]
      BY <3>4, <3>5
    <3> QED BY <3>1, <3>5, <3>6 DEF cut, rest
  <2> QED BY <2>3, <2>4 DEF LoopInv
<1> QED BY <1>1, LoopHolds, PTL
===============================================================================
