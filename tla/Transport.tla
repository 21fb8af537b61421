------------------------------- MODULE Transport -------------------------------
(***************************************************************************)
(* What becomes of a message on its way: the conversions between the       *)
(* structs of the program and the protobuf messages (internal/raft:        *)
(* convert.go, client.go, server.go, kvserver.go; internal/proxy;          *)
(* internal/snapshot; internal/discovery), and of those to the wire and    *)
(* back (proto/raft, proto/kvstore).                                       *)
(*                                                                         *)
(* A proto3 message carries the fields that differ from the zero value of  *)
(* their type, and the getter of a field that was not sent answers with    *)
(* that value.  So a message type is given as the record of its zero       *)
(* values.  A Go map has no order and is sent as a list in any order: as a *)
(* set, since no two pairs have the same key.                              *)
(***************************************************************************)
EXTENDS Naturals

CONSTANTS
  Text,   \* the strings: keys, values, identifiers, addresses
  Empty   \* ""

ASSUME TextAssumption == Empty \in Text

\* kvstore.OpType and kvstore.Command.
OpPut == 0
OpDelete == 1

Command == [op : {OpPut, OpDelete}, key : Text, value : Text]
-------------------------------------------------------------------------------
(* The messages of raft.pb.go and kvstore.pb.go.                           *)

OpType_OP_PUT == 0
OpType_OP_DELETE == 1

NoMessage == <<>>

CommandMessage == [op |-> OpType_OP_PUT, key |-> Empty, value |-> Empty]
LogEntry == [term |-> 0, index |-> 0, command |-> NoMessage]

RequestVoteRequest ==
  [term |-> 0, candidateId |-> Empty, lastLogIndex |-> 0, lastLogTerm |-> 0]
RequestVoteResponse == [term |-> 0, voteGranted |-> FALSE]

AppendEntriesRequest ==
  [term |-> 0, leaderId |-> Empty, prevLogIndex |-> 0, prevLogTerm |-> 0,
   entries |-> <<>>, leaderCommit |-> 0]
AppendEntriesResponse == [term |-> 0, success |-> FALSE]

PeerInfo == [id |-> Empty, address |-> Empty]
GetStatusResponse == [nodeId |-> Empty, leaderId |-> Empty, peers |-> {}]

KeyValue == [key |-> Empty, value |-> Empty]
GetSnapshotResponse ==
  [lastIncludedIndex |-> 0, lastIncludedTerm |-> 0, data |-> {}]

GetRequest == [key |-> Empty]
GetResponse == [value |-> Empty, found |-> FALSE]
PutRequest == [key |-> Empty, value |-> Empty]
DeleteRequest == [key |-> Empty]

Marshal(message, type) ==
  [f \in {g \in DOMAIN type : message[g] # type[g]} |-> message[f]]

Unmarshal(wire, type) ==
  [f \in DOMAIN type |-> IF f \in DOMAIN wire THEN wire[f] ELSE type[f]]
-------------------------------------------------------------------------------
(* Between nodes.                                                          *)

toProtoOp(op) == IF op = OpDelete THEN OpType_OP_DELETE ELSE OpType_OP_PUT
fromProtoOp(op) == IF op = OpType_OP_DELETE THEN OpDelete ELSE OpPut

CommandToWire(cmd) ==
  Marshal([op |-> toProtoOp(cmd.op), key |-> cmd.key, value |-> cmd.value],
          CommandMessage)

CommandFromWire(wire) ==
  LET c == Unmarshal(wire, CommandMessage)
  IN  [op |-> fromProtoOp(c.op), key |-> c.key, value |-> c.value]

EntryToWire(e) ==
  Marshal([term |-> e.term, index |-> e.index, command |-> CommandToWire(e.cmd)],
          LogEntry)

EntryFromWire(wire) ==
  LET e == Unmarshal(wire, LogEntry)
  IN  [term |-> e.term, index |-> e.index, cmd |-> CommandFromWire(e.command)]

toProtoEntries(entries) == [k \in DOMAIN entries |-> EntryToWire(entries[k])]
fromProtoEntries(entries) == [k \in DOMAIN entries |-> EntryFromWire(entries[k])]

\* Client.RequestVote and Server.RequestVote.
VoteRequestToWire(args) ==
  Marshal([term |-> args.term, candidateId |-> args.candidateID,
           lastLogIndex |-> args.lastLogIndex, lastLogTerm |-> args.lastLogTerm],
          RequestVoteRequest)

VoteRequestFromWire(wire) ==
  LET req == Unmarshal(wire, RequestVoteRequest)
  IN  [term |-> req.term, candidateID |-> req.candidateId,
       lastLogIndex |-> req.lastLogIndex, lastLogTerm |-> req.lastLogTerm]

VoteResultToWire(result) == Marshal(result, RequestVoteResponse)
VoteResultFromWire(wire) == Unmarshal(wire, RequestVoteResponse)

\* Client.AppendEntries and Server.AppendEntries.
AppendRequestToWire(args) ==
  Marshal([term |-> args.term, leaderId |-> args.leaderID,
           prevLogIndex |-> args.prevLogIndex, prevLogTerm |-> args.prevLogTerm,
           entries |-> toProtoEntries(args.entries),
           leaderCommit |-> args.leaderCommit],
          AppendEntriesRequest)

AppendRequestFromWire(wire) ==
  LET req == Unmarshal(wire, AppendEntriesRequest)
  IN  [term |-> req.term, leaderID |-> req.leaderId,
       prevLogIndex |-> req.prevLogIndex, prevLogTerm |-> req.prevLogTerm,
       entries |-> fromProtoEntries(req.entries),
       leaderCommit |-> req.leaderCommit]

AppendResultToWire(result) == Marshal(result, AppendEntriesResponse)
AppendResultFromWire(wire) == Unmarshal(wire, AppendEntriesResponse)
-------------------------------------------------------------------------------
(* From a node to the proxy and to the backup service.                     *)

\* Maps as lists of pairs and back.
Pairs(map, type, name, of) ==
  {Marshal([f \in {name, of} |-> IF f = name THEN k ELSE map[k]], type) :
     k \in DOMAIN map}

MapOf(pairs, type, name, of) ==
  LET received == {Unmarshal(p, type) : p \in pairs}
  IN  [k \in {p[name] : p \in received} |->
         (CHOOSE p \in received : p[name] = k)[of]]

\* Server.GetStatus and Discovery.Refresh.
StatusToWire(id, leader, peers) ==
  Marshal([nodeId |-> id, leaderId |-> leader,
           peers |-> Pairs(peers, PeerInfo, "id", "address")],
          GetStatusResponse)

\* An answer without peers leaves those that Discovery knows.
StatusFromWire(wire, known) ==
  LET status == Unmarshal(wire, GetStatusResponse)
  IN  [leaderID |-> status.leaderId,
       peers |-> IF status.peers = {} THEN known
                 ELSE MapOf(status.peers, PeerInfo, "id", "address")]

\* Server.GetSnapshot and fetchAndWrite.
SnapshotToWire(data, index, term) ==
  Marshal([lastIncludedIndex |-> index, lastIncludedTerm |-> term,
           data |-> Pairs(data, KeyValue, "key", "value")],
          GetSnapshotResponse)

SnapshotFromWire(wire) ==
  LET resp == Unmarshal(wire, GetSnapshotResponse)
  IN  [lastIncludedIndex |-> resp.lastIncludedIndex,
       lastIncludedTerm |-> resp.lastIncludedTerm,
       data |-> MapOf(resp.data, KeyValue, "key", "value")]
-------------------------------------------------------------------------------
(* From a client to a node, and the answer.                                *)

\* KVServer.Put and Delete: the command a request proposes.
PutCommand(wire) ==
  LET req == Unmarshal(wire, PutRequest)
  IN  [op |-> OpPut, key |-> req.key, value |-> req.value]

DeleteCommand(wire) ==
  [op |-> OpDelete, key |-> Unmarshal(wire, DeleteRequest).key, value |-> Empty]

\* The proxy reads a request and sends another: Server.Put and Proxy.Put,
\* Server.Delete and Proxy.Delete.
ForwardPut(wire) == Marshal(Unmarshal(wire, PutRequest), PutRequest)
ForwardDelete(wire) == Marshal(Unmarshal(wire, DeleteRequest), DeleteRequest)

\* KVServer.Get's answer out of Store.Get, which the proxy passes on the same way.
AnswerGet(data, key) ==
  Marshal(IF key \in DOMAIN data THEN [value |-> data[key], found |-> TRUE]
                                 ELSE [value |-> Empty, found |-> FALSE],
          GetResponse)

ForwardGet(wire) == Marshal(Unmarshal(wire, GetResponse), GetResponse)
===============================================================================
