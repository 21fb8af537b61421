-------------------------------- MODULE KVStore --------------------------------
(***************************************************************************)
(* The state machine, internal/kvstore/store.go: what a command does to    *)
(* the map of a store.  Get(key) answers with the value and whether the    *)
(* key is in the domain of the map.                                        *)
(***************************************************************************)
EXTENDS SequencesExt, Transport

CONSTANTS Key, Value

ASSUME KeyValueAssumption == Key \subseteq Text /\ Value \subseteq Text

New == <<>>

Put(data, key, value) ==
  [k \in DOMAIN data \cup {key} |-> IF k = key THEN value ELSE data[k]]

Delete(data, key) == [k \in DOMAIN data \ {key} |-> data[k]]

\* Store.Apply.  fromProtoOp knows no third kind of command.
Apply(data, cmd) ==
  IF cmd.op = OpPut THEN Put(data, cmd.key, cmd.value) ELSE Delete(data, cmd.key)

\* A store that holds data executes commands one after the other.
Execute(data, cmds) == FoldLeft(Apply, data, cmds)

\* The commands that clients have the cluster decide: what arrives at the leader
\* of a Put or Delete that was sent to the proxy.
Proposals ==
  LET put(k, v) == ForwardPut(Marshal([key |-> k, value |-> v], PutRequest))
      delete(k) == ForwardDelete(Marshal([key |-> k], DeleteRequest))
  IN  {PutCommand(put(k, v)) : k \in Key, v \in Value}
        \cup {DeleteCommand(delete(k)) : k \in Key}
===============================================================================
