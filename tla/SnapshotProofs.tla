---------------------------- MODULE SnapshotProofs ----------------------------
(***************************************************************************)
(* The checkpoint of the backup service restores the cluster's state, for  *)
(* logs of any length; and what the service, discovery and the proxy send  *)
(* to a node and get back arrives as it was sent, also where a field has   *)
(* the zero value of its type and is not on the wire at all.               *)
(*                                                                         *)
(* Execute goes through the commands one by one.  After says what it comes *)
(* to: the last command about a key decides.  So executing commands again  *)
(* that the map already has, which is what restoring from an index older   *)
(* than the map does, changes nothing (Replay).                            *)
(***************************************************************************)
EXTENDS Snapshot, RaftLogProofs, TLAPS

\* A message type's fields, each with some value.
IsMessage(message, type) == message = [f \in DOMAIN type |-> message[f]]

LEMMA RoundTrip ==
  ASSUME NEW type, NEW message, IsMessage(message, type)
  PROVE  Unmarshal(Marshal(message, type), type) = message
<1> DEFINE wire == Marshal(message, type)
<1>1. DOMAIN wire = {g \in DOMAIN type : message[g] # type[g]}
  BY DEF Marshal
<1>2. ASSUME NEW f \in DOMAIN type
      PROVE  (IF f \in DOMAIN wire THEN wire[f] ELSE type[f]) = message[f]
  <2>1. CASE message[f] # type[f]
    <3>1. f \in DOMAIN wire /\ wire[f] = message[f]
      BY <1>1, <2>1 DEF Marshal
    <3> QED BY <3>1
  <2>2. CASE message[f] = type[f]
    <3>1. f \notin DOMAIN wire
      BY <1>1, <2>2
    <3> QED BY <3>1, <2>2
  <2> QED BY <2>1, <2>2
<1>3. Unmarshal(wire, type) = [f \in DOMAIN type |-> message[f]]
  BY <1>2, Zenon DEF Unmarshal
<1> QED BY <1>3 DEF IsMessage

LEMMA PairsArrive ==
  ASSUME NEW K, NEW map \in [K -> Text],
         NEW type, NEW name, NEW of, name # of, DOMAIN type = {name, of}
  PROVE  MapOf(Pairs(map, type, name, of), type, name, of) = map
<1> DEFINE pair(k) == [f \in {name, of} |-> IF f = name THEN k ELSE map[k]]
           received == {Unmarshal(p, type) : p \in Pairs(map, type, name, of)}
<1>1. \A k \in K : pair(k)[name] = k /\ pair(k)[of] = map[k]
  OBVIOUS
<1>2. ASSUME NEW k \in K
      PROVE  Unmarshal(Marshal(pair(k), type), type) = pair(k)
  <2>1. IsMessage(pair(k), type)
    BY DEF IsMessage
  <2> QED BY <2>1, RoundTrip
<1>3. Pairs(map, type, name, of) = {Marshal(pair(k), type) : k \in K}
  BY DEF Pairs
<1> HIDE DEF pair
<1>4. received = {pair(k) : k \in K}
  BY <1>2, <1>3
<1> HIDE DEF received
<1>5. {p[name] : p \in received} = K
  BY <1>1, <1>4
<1>6. ASSUME NEW k \in K
      PROVE  (CHOOSE p \in received : p[name] = k)[of] = map[k]
  <2>1. pair(k) \in received /\ pair(k)[name] = k
    BY <1>1, <1>4
  <2>2. \A p \in received : p[name] = k => p = pair(k)
    BY <1>1, <1>4
  <2>3. (CHOOSE p \in received : p[name] = k) = pair(k)
    BY <2>1, <2>2
  <2> QED BY <2>3, <1>1
<1>7. MapOf(Pairs(map, type, name, of), type, name, of)
        = [k \in {p[name] : p \in received} |->
             (CHOOSE p \in received : p[name] = k)[of]]
  BY Zenon DEF MapOf, received
<1>8. MapOf(Pairs(map, type, name, of), type, name, of)
        = [k \in K |-> (CHOOSE p \in received : p[name] = k)[of]]
  BY <1>5, <1>7, Zenon
<1> DEFINE found(k) == (CHOOSE p \in received : p[name] = k)[of]
<1>9. [k \in K |-> found(k)] = [k \in K |-> map[k]]
  <2>1. \A k \in K : found(k) = map[k]
    BY <1>6
  <2> HIDE DEF found
  <2> QED BY <2>1
<1> QED BY <1>8, <1>9

\* The checkpoint's data are the map SnapshotState returned: keys and values that
\* are the empty string included (server.go: GetSnapshot; snapshot.go:
\* fetchAndWrite).
THEOREM SnapshotArrives ==
  ASSUME NEW K \in SUBSET Text, NEW data \in [K -> Text],
         NEW index \in Nat, NEW term \in Nat
  PROVE  SnapshotFromWire(SnapshotToWire(data, index, term))
           = [lastIncludedIndex |-> index, lastIncludedTerm |-> term, data |-> data]
<1> DEFINE pairs == Pairs(data, KeyValue, "key", "value")
           m == [lastIncludedIndex |-> index, lastIncludedTerm |-> term, data |-> pairs]
<1>1. IsMessage(m, GetSnapshotResponse)
  BY DEF IsMessage, GetSnapshotResponse
<1>2. Unmarshal(SnapshotToWire(data, index, term), GetSnapshotResponse) = m
  BY <1>1, RoundTrip DEF SnapshotToWire
<1>3. "key" # "value" /\ DOMAIN KeyValue = {"key", "value"}
  BY DEF KeyValue
<1>4. MapOf(pairs, KeyValue, "key", "value") = data
  BY <1>3, PairsArrive
<1> HIDE DEF pairs
<1> QED BY <1>2, <1>4 DEF SnapshotFromWire

\* Discovery learns the leader and the addresses the node knows, and keeps its own
\* if the node knows none (server.go: GetStatus; discovery.go: Refresh).
THEOREM StatusArrives ==
  ASSUME NEW K \in SUBSET Text, NEW known \in [K -> Text],
         NEW id \in Text, NEW leader \in Text, NEW mine
  PROVE  StatusFromWire(StatusToWire(id, leader, known), mine)
           = [leaderID |-> leader, peers |-> IF K = {} THEN mine ELSE known]
<1> DEFINE pairs == Pairs(known, PeerInfo, "id", "address")
           m == [nodeId |-> id, leaderId |-> leader, peers |-> pairs]
<1>1. IsMessage(m, GetStatusResponse)
  BY DEF IsMessage, GetStatusResponse
<1>2. Unmarshal(StatusToWire(id, leader, known), GetStatusResponse) = m
  BY <1>1, RoundTrip DEF StatusToWire
<1>3. "id" # "address" /\ DOMAIN PeerInfo = {"id", "address"}
  BY DEF PeerInfo
<1>4. MapOf(pairs, PeerInfo, "id", "address") = known
  BY <1>3, PairsArrive
<1>5. pairs = {} <=> K = {}
  BY DEF Pairs
<1> HIDE DEF pairs
<1> QED BY <1>2, <1>4, <1>5 DEF StatusFromWire

\* The command a node proposes is what the client asked the proxy for: writing the
\* empty string is not deleting (proxy.go: Put, Delete; kvserver.go: Put, Delete).
THEOREM WritesArrive ==
  ASSUME NEW key \in Text, NEW value \in Text
  PROVE  /\ PutCommand(ForwardPut(Marshal([key |-> key, value |-> value], PutRequest)))
              = [op |-> OpPut, key |-> key, value |-> value]
         /\ DeleteCommand(ForwardDelete(Marshal([key |-> key], DeleteRequest)))
              = [op |-> OpDelete, key |-> key, value |-> Empty]
<1> DEFINE put == [key |-> key, value |-> value]
           delete == [key |-> key]
<1>1. IsMessage(put, PutRequest) /\ IsMessage(delete, DeleteRequest)
  BY DEF IsMessage, PutRequest, DeleteRequest
<1>2. /\ Unmarshal(Marshal(put, PutRequest), PutRequest) = put
      /\ Unmarshal(Marshal(delete, DeleteRequest), DeleteRequest) = delete
  BY <1>1, RoundTrip
<1>3. /\ Unmarshal(ForwardPut(Marshal(put, PutRequest)), PutRequest) = put
      /\ Unmarshal(ForwardDelete(Marshal(delete, DeleteRequest)), DeleteRequest) = delete
  BY <1>2 DEF ForwardPut, ForwardDelete
<1> QED BY <1>3 DEF PutCommand, DeleteCommand

\* The answer to a Get tells a key that holds the empty string from a key that is
\* not there (kvserver.go: Get; proxy.go: Get).
THEOREM ReadsArrive ==
  ASSUME NEW K \in SUBSET Text, NEW data \in [K -> Text], NEW key \in Text
  PROVE  LET got == Unmarshal(ForwardGet(AnswerGet(data, key)), GetResponse)
         IN  /\ got.found <=> key \in K
             /\ key \in K => got.value = data[key]
<1> DEFINE m == IF key \in DOMAIN data THEN [value |-> data[key], found |-> TRUE]
                                       ELSE [value |-> Empty, found |-> FALSE]
<1>1. IsMessage(m, GetResponse)
  <2>1. CASE key \in DOMAIN data
    <3>1. m = [value |-> data[key], found |-> TRUE]
      BY <2>1
    <3> QED BY <3>1 DEF IsMessage, GetResponse
  <2>2. CASE key \notin DOMAIN data
    <3>1. m = [value |-> Empty, found |-> FALSE]
      BY <2>2
    <3> QED BY <3>1 DEF IsMessage, GetResponse
  <2> QED BY <2>1, <2>2
<1>2. Unmarshal(AnswerGet(data, key), GetResponse) = m
  BY <1>1, RoundTrip DEF AnswerGet
<1>3. Unmarshal(ForwardGet(AnswerGet(data, key)), GetResponse) = m
  BY <1>1, <1>2, RoundTrip DEF ForwardGet
<1>4. (m.found <=> key \in K) /\ (key \in K => m.value = data[key])
  OBVIOUS
<1> QED BY <1>3, <1>4
-------------------------------------------------------------------------------
(* What executing commands comes to.                                       *)

\* A map, as the code has it.
IsMap(data) == data = [k \in DOMAIN data |-> data[k]]

\* The commands at the positions s that are about the key k.
Touching(cmds, s, k) == {i \in s : cmds[i].key = k}

\* The map after the commands at the positions s, without going through them one by one:
\* the last command about a key decides, and a key that no command is about stays as it
\* was.
Kept(data, cmds, s) ==
  {k \in DOMAIN data \cup {cmds[i].key : i \in s} :
     Touching(cmds, s, k) # {} => cmds[Max(Touching(cmds, s, k))].op = OpPut}

After(data, cmds, s) ==
  [k \in Kept(data, cmds, s) |->
     IF Touching(cmds, s, k) = {} THEN data[k] ELSE cmds[Max(Touching(cmds, s, k))].value]

LEMMA MaxIsGreatest ==
  ASSUME NEW n \in Nat, NEW s, s \subseteq 1..n, s # {}
  PROVE  Max(s) \in s /\ Max(s) \in 1..n /\ \A y \in s : y <= Max(s)
<1> DEFINE T == {n - x : x \in s}
<1>1. T \subseteq Nat /\ T # {}
  <2>1. \A x \in s : x \in 1..n
    OBVIOUS
  <2>2. \A x \in 1..n : n - x \in Nat
    OBVIOUS
  <2>3. \A x \in s : n - x \in Nat
    BY <2>1, <2>2
  <2> QED BY <2>3
<1>2. PICK z \in T : \A y \in T : z <= y
  <2> HIDE DEF T
  <2> QED BY <1>1, LeastElement
<1>3. PICK x \in s : z = n - x
  OBVIOUS
<1>4. ASSUME NEW y \in s
      PROVE  x >= y
  <2>1. n - y \in T /\ n - x <= n - y
    BY <1>2, <1>3
  <2> QED BY <2>1
<1>5. Max(s) \in s /\ \A y \in s : Max(s) >= y
  BY <1>4 DEF Max
<1> QED BY <1>5

\* The last of the positions about k, if there is one.
LEMMA LastTouching ==
  ASSUME NEW n \in Nat, NEW cmds, NEW s, s \subseteq 1..n, NEW k,
         NEW i \in Touching(cmds, s, k), \A j \in Touching(cmds, s, k) : j <= i
  PROVE  Max(Touching(cmds, s, k)) = i
<1>1. Touching(cmds, s, k) \subseteq 1..n
  BY DEF Touching
<1>2. /\ Max(Touching(cmds, s, k)) \in Touching(cmds, s, k)
      /\ i <= Max(Touching(cmds, s, k))
      /\ Max(Touching(cmds, s, k)) <= i
  BY <1>1, MaxIsGreatest
<1> QED BY <1>1, <1>2

\* What is in the map at a key that no command is about.
LEMMA AfterUntouched ==
  ASSUME NEW cmds, NEW s, NEW data, NEW k, Touching(cmds, s, k) = {}
  PROVE  /\ k \in DOMAIN After(data, cmds, s) <=> k \in DOMAIN data
         /\ k \in DOMAIN data => After(data, cmds, s)[k] = data[k]
<1>1. DOMAIN After(data, cmds, s) = Kept(data, cmds, s)
  BY DEF After
<1>2. k \notin {cmds[i].key : i \in s}
  BY DEF Touching
<1>3. k \in Kept(data, cmds, s) <=> k \in DOMAIN data
  BY <1>2 DEF Kept
<1> QED BY <1>1, <1>3 DEF After

\* And at another: the last command about it decides.
LEMMA AfterTouched ==
  ASSUME NEW cmds, NEW s, NEW data, NEW k, Touching(cmds, s, k) # {}
  PROVE  LET i == Max(Touching(cmds, s, k))
         IN  /\ k \in DOMAIN After(data, cmds, s) <=> cmds[i].op = OpPut
             /\ cmds[i].op = OpPut => After(data, cmds, s)[k] = cmds[i].value
<1>1. DOMAIN After(data, cmds, s) = Kept(data, cmds, s)
  BY DEF After
<1>2. k \in {cmds[j].key : j \in s}
  BY DEF Touching
<1>3. k \in Kept(data, cmds, s) <=> cmds[Max(Touching(cmds, s, k))].op = OpPut
  BY <1>2 DEF Kept
<1> QED BY <1>1, <1>2, <1>3 DEF After

LEMMA SameMap ==
  ASSUME NEW f, NEW g, IsMap(f), IsMap(g),
         \A k : k \in DOMAIN f <=> k \in DOMAIN g,
         \A k \in DOMAIN f : f[k] = g[k]
  PROVE  f = g
<1>1. DOMAIN f = DOMAIN g
  OBVIOUS
<1> QED BY <1>1, Zenon DEF IsMap

LEMMA AfterIsMap ==
  ASSUME NEW data, NEW cmds, NEW s
  PROVE  IsMap(After(data, cmds, s))
BY DEF IsMap, After

\* One command more.
LEMMA AfterLast ==
  ASSUME NEW n \in Nat, NEW cmds \in [1..n -> Command], NEW data,
         NEW s, s \subseteq 1..n, s # {}
  PROVE  After(data, cmds, s) = Apply(After(data, cmds, s \ {Max(s)}), cmds[Max(s)])
<1>1. PICK m \in s : m = Max(s) /\ m \in 1..n /\ \A y \in s : y <= m
  BY MaxIsGreatest
<1> DEFINE rest == s \ {m}
           key  == cmds[m].key
           f    == After(data, cmds, s)
           g    == After(data, cmds, rest)
<1>2. cmds[m].op \in {OpPut, OpDelete} /\ rest \subseteq 1..n
  BY DEF Command
<1>3. /\ key \in DOMAIN f <=> cmds[m].op = OpPut
      /\ cmds[m].op = OpPut => f[key] = cmds[m].value
  <2>1. m \in Touching(cmds, s, key) /\ \A j \in Touching(cmds, s, key) : j <= m
    BY <1>1 DEF Touching
  <2>2. Max(Touching(cmds, s, key)) = m
    BY <2>1, LastTouching
  <2>3. PICK k : k = key
    OBVIOUS
  <2>4. Touching(cmds, s, k) # {} /\ Max(Touching(cmds, s, k)) = m
    BY <2>1, <2>2, <2>3
  <2>5. LET i == Max(Touching(cmds, s, k))
        IN  /\ k \in DOMAIN After(data, cmds, s) <=> cmds[i].op = OpPut
            /\ cmds[i].op = OpPut => After(data, cmds, s)[k] = cmds[i].value
    BY <2>4, AfterTouched
  <2> QED BY <2>3, <2>4, <2>5 DEF f
<1>5. ASSUME NEW k, k # key
      PROVE  /\ k \in DOMAIN f <=> k \in DOMAIN g
             /\ k \in DOMAIN f => f[k] = g[k]
  <2>1. Touching(cmds, s, k) = Touching(cmds, rest, k)
    BY <1>5 DEF Touching
  <2>2. k \in {cmds[i].key : i \in s} <=> k \in {cmds[i].key : i \in rest}
    BY <1>5
  <2>3. k \in Kept(data, cmds, s) <=> k \in Kept(data, cmds, rest)
    BY <2>1, <2>2 DEF Kept
  <2>4. DOMAIN f = Kept(data, cmds, s) /\ DOMAIN g = Kept(data, cmds, rest)
    BY DEF After
  <2> QED BY <2>1, <2>3, <2>4 DEF After
<1>6. IsMap(f)
  BY AfterIsMap
<1> HIDE DEF f, g, key, rest
<1> DEFINE put == Put(g, key, cmds[m].value)
           del == Delete(g, key)
<1>7. CASE cmds[m].op = OpPut
  <2>1. DOMAIN put = DOMAIN g \cup {key}
    BY DEF Put
  <2>2. \A k \in DOMAIN put : put[k] = IF k = key THEN cmds[m].value ELSE g[k]
    BY DEF Put
  <2>3. IsMap(put)
    BY DEF Put, IsMap
  <2> HIDE DEF put
  <2>4. f = put
    BY <1>3, <1>5, <1>6, <1>7, <2>1, <2>2, <2>3, SameMap
  <2> QED BY <1>1, <1>7, <2>4 DEF Apply, put, f, g, key, rest
<1>8. CASE cmds[m].op = OpDelete
  <2>1. DOMAIN del = DOMAIN g \ {key}
    BY DEF Delete
  <2>2. \A k \in DOMAIN del : del[k] = g[k]
    BY DEF Delete
  <2>3. IsMap(del)
    BY DEF Delete, IsMap
  <2>4. OpPut # OpDelete
    BY DEF OpPut, OpDelete
  <2> HIDE DEF del
  <2>5. f = del
    BY <1>3, <1>5, <1>6, <1>8, <2>1, <2>2, <2>3, <2>4, SameMap
  <2> QED BY <1>1, <1>8, <2>4, <2>5 DEF Apply, del, f, g, key, rest
<1> QED BY <1>2, <1>7, <1>8

\* The recursive function in FoldLeft.
Executes(f, data, cmds) ==
  f = [s \in SUBSET DOMAIN cmds |->
         IF s = {} THEN data ELSE Apply(f[s \ {Max(s)}], cmds[Max(s)])]

Executing(data, cmds) == CHOOSE f : Executes(f, data, cmds)

LEMMA ExecuteUnfolds ==
  ASSUME NEW data, NEW cmds
  PROVE  Execute(data, cmds) = Executing(data, cmds)[DOMAIN cmds]
BY Zenon DEF Execute, FoldLeft, MapThenFoldSet, Executing, Executes

LEMMA ExecutingExecutes ==
  ASSUME NEW data, NEW cmds, NEW f, Executes(f, data, cmds)
  PROVE  Executes(Executing(data, cmds), data, cmds)
BY DEF Executing

\* Executing commands one after the other gives the map after the last about each key.
\* (By induction over the largest position, as the least counterexample.)
THEOREM ExecuteIsAfter ==
  ASSUME NEW n \in Nat, NEW cmds \in [1..n -> Command], NEW data, IsMap(data)
  PROVE  Execute(data, cmds) = After(data, cmds, 1..n)
<1> DEFINE g == [s \in SUBSET (1..n) |-> After(data, cmds, s)]
           e == Executing(data, cmds)
<1>1. DOMAIN cmds = 1..n
  OBVIOUS
<1>2. After(data, cmds, {}) = data
  <2>1. Kept(data, cmds, {}) = DOMAIN data
    BY DEF Kept, Touching
  <2>2. \A k : Touching(cmds, {}, k) = {}
    BY DEF Touching
  <2> QED BY <2>1, <2>2 DEF After, IsMap
<1>last. ASSUME NEW s \in SUBSET (1..n), s # {}
          PROVE  After(data, cmds, s) = Apply(After(data, cmds, s \ {Max(s)}), cmds[Max(s)])
  <2>1. PICK last : last = Max(s)
    OBVIOUS
  <2>2. After(data, cmds, s) = Apply(After(data, cmds, s \ {last}), cmds[last])
    BY <1>last, <2>1, AfterLast
  <2> QED BY <2>1, <2>2
<1>3. g = [s \in SUBSET (1..n) |->
             IF s = {} THEN data ELSE Apply(g[s \ {Max(s)}], cmds[Max(s)])]
  <2>1. ASSUME NEW s \in SUBSET (1..n)
        PROVE  After(data, cmds, s)
                 = IF s = {} THEN data ELSE Apply(g[s \ {Max(s)}], cmds[Max(s)])
    <3>1. g[s \ {Max(s)}] = After(data, cmds, s \ {Max(s)})
      OBVIOUS
    <3> HIDE DEF g
    <3>2. CASE s # {}
      <4>1. PICK top : top = Max(s)
        OBVIOUS
      <4>2. After(data, cmds, s) = Apply(After(data, cmds, s \ {top}), cmds[top])
        BY <3>2, <4>1, AfterLast
      <4> QED BY <3>1, <3>2, <4>1, <4>2
    <3> QED BY <1>2, <3>2
  <2> QED BY <2>1
<1> HIDE DEF g
<1>4. e = [s \in SUBSET (1..n) |->
             IF s = {} THEN data ELSE Apply(e[s \ {Max(s)}], cmds[Max(s)])]
  <2>1. Executes(g, data, cmds)
    BY <1>1, <1>3, Zenon DEF Executes
  <2>2. Executes(e, data, cmds)
    BY <2>1, ExecutingExecutes
  <2> QED BY <1>1, <2>2, Zenon DEF Executes
<1> HIDE DEF e
<1> DEFINE Wrong == {m \in Nat : \E s \in SUBSET (1..n) :
                       s \subseteq 1..m /\ e[s] # After(data, cmds, s)}
<1>5. Wrong = {}
  <2> SUFFICES ASSUME Wrong # {}
               PROVE  FALSE
    OBVIOUS
  <2>1. PICK m \in Wrong : \A other \in Wrong : m <= other
    <3>1. Wrong \subseteq Nat
      OBVIOUS
    <3> HIDE DEF Wrong
    <3> QED BY <3>1, LeastElement
  <2>2. PICK s \in SUBSET (1..n) : s \subseteq 1..m /\ e[s] # After(data, cmds, s) /\ m \in Nat
    OBVIOUS
  <2>3. s # {}
    BY <1>2, <1>4, <2>2
  <2>4. PICK top \in s : top = Max(s) /\ top \in 1..n /\ \A y \in s : y <= top
    BY <2>3, MaxIsGreatest
  <2>5. top \in 1..m
    BY <2>2
  <2>6. s \ {top} \subseteq 1..(top - 1)
    <3> SUFFICES ASSUME NEW y \in s, y # top
                 PROVE  y \in 1..(top - 1)
      OBVIOUS
    <3>1. y \in 1..n /\ y <= top /\ top \in 1..n
      BY <2>4
    <3> QED BY <3>1
  <2>7. e[s \ {top}] = After(data, cmds, s \ {top})
    <3>1. top - 1 \in Nat /\ ~(m <= top - 1)
      BY <2>2, <2>5
    <3>2. top - 1 \notin Wrong
      BY <2>1, <3>1
    <3> QED BY <2>6, <3>1, <3>2
  <2>8. e[s] = Apply(e[s \ {top}], cmds[top])
    BY <1>4, <2>3, <2>4
  <2>9. After(data, cmds, s) = Apply(After(data, cmds, s \ {top}), cmds[top])
    BY <1>last, <2>3, <2>4
  <2> QED BY <2>2, <2>7, <2>8, <2>9
<1>6. e[1..n] = After(data, cmds, 1..n)
  <2>1. n \notin Wrong
    BY <1>5
  <2> QED BY <2>1
<1> QED BY <1>1, <1>6, ExecuteUnfolds DEF e
-------------------------------------------------------------------------------
\* Only the commands at the positions count.
LEMMA AfterSameCommands ==
  ASSUME NEW n \in Nat, NEW s, s \subseteq 1..n, NEW data, NEW c, NEW d,
         \A i \in s : c[i] = d[i]
  PROVE  After(data, c, s) = After(data, d, s)
<1>1. \A k : Touching(c, s, k) = Touching(d, s, k)
  BY DEF Touching
<1>2. ASSUME NEW k, Touching(c, s, k) # {}
      PROVE  c[Max(Touching(c, s, k))] = d[Max(Touching(c, s, k))]
  <2>1. Touching(c, s, k) \subseteq s /\ Touching(c, s, k) \subseteq 1..n
    BY DEF Touching
  <2>2. Max(Touching(c, s, k)) \in Touching(c, s, k)
    BY <1>2, <2>1, MaxIsGreatest
  <2> QED BY <2>1, <2>2
<1>3. {c[i].key : i \in s} = {d[i].key : i \in s}
  OBVIOUS
<1>4. Kept(data, c, s) = Kept(data, d, s)
  BY <1>1, <1>2, <1>3 DEF Kept
<1>5. \A k : (IF Touching(c, s, k) = {} THEN data[k] ELSE c[Max(Touching(c, s, k))].value)
           = (IF Touching(d, s, k) = {} THEN data[k] ELSE d[Max(Touching(d, s, k))].value)
  BY <1>1, <1>2
<1> QED BY <1>4, <1>5 DEF After

\* What a prefix of the commands makes of a map.
LEMMA PrefixIsAfter ==
  ASSUME NEW n \in Nat, NEW cmds \in [1..n -> Command], NEW m \in 0..n,
         NEW data, IsMap(data)
  PROVE  Execute(data, SubSeq(cmds, 1, m)) = After(data, cmds, 1..m)
<1> DEFINE part == SubSeq(cmds, 1, m)
<1>1. part \in [1..m -> Command] /\ \A i \in 1..m : part[i] = cmds[i]
  <2>1. part = [i \in 1..m |-> cmds[i]]
    OBVIOUS
  <2>2. \A i \in 1..m : cmds[i] \in Command
    OBVIOUS
  <2> HIDE DEF part
  <2> QED BY <2>1, <2>2
<1> HIDE DEF part
<1>2. Execute(data, part) = After(data, part, 1..m)
  BY <1>1, ExecuteIsAfter
<1>3. After(data, part, 1..m) = After(data, cmds, 1..m)
  BY <1>1, AfterSameCommands
<1> QED BY <1>2, <1>3 DEF part

LEMMA NewIsMap == IsMap(New)
<1>1. New \in Seq({}) /\ DOMAIN New = {}
  BY DEF New
<1> QED BY <1>1 DEF IsMap, New

\* Executing commands from n on once more, on a map that already has those up to m,
\* ends where executing all of them ends: the last command about a key decides, and it
\* is among the commands that are executed again, or the map has it already.
LEMMA Replay ==
  ASSUME NEW N \in Nat, NEW cmds \in [1..N -> Command],
         NEW n \in 0..N, NEW m \in n..N
  PROVE  Execute(Execute(New, SubSeq(cmds, 1, m)), SubSeq(cmds, n + 1, N))
           = Execute(New, cmds)
<1> DEFINE tail == SubSeq(cmds, n + 1, N)
           x == After(New, cmds, 1..m)
           y == After(x, tail, 1..(N - n))
           z == After(New, cmds, 1..N)
<1>1. /\ N - n \in Nat
      /\ tail \in [1..(N - n) -> Command]
      /\ \A i \in 1..(N - n) : tail[i] = cmds[n + i]
  <2>1. tail = [i \in 1..(N - n) |-> cmds[n + i]]
    OBVIOUS
  <2> HIDE DEF tail
  <2>2. N - n \in Nat /\ \A i \in 1..(N - n) : n + i \in 1..N
    OBVIOUS
  <2>3. \A i \in 1..(N - n) : cmds[n + i] \in Command
    BY <2>2
  <2> QED BY <2>1, <2>2, <2>3
<1>2. Execute(New, SubSeq(cmds, 1, m)) = x
  BY NewIsMap, PrefixIsAfter
<1>3. IsMap(x) /\ IsMap(y) /\ IsMap(z)
  BY AfterIsMap
<1> HIDE DEF tail, x
<1>4. Execute(x, tail) = y
  BY <1>1, <1>3, ExecuteIsAfter
<1>5. Execute(New, cmds) = z
  BY NewIsMap, ExecuteIsAfter
<1> HIDE DEF y, z
<1>6. ASSUME NEW k
      PROVE  /\ k \in DOMAIN y <=> k \in DOMAIN z
             /\ k \in DOMAIN y => y[k] = z[k]
  <2> DEFINE again == Touching(tail, 1..(N - n), k)
             all   == Touching(cmds, 1..N, k)
  <2>1. CASE again # {}
    <3>1. again \subseteq 1..(N - n)
      BY DEF Touching
    <3> HIDE DEF again
    <3>2. PICK i \in again : i = Max(again) /\ i \in 1..(N - n) /\ \A j \in again : j <= i
      BY <1>1, <2>1, <3>1, MaxIsGreatest
    <3>3. n + i \in all /\ tail[i] = cmds[n + i]
      BY <1>1, <3>2 DEF again, Touching
    <3>4. ASSUME NEW j \in all
          PROVE  j <= n + i
      <4>1. j \in 1..N /\ cmds[j].key = k
        BY DEF Touching
      <4>2. CASE j <= n
        BY <3>2, <4>1, <4>2
      <4>3. CASE ~(j <= n)
        <5>1. j - n \in 1..(N - n) /\ n + (j - n) = j
          BY <4>1, <4>3
        <5>2. tail[j - n] = cmds[j]
          BY <1>1, <5>1
        <5>3. j - n \in again
          BY <4>1, <5>1, <5>2 DEF again, Touching
        <5> QED BY <3>2, <4>1, <5>3
      <4> QED BY <4>2, <4>3
    <3>5. all # {} /\ Max(all) = n + i
      BY <3>3, <3>4, LastTouching
    <3>6. LET l == Max(again)
          IN  /\ k \in DOMAIN y <=> tail[l].op = OpPut
              /\ tail[l].op = OpPut => y[k] = tail[l].value
      BY <2>1, AfterTouched DEF y, again
    <3>7. LET l == Max(all)
          IN  /\ k \in DOMAIN z <=> cmds[l].op = OpPut
              /\ cmds[l].op = OpPut => z[k] = cmds[l].value
      BY <3>5, AfterTouched DEF z
    <3> QED BY <3>2, <3>3, <3>5, <3>6, <3>7
  <2>2. CASE again = {}
    <3>1. /\ k \in DOMAIN y <=> k \in DOMAIN x
          /\ k \in DOMAIN x => y[k] = x[k]
      BY <2>2, AfterUntouched DEF y
    <3>2. all = Touching(cmds, 1..m, k)
      <4>1. ASSUME NEW j \in all
            PROVE  j \in Touching(cmds, 1..m, k)
        <5>1. j \in 1..N /\ cmds[j].key = k
          BY DEF Touching
        <5>2. CASE j <= m
          BY <5>1, <5>2 DEF Touching
        <5>3. CASE ~(j <= m)
          <6>1. j - n \in 1..(N - n) /\ n + (j - n) = j
            BY <5>1, <5>3
          <6>2. tail[j - n] = cmds[j]
            BY <1>1, <6>1
          <6>3. j - n \in again
            BY <5>1, <6>1, <6>2 DEF Touching
          <6> QED BY <2>2, <6>3
        <5> QED BY <5>2, <5>3
      <4>2. 1..m \subseteq 1..N
        OBVIOUS
      <4> QED BY <4>1, <4>2 DEF Touching
    <3> HIDE DEF again, all
    <3>3. CASE all = {}
      <4>1. /\ k \in DOMAIN x <=> k \in DOMAIN New
            /\ k \in DOMAIN New => x[k] = New[k]
        BY <3>2, <3>3, AfterUntouched DEF x
      <4>2. /\ k \in DOMAIN z <=> k \in DOMAIN New
            /\ k \in DOMAIN New => z[k] = New[k]
        BY <3>3, AfterUntouched DEF z, all
      <4> QED BY <3>1, <4>1, <4>2
    <3>4. CASE all # {}
      <4>1. LET l == Max(all)
            IN  /\ k \in DOMAIN x <=> cmds[l].op = OpPut
                /\ cmds[l].op = OpPut => x[k] = cmds[l].value
        BY <3>2, <3>4, AfterTouched DEF x
      <4>2. LET l == Max(all)
            IN  /\ k \in DOMAIN z <=> cmds[l].op = OpPut
                /\ cmds[l].op = OpPut => z[k] = cmds[l].value
        BY <3>4, AfterTouched DEF z, all
      <4> QED BY <3>1, <4>1, <4>2
    <3> QED BY <3>3, <3>4
  <2> QED BY <2>1, <2>2
<1>7. y = z
  BY <1>3, <1>6, SameMap
<1> QED BY <1>2, <1>4, <1>5, <1>7 DEF tail

\* A store that begins empty holds strings at strings.
LEMMA ExecuteType ==
  ASSUME NEW n \in Nat, NEW cmds \in [1..n -> Command]
  PROVE  \E K \in SUBSET Text : Execute(New, cmds) \in [K -> Text]
<1> DEFINE data == After(New, cmds, 1..n)
           K    == Kept(New, cmds, 1..n)
<1>1. Execute(New, cmds) = data
  BY NewIsMap, ExecuteIsAfter
<1>2. DOMAIN New = {}
  BY DEF New
<1>3. ASSUME NEW k \in K
      PROVE  /\ Touching(cmds, 1..n, k) # {} /\ k \in Text
             /\ cmds[Max(Touching(cmds, 1..n, k))].value \in Text
  <2>1. PICK i \in 1..n : cmds[i].key = k
    BY <1>2 DEF Kept
  <2>2. Touching(cmds, 1..n, k) # {} /\ Touching(cmds, 1..n, k) \subseteq 1..n
    BY <2>1 DEF Touching
  <2>3. PICK m \in 1..n : m = Max(Touching(cmds, 1..n, k))
    BY <2>2, MaxIsGreatest
  <2>4. cmds[i] \in Command /\ cmds[m] \in Command
    BY <2>1, <2>3
  <2> QED BY <2>1, <2>2, <2>3, <2>4 DEF Command
<1>4. DOMAIN data = K /\ IsMap(data)
  BY AfterIsMap DEF After
<1>5. \A k \in K : data[k] \in Text
  BY <1>3 DEF After
<1> HIDE DEF K, data
<1>6. data \in [K -> Text]
  BY <1>4, <1>5 DEF IsMap
<1> QED BY <1>1, <1>3, <1>6
-------------------------------------------------------------------------------
(* The checkpoint.                                                         *)

\* A node with the log d has executed a beginning of it.
Executed(s, d) == \E m \in 0..Len(d) : s = SubSeq(d, 1, m)

\* What SnapshotState says of the log d: an index, and the map of a store that may have
\* executed more.
Checkpoint(c, d) ==
  \E n \in 0..Len(d) : \E m \in n..Len(d) :
    c = [lastIncludedIndex |-> n, data |-> Execute(New, SubSeq(d, 1, m))]

ClusterInv ==
  /\ decided \in Seq(Command)
  /\ applied \in [Server -> Seq(Command)]
  /\ \A i \in Server : Executed(applied[i], decided)

ViewInv ==
  /\ peers \subseteq Server
  /\ pc \in {"metadata", "data"} => asked \in Server

AnswerInv ==
  /\ pc = "data" =>
       \/ answer = Nil
       \/ \E n \in 0..Len(applied[asked]) :
            answer = [lastIncludedIndex |-> n, data |-> New]
  /\ pc \in {"write", "writing", "rename"} => Checkpoint(answer, decided)

FileInv ==
  /\ pc = "rename" => Checkpoint(tmp, decided)
  /\ file = Missing \/ Checkpoint(file, decided)

CheckpointInv == ClusterInv /\ ViewInv /\ AnswerInv /\ FileInv

LEMMA ProposalsAreCommands == Proposals \subseteq Command
<1>1. ASSUME NEW k \in Key, NEW v \in Value
      PROVE  PutCommand(ForwardPut(Marshal([key |-> k, value |-> v], PutRequest))) \in Command
  <2>1. k \in Text /\ v \in Text
    BY KeyValueAssumption
  <2>2. PutCommand(ForwardPut(Marshal([key |-> k, value |-> v], PutRequest)))
          = [op |-> OpPut, key |-> k, value |-> v]
    BY <2>1, WritesArrive
  <2> QED BY <2>1, <2>2 DEF Command
<1>2. ASSUME NEW k \in Key
      PROVE  DeleteCommand(ForwardDelete(Marshal([key |-> k], DeleteRequest))) \in Command
  <2>1. k \in Text /\ Empty \in Text
    BY KeyValueAssumption, TextAssumption
  <2>2. DeleteCommand(ForwardDelete(Marshal([key |-> k], DeleteRequest)))
          = [op |-> OpDelete, key |-> k, value |-> Empty]
    BY <2>1, WritesArrive
  <2> QED BY <2>1, <2>2 DEF Command
<1> SUFFICES ASSUME NEW c \in Proposals
             PROVE  c \in Command
  OBVIOUS
<1>3. \/ \E k \in Key, v \in Value :
           c = PutCommand(ForwardPut(Marshal([key |-> k, value |-> v], PutRequest)))
      \/ \E k \in Key : c = DeleteCommand(ForwardDelete(Marshal([key |-> k], DeleteRequest)))
  BY DEF Proposals
<1>4. CASE \E k \in Key, v \in Value :
             c = PutCommand(ForwardPut(Marshal([key |-> k, value |-> v], PutRequest)))
  BY <1>1, <1>4
<1>5. CASE \E k \in Key : c = DeleteCommand(ForwardDelete(Marshal([key |-> k], DeleteRequest)))
  BY <1>2, <1>5
<1> QED BY <1>3, <1>4, <1>5

\* One more command decided takes nothing back.
LEMMA GrownPrefix ==
  ASSUME NEW d \in Seq(Command), NEW cmd \in Command
  PROVE  /\ Append(d, cmd) \in Seq(Command)
         /\ Len(Append(d, cmd)) = Len(d) + 1
         /\ \A m \in 0..Len(d) : SubSeq(Append(d, cmd), 1, m) = SubSeq(d, 1, m)
         /\ SubSeq(Append(d, cmd), 1, Len(d) + 1) = Append(d, cmd)
<1> DEFINE e == Append(d, cmd)
<1>1. e \in Seq(Command) /\ Len(e) = Len(d) + 1 /\ \A k \in 1..Len(d) : e[k] = d[k]
  OBVIOUS
<1> HIDE DEF e
<1>2. ASSUME NEW m \in 0..Len(d)
      PROVE  SubSeq(e, 1, m) = SubSeq(d, 1, m)
  <2>1. /\ SubSeq(e, 1, m) = [k \in 1..m |-> e[k]]
        /\ SubSeq(d, 1, m) = [k \in 1..m |-> d[k]]
    BY <1>1
  <2>2. \A k \in 1..m : e[k] = d[k]
    BY <1>1
  <2> QED BY <2>1, <2>2
<1>3. SubSeq(e, 1, Len(d) + 1) = e
  <2>1. SubSeq(e, 1, Len(d) + 1) = [k \in 1..Len(e) |-> e[k]]
    BY <1>1
  <2>2. e = [k \in 1..Len(e) |-> e[k]]
    BY <1>1
  <2> QED BY <2>1, <2>2
<1> QED BY <1>1, <1>2, <1>3 DEF e

LEMMA GrownCheckpoint ==
  ASSUME NEW d \in Seq(Command), NEW cmd \in Command, NEW c, Checkpoint(c, d)
  PROVE  Checkpoint(c, Append(d, cmd))
<1>1. PICK n \in 0..Len(d) : \E m \in n..Len(d) :
        c = [lastIncludedIndex |-> n, data |-> Execute(New, SubSeq(d, 1, m))]
  BY DEF Checkpoint
<1>2. PICK m \in n..Len(d) :
        c = [lastIncludedIndex |-> n, data |-> Execute(New, SubSeq(d, 1, m))]
  BY <1>1
<1> DEFINE e == Append(d, cmd)
<1>3. n \in 0..Len(e) /\ m \in n..Len(e) /\ SubSeq(e, 1, m) = SubSeq(d, 1, m)
  BY GrownPrefix
<1> HIDE DEF e
<1>4. Checkpoint(c, e)
  BY <1>2, <1>3 DEF Checkpoint
<1> QED BY <1>4 DEF e

\* Catching up executes the next command of the log.
LEMMA CaughtUp ==
  ASSUME NEW d \in Seq(Command), NEW s, Executed(s, d), Len(s) < Len(d)
  PROVE  /\ Executed(Append(s, d[Len(s) + 1]), d)
         /\ Append(s, d[Len(s) + 1]) \in Seq(Command)
         /\ Len(Append(s, d[Len(s) + 1])) = Len(s) + 1
         /\ Len(s) \in Nat
<1>1. PICK m \in 0..Len(d) : s = SubSeq(d, 1, m)
  BY DEF Executed
<1>2. Len(s) = m /\ s \in Seq(Command) /\ \A k \in 1..m : s[k] = d[k]
  BY <1>1
<1>3. m + 1 \in 1..Len(d) /\ d[m + 1] \in Command
  BY <1>2
<1> DEFINE r == Append(s, d[m + 1])
<1>4. /\ r \in Seq(Command) /\ Len(r) = m + 1
      /\ \A k \in 1..(m + 1) : r[k] = d[k]
  BY <1>2, <1>3
<1> HIDE DEF r
<1>5. r = SubSeq(d, 1, m + 1)
  <2>1. r = [k \in 1..(m + 1) |-> r[k]] /\ SubSeq(d, 1, m + 1) = [k \in 1..(m + 1) |-> d[k]]
    BY <1>3, <1>4
  <2> QED BY <1>4, <2>1
<1>6. Executed(r, d)
  BY <1>3, <1>5 DEF Executed
<1> QED BY <1>2, <1>4, <1>6 DEF r

\* The call of GetSnapshot on a node that has executed s: the index it read before is
\* not beyond the map.
LEMMA AnswerIsCheckpoint ==
  ASSUME NEW d \in Seq(Command), NEW s, Executed(s, d), NEW n \in 0..Len(s)
  PROVE  LET wire   == SnapshotToWire(Execute(New, s), n, 0)
             before == [lastIncludedIndex |-> n, data |-> New]
         IN  Checkpoint([f \in DOMAIN before |-> SnapshotFromWire(wire)[f]], d)
<1>1. PICK m \in 0..Len(d) : s = SubSeq(d, 1, m)
  BY DEF Executed
<1>2. Len(s) = m /\ s \in [1..m -> Command]
  <2>1. s = [k \in 1..m |-> d[k]] /\ Len(s) = m
    BY <1>1
  <2>2. \A k \in 1..m : d[k] \in Command
    OBVIOUS
  <2> QED BY <2>1, <2>2
<1>3. PICK K \in SUBSET Text : Execute(New, s) \in [K -> Text]
  BY <1>2, ExecuteType
<1> DEFINE data == Execute(New, s)
           got  == SnapshotFromWire(SnapshotToWire(data, n, 0))
           c    == [lastIncludedIndex |-> n, data |-> data]
<1> HIDE DEF data
<1>4. n \in Nat /\ 0 \in Nat
  BY <1>2
<1>5. got = [lastIncludedIndex |-> n, lastIncludedTerm |-> 0, data |-> data]
  BY <1>3, <1>4, SnapshotArrives DEF data
<1>6. DOMAIN [lastIncludedIndex |-> n, data |-> New] = {"lastIncludedIndex", "data"}
  OBVIOUS
<1>7. [f \in {"lastIncludedIndex", "data"} |-> got[f]] = c
  BY <1>5
<1>8. n \in 0..Len(d) /\ m \in n..Len(d)
  BY <1>2
<1>9. Checkpoint(c, d)
  BY <1>1, <1>8 DEF Checkpoint, data
<1> QED BY <1>6, <1>7, <1>9 DEF data

\* Restoring a checkpoint and executing what follows its index.
LEMMA CheckpointRestores ==
  ASSUME NEW d \in Seq(Command), NEW c, Checkpoint(c, d)
  PROVE  /\ c # Torn
         /\ c.lastIncludedIndex <= Len(d)
         /\ Execute(c.data, SubSeq(d, c.lastIncludedIndex + 1, Len(d))) = Execute(New, d)
<1>1. PICK n \in 0..Len(d), m \in 0..Len(d) :
        /\ n <= m
        /\ c = [lastIncludedIndex |-> n, data |-> Execute(New, SubSeq(d, 1, m))]
  BY DEF Checkpoint
<1>2. PICK N \in Nat : N = Len(d) /\ d \in [1..N -> Command]
  OBVIOUS
<1>3. c.lastIncludedIndex = n /\ c.data = Execute(New, SubSeq(d, 1, m))
  BY <1>1
<1>4. Execute(Execute(New, SubSeq(d, 1, m)), SubSeq(d, n + 1, N)) = Execute(New, d)
  <2>1. n \in 0..N /\ m \in n..N
    BY <1>1, <1>2
  <2> QED BY <1>2, <2>1, Replay
<1>5. c # Torn
  <2>1. SubSeq(d, 1, m) \in [1..m -> Command] /\ m \in Nat
    <3> DEFINE s == SubSeq(d, 1, m)
    <3>1. s = [k \in 1..m |-> d[k]] /\ m \in Nat
      OBVIOUS
    <3>2. \A k \in 1..m : d[k] \in Command
      BY <1>2
    <3> HIDE DEF s
    <3>3. s \in [1..m -> Command]
      BY <3>1, <3>2
    <3> QED BY <3>1, <3>3 DEF s
  <2>2. PICK K \in SUBSET Text : Execute(New, SubSeq(d, 1, m)) \in [K -> Text]
    BY <2>1, ExecuteType
  <2> DEFINE Maps == UNION {[J -> Text] : J \in SUBSET Text}
  <2>3. c.data \in Maps
    BY <1>3, <2>2
  <2> HIDE DEF Maps
  <2>4. c = [lastIncludedIndex |-> n, data |-> c.data] /\ n \in Nat
    BY <1>1, <1>3
  <2>5. c \in [lastIncludedIndex : Nat, data : Maps]
    BY <2>3, <2>4
  <2> QED BY <2>5, SnapshotAssumption DEF Maps
<1> QED BY <1>1, <1>2, <1>3, <1>4, <1>5
-------------------------------------------------------------------------------
LEMMA InitialCheckpoint == Init => CheckpointInv
<1> SUFFICES ASSUME Init
             PROVE  CheckpointInv
  OBVIOUS
<1>1. ClusterInv
  <2>1. <<>> \in Seq(Command) /\ SubSeq(<<>>, 1, 0) = <<>> /\ Len(<<>>) = 0
    OBVIOUS
  <2>2. Executed(<<>>, <<>>)
    BY <2>1 DEF Executed
  <2> QED BY <2>1, <2>2 DEF Init, ClusterInv
<1>2. ViewInv
  BY SnapshotAssumption DEF Init, ViewInv
<1>3. AnswerInv /\ FileInv
  BY DEF Init, AnswerInv, FileInv
<1> QED BY <1>1, <1>2, <1>3 DEF CheckpointInv

\* The cluster goes on.
LEMMA DecideKeeps ==
  ASSUME CheckpointInv, NEW i \in Server, NEW cmd \in Proposals, Decide(i, cmd)
  PROVE  CheckpointInv'
<1> USE DEF CheckpointInv
<1>1. PICK d, e :
        d \in Seq(Command) /\ decided = d /\ e = Append(d, cmd) /\ decided' = e
  BY DEF ClusterInv, Decide
<1>2. cmd \in Command
  BY ProposalsAreCommands
<1>3. /\ e \in Seq(Command) /\ Len(e) = Len(d) + 1 /\ Len(d) \in Nat
      /\ \A m \in 0..Len(d) : SubSeq(e, 1, m) = SubSeq(d, 1, m)
      /\ SubSeq(e, 1, Len(d) + 1) = e
  BY <1>1, <1>2, GrownPrefix
<1>4. applied' = [applied EXCEPT ![i] = e] /\ applied[i] = d
  BY <1>1 DEF Decide
<1>5. \A c : Checkpoint(c, d) => Checkpoint(c, e)
  BY <1>1, <1>2, GrownCheckpoint
<1>6. ClusterInv'
  <2>1. ASSUME NEW j \in Server
        PROVE  Executed(applied'[j], e)
    <3>1. CASE j = i
      <4>1. applied'[j] = SubSeq(e, 1, Len(d) + 1) /\ Len(d) + 1 \in 0..Len(e)
        BY <1>3, <1>4, <3>1 DEF ClusterInv
      <4> QED BY <4>1 DEF Executed
    <3>2. CASE j # i
      <4>1. applied'[j] = applied[j] /\ Executed(applied[j], d)
        BY <1>1, <1>4, <3>2 DEF ClusterInv
      <4>2. PICK m \in 0..Len(d) : applied[j] = SubSeq(d, 1, m)
        BY <4>1 DEF Executed
      <4>3. m \in 0..Len(e) /\ applied'[j] = SubSeq(e, 1, m)
        BY <1>3, <4>1, <4>2
      <4> QED BY <4>3 DEF Executed
    <3> QED BY <3>1, <3>2
  <2>2. applied' \in [Server -> Seq(Command)]
    BY <1>3, <1>4 DEF ClusterInv
  <2> QED BY <1>1, <1>3, <2>1, <2>2 DEF ClusterInv
<1>7. ViewInv'
  BY DEF ViewInv, Decide, view, round
<1>8. AnswerInv'
  <2>1. ASSUME pc = "data", answer # Nil
        PROVE  \E n \in 0..Len(applied'[asked]) :
                 answer = [lastIncludedIndex |-> n, data |-> New]
    <3>1. PICK n \in 0..Len(applied[asked]) :
            answer = [lastIncludedIndex |-> n, data |-> New]
      BY <2>1 DEF AnswerInv
    <3>2. asked \in Server
      BY <2>1 DEF ViewInv
    <3>3. n \in 0..Len(applied'[asked])
      BY <1>3, <1>4, <3>2 DEF ClusterInv
    <3> QED BY <3>1, <3>3
  <2>2. pc' = pc /\ answer' = answer /\ asked' = asked
    BY DEF Decide, round
  <2>3. pc \in {"write", "writing", "rename"} => Checkpoint(answer, e)
    BY <1>1, <1>5 DEF AnswerInv
  <2> QED BY <1>1, <2>1, <2>2, <2>3 DEF AnswerInv
<1>9. FileInv'
  <2>1. pc' = pc /\ tmp' = tmp /\ file' = file
    BY DEF Decide, round, disk
  <2> QED BY <1>1, <1>5, <2>1 DEF FileInv
<1> QED BY <1>6, <1>7, <1>8, <1>9

LEMMA CatchUpKeeps ==
  ASSUME CheckpointInv, NEW i \in Server, CatchUp(i)
  PROVE  CheckpointInv'
<1> USE DEF CheckpointInv
<1>1. PICK d, s, r :
        /\ d \in Seq(Command) /\ decided = d /\ decided' = d /\ s = applied[i]
        /\ r = Append(s, d[Len(s) + 1]) /\ Len(s) < Len(d)
  BY DEF ClusterInv, CatchUp
<1>2. Executed(s, d)
  BY <1>1 DEF ClusterInv
<1>3. Executed(r, d) /\ r \in Seq(Command) /\ Len(r) = Len(s) + 1 /\ Len(s) \in Nat
  BY <1>1, <1>2, CaughtUp
<1>4. applied' = [applied EXCEPT ![i] = r]
  BY <1>1 DEF CatchUp
<1>5. ClusterInv'
  BY <1>1, <1>3, <1>4 DEF ClusterInv
<1>6. pc' = pc /\ answer' = answer /\ asked' = asked /\ tmp' = tmp /\ file' = file /\ peers' = peers
  BY DEF CatchUp, round, disk, view
<1>7. ViewInv' /\ FileInv'
  BY <1>1, <1>6 DEF ViewInv, FileInv
<1>8. AnswerInv'
  <2>1. ASSUME pc = "data", answer # Nil
        PROVE  \E n \in 0..Len(applied'[asked]) :
                 answer = [lastIncludedIndex |-> n, data |-> New]
    <3>1. PICK n \in 0..Len(applied[asked]) :
            answer = [lastIncludedIndex |-> n, data |-> New]
      BY <2>1 DEF AnswerInv
    <3>2. asked \in Server
      BY <2>1 DEF ViewInv
    <3>3. n \in 0..Len(applied'[asked])
      BY <1>1, <1>3, <1>4, <3>2 DEF ClusterInv
    <3> QED BY <3>1, <3>3
  <2> QED BY <1>1, <1>6, <2>1 DEF AnswerInv
<1> QED BY <1>5, <1>7, <1>8

\* The index that was read is lost with the node that has it.
LEMMA RestartKeeps ==
  ASSUME CheckpointInv, NEW i \in Server, Restart(i)
  PROVE  CheckpointInv'
<1> USE DEF CheckpointInv
<1>1. PICK d \in Seq(Command) : decided = d /\ decided' = d
  BY DEF ClusterInv, Restart
<1>2. applied' = [applied EXCEPT ![i] = <<>>]
  BY DEF Restart
<1>3. ClusterInv'
  <2>1. 0 \in 0..Len(d) /\ <<>> = SubSeq(d, 1, 0) /\ <<>> \in Seq(Command)
    OBVIOUS
  <2>2. Executed(<<>>, d)
    BY <2>1 DEF Executed
  <2> QED BY <1>1, <1>2, <2>1, <2>2 DEF ClusterInv
<1>4. pc' = pc /\ asked' = asked /\ tmp' = tmp /\ file' = file /\ peers' = peers
  BY DEF Restart, disk, view
<1>5. ViewInv' /\ FileInv'
  BY <1>1, <1>4 DEF ViewInv, FileInv
<1>6. AnswerInv'
  <2>1. CASE asked = i /\ pc = "data"
    <3>1. answer' = Nil
      BY <2>1 DEF Restart
    <3> QED BY <1>4, <2>1, <3>1 DEF AnswerInv
  <2>2. CASE ~(asked = i /\ pc = "data")
    <3>1. answer' = answer
      BY <2>2 DEF Restart
    <3>2. pc = "data" => applied'[asked] = applied[asked]
      BY <1>2, <2>2 DEF ClusterInv, ViewInv
    <3> QED BY <1>1, <1>4, <3>1, <3>2 DEF AnswerInv
  <2> QED BY <2>1, <2>2
<1> QED BY <1>3, <1>5, <1>6

LEMMA ClusterKept ==
  ASSUME ClusterInv, UNCHANGED cluster
  PROVE  ClusterInv'
BY DEF ClusterInv, cluster

\* A round of the service.
LEMMA RoundKeeps ==
  ASSUME CheckpointInv, RunOnce
  PROVE  CheckpointInv'
<1> USE DEF CheckpointInv
<1>1. decided' = decided /\ applied' = applied
  BY DEF RunOnce, Refresh, AskLeader, RoundFails, FetchFails, AskPeer, ReadMetadata,
         ReadData, BeginWrite, FinishWrite, Rename, cluster
<1>2. ClusterInv'
  BY <1>1, ClusterKept DEF cluster
<1>3. CASE Refresh
  BY <1>1, <1>2, <1>3 DEF Refresh, view, disk, ViewInv, AnswerInv, FileInv
<1>4. CASE AskLeader
  BY <1>1, <1>2, <1>4 DEF AskLeader, view, disk, ViewInv, AnswerInv, FileInv
<1>5. CASE RoundFails
  BY <1>1, <1>2, <1>5 DEF RoundFails, view, disk, ViewInv, AnswerInv, FileInv
<1>6. CASE FetchFails
  BY <1>1, <1>2, <1>6 DEF FetchFails, view, disk, ViewInv, AnswerInv, FileInv
<1>7. CASE \E i \in Server : AskPeer(i)
  BY <1>1, <1>2, <1>7 DEF AskPeer, view, disk, ViewInv, AnswerInv, FileInv
<1>8. CASE ReadMetadata
  <2>1. asked \in Server /\ pc' = "data" /\ asked' = asked
    BY <1>8 DEF ReadMetadata, ViewInv
  <2>2. applied[asked] \in Seq(Command)
    BY <2>1 DEF ClusterInv
  <2>3. Len(applied[asked]) \in 0..Len(applied[asked])
    BY <2>2
  <2>4. answer' = [lastIncludedIndex |-> Len(applied[asked]), data |-> New]
    BY <1>8 DEF ReadMetadata
  <2>5. AnswerInv'
    BY <1>1, <2>1, <2>3, <2>4 DEF AnswerInv
  <2> QED BY <1>2, <1>1, <1>8, <2>1, <2>5 DEF ReadMetadata, view, disk, ViewInv, FileInv
<1>9. CASE ReadData
  <2>1. asked \in Server /\ pc = "data" /\ pc' = "write" /\ answer # Nil
    BY <1>9 DEF ReadData, ViewInv
  <2>2. PICK d, s : d \in Seq(Command) /\ decided = d /\ applied[asked] = s /\ Executed(s, d)
    BY <2>1 DEF ClusterInv
  <2>3. PICK n \in 0..Len(s) : answer = [lastIncludedIndex |-> n, data |-> New]
    BY <2>1, <2>2 DEF AnswerInv
  <2> DEFINE wire   == SnapshotToWire(Execute(New, s), n, 0)
             before == [lastIncludedIndex |-> n, data |-> New]
             c      == [f \in DOMAIN before |-> SnapshotFromWire(wire)[f]]
  <2>4. Checkpoint(c, d)
    BY <2>2, AnswerIsCheckpoint
  <2>5. answer' = c
    <3>1. answer.lastIncludedIndex = n
      BY <2>3
    <3> QED BY <1>9, <2>2, <2>3, <3>1 DEF ReadData
  <2> HIDE DEF c
  <2>6. AnswerInv'
    BY <1>1, <2>1, <2>2, <2>4, <2>5 DEF AnswerInv
  <2> QED BY <1>2, <1>1, <1>9, <2>1, <2>6 DEF ReadData, view, disk, ViewInv, FileInv
<1>10. CASE BeginWrite
  BY <1>1, <1>2, <1>10 DEF BeginWrite, view, ViewInv, AnswerInv, FileInv
<1>11. CASE FinishWrite
  BY <1>1, <1>2, <1>11 DEF FinishWrite, view, ViewInv, AnswerInv, FileInv
<1>12. CASE Rename
  BY <1>1, <1>2, <1>12 DEF Rename, view, ViewInv, AnswerInv, FileInv
<1> QED BY <1>3, <1>4, <1>5, <1>6, <1>7, <1>8, <1>9, <1>10, <1>11, <1>12 DEF RunOnce

LEMMA StepKeepsCheckpoint == CheckpointInv /\ [Next]_vars => CheckpointInv'
<1> SUFFICES ASSUME CheckpointInv, [Next]_vars
             PROVE  CheckpointInv'
  OBVIOUS
<1>1. CASE \E i \in Server : CatchUp(i) \/ Restart(i) \/ \E cmd \in Proposals : Decide(i, cmd)
  BY <1>1, CatchUpKeeps, RestartKeeps, DecideKeeps
<1>2. CASE Settle \/ BeginRound \/ RestartService \/ UNCHANGED vars
  <2>1. ClusterInv'
    BY <1>2, ClusterKept DEF CheckpointInv, Settle, BeginRound, RestartService, vars
  <2>2. decided' = decided /\ applied' = applied
    BY <1>2 DEF Settle, BeginRound, RestartService, vars, cluster
  <2>3. ViewInv'
    BY <1>2, SnapshotAssumption DEF CheckpointInv, Settle, BeginRound, RestartService,
       vars, view, round, ViewInv
  <2>4. AnswerInv'
    BY <1>2, <2>2 DEF CheckpointInv, Settle, BeginRound, RestartService, vars, round,
       AnswerInv
  <2>5. FileInv'
    BY <1>2, <2>2 DEF CheckpointInv, Settle, BeginRound, RestartService, vars, round,
       disk, FileInv
  <2> QED BY <2>1, <2>3, <2>4, <2>5 DEF CheckpointInv
<1>3. CASE RunOnce
  BY <1>3, RoundKeeps
<1> QED BY <1>1, <1>2, <1>3 DEF Next

\* Whoever restores the checkpoint and executes the log after its index has the state
\* of the cluster, whenever nodes and the service stop, for every log: the index and
\* the map are read under two locks (node.go: SnapshotState), and the file is replaced
\* by renaming a complete one (snapshot.go: writeCheckpoint).
THEOREM RestoresExactly == Spec => []RestoreIsExact
<1>1. CheckpointInv => RestoreIsExact
  <2> SUFFICES ASSUME CheckpointInv, file # Missing
               PROVE  /\ file # Torn
                      /\ file.lastIncludedIndex <= Len(decided)
                      /\ Execute(file.data,
                                 SubSeq(decided, file.lastIncludedIndex + 1, Len(decided)))
                           = Execute(New, decided)
    BY DEF RestoreIsExact
  <2>1. decided \in Seq(Command) /\ Checkpoint(file, decided)
    BY DEF CheckpointInv, ClusterInv, FileInv
  <2> QED BY <2>1, CheckpointRestores
<1> QED BY <1>1, InitialCheckpoint, StepKeepsCheckpoint, PTL DEF Spec
===============================================================================
