------------------------------ MODULE ProxyProofs ------------------------------
(***************************************************************************)
(* The breakers, for every set of requests and addresses, every threshold  *)
(* and cooling time, and what the proxy does to them, whatever the cluster *)
(* answers.  Then the requests of a settled cluster: each attempt that one *)
(* loses is lost to the view as it was found, or to an answer from the     *)
(* time of trouble that another request stored later.                      *)
(***************************************************************************)
EXTENDS Proxy, TLAPS

\* The failures that the counter of a closed breaker stands for are those since
\* the latest success, and fewer than the threshold (RecordFailure, RecordSuccess).
THEOREM BreakerCounts == Breakers => []CountsFailures
<1>1. BreakersInit => CountsFailures
  BY BreakerAssumption DEF BreakersInit, CountsFailures, BreakersTypeOK
<1>2. CountsFailures /\ [BreakersNext]_breakers => CountsFailures'
  <2> SUFFICES ASSUME CountsFailures, [BreakersNext]_breakers PROVE CountsFailures'
    OBVIOUS
  <2> USE BreakerAssumption DEF CountsFailures, BreakersTypeOK
  <2>1. CASE Tick
    BY <2>1 DEF Tick
  <2>2. ASSUME NEW r \in Request, NEW a \in Address, Pass(r, a) \/ Try(r, a)
        PROVE  CountsFailures'
    BY <2>2 DEF Pass, Try
  <2>3. ASSUME NEW r \in Request, NEW a \in Address, Refuse(r, a)
        PROVE  CountsFailures'
    BY <2>3 DEF Refuse, breakers
  <2>4. ASSUME NEW r \in Request, NEW a \in Address, RecordSuccess(r, a)
        PROVE  CountsFailures'
    BY <2>4 DEF RecordSuccess
  <2>5. ASSUME NEW r \in Request, NEW a \in Address, RecordFailure(r, a)
        PROVE  CountsFailures'
    <3>1. CASE state[a] = "halfOpen" \/ failureCount[a] + 1 >= FailureThreshold
      BY <2>5, <3>1 DEF RecordFailure, Count
    <3>2. CASE ~(state[a] = "halfOpen" \/ failureCount[a] + 1 >= FailureThreshold)
      BY <2>5, <3>2 DEF RecordFailure, Count
    <3> QED
      BY <3>1, <3>2
  <2>6. CASE UNCHANGED breakers
    BY <2>6 DEF breakers
  <2> QED
    BY <2>1, <2>2, <2>3, <2>4, <2>5, <2>6 DEF BreakersNext
<1> QED
  BY <1>1, <1>2, PTL DEF Breakers

\* A node that answered is cut off only after a whole threshold of failures that no
\* success interrupted, and no failure of another node counts.
THEOREM OpensInTime == Breakers => OpensAfterThreshold
<1> DEFINE Opens(a) == state[a] = "closed" /\ state'[a] = "open"
<1>1. CountsFailures /\ [BreakersNext]_breakers
        => [\A a \in Address : Opens(a) => failed'[a] = FailureThreshold]_breakers
  <2> SUFFICES ASSUME CountsFailures, BreakersNext, NEW a \in Address, Opens(a)
               PROVE  failed'[a] = FailureThreshold
    BY DEF breakers
  <2> USE DEF CountsFailures, BreakersTypeOK
  <2>1. PICK r \in Request, b \in Address : RecordFailure(r, b)
    BY DEF BreakersNext, Tick, Pass, Try, Refuse, breakers, RecordSuccess
  <2>2. b = a /\ failureCount[a] + 1 >= FailureThreshold
    BY <2>1 DEF RecordFailure, Count
  <2> QED
    BY <2>1, <2>2, BreakerAssumption DEF RecordFailure
<1> QED
  BY <1>1, BreakerCounts, PTL DEF Breakers, OpensAfterThreshold
-------------------------------------------------------------------------------

\* Every step of a request is, for the breakers, one Allow, one record or nothing.
LEMMA BreakerStep == [Next]_vars => [BreakersNext]_breakers
<1> SUFFICES ASSUME [Next]_vars PROVE [BreakersNext]_breakers
  OBVIOUS
<1>1. CASE Cool
  BY <1>1 DEF Cool, BreakersNext
<1>2. CASE Settle
  BY <1>2 DEF Settle
<1>3. ASSUME NEW r \in Request, callLeader(r) PROVE [BreakersNext]_breakers
  <2>1. CASE StillUnknown(r) \/ ReadLeader(r) \/ Ask(r) \/ Refreshed(r)
    BY <2>1 DEF StillUnknown, ReadLeader, Ask, Refreshed
  <2>2. CASE Admit(r)
    BY <2>2 DEF Admit, BreakersNext
  <2>3. CASE Skip(r)
    BY <2>3 DEF Skip, Refuse
  <2>4. CASE Answered(r) \/ NotAnswered(r)
    BY <2>4 DEF Answered, NotAnswered, BreakersNext
  <2> QED
    BY <1>3, <2>1, <2>2, <2>3, <2>4 DEF callLeader
<1>4. ASSUME NEW r \in Request, Begin(r) \/ Cancel(r) PROVE [BreakersNext]_breakers
  BY <1>4 DEF Begin, Cancel
<1> QED
  BY <1>1, <1>2, <1>3, <1>4 DEF Next, vars

\* The proxy treats its breakers as CircuitBreaker says: what holds of breakers
\* holds of the proxy's (proxy.go: callLeader).
THEOREM ProxyUsesBreakers == Spec => UsesBreakers
<1>1. Init => BreakersInit
  BY DEF Init
<1> QED
  BY <1>1, BreakerStep, PTL DEF Spec, Breakers, UsesBreakers

\* The counters of the proxy's breakers are right (circuitbreaker.go).
THEOREM ProxyCounts == Spec => []CountsFailures
  BY ProxyUsesBreakers, BreakerCounts, PTL DEF UsesBreakers

\* No node the proxy calls is cut off before a threshold of failures in a row.
THEOREM ProxyOpensInTime == Spec => OpensAfterThreshold
  BY ProxyUsesBreakers, OpensInTime, PTL DEF UsesBreakers
-------------------------------------------------------------------------------
(* A request of a settled cluster fails only for a reason.                 *)

\* A request of a settled cluster that the leader's breaker has not refused.
Fresh(r) == pc[r] # "idle" /\ ~old[r] /\ ~refused[r]

\* Whether an attempt that begins now would be lost.
Wrong == IF leaderID = Winner THEN 0 ELSE 1

\* The request goes to the leader whatever becomes of the view.
OnCourse(r) ==
  \/ pc[r] = "allow" /\ addr[r] = Winner
  \/ pc[r] = "call" /\ calling[r] = Winner

\* The attempts a request has lost, or will have when the current one is over.
Lost(r) ==
  IF pc[r] = "loop" THEN attempt[r] - 1 + Wrong
  ELSE IF pc[r] = "discovered" THEN attempt[r] + Wrong
  ELSE IF OnCourse(r) THEN attempt[r] - 1
  ELSE attempt[r]

Places == {"idle", "loop", "discovered", "allow", "call", "refresh", "discover"}

PlaceOK ==
  /\ pc \in [Request -> Places]
  /\ attempt \in [Request -> 1..MaxRetries]
  /\ addr \in [Request -> Address \cup {Nil}]
  /\ heard \in [Request -> Address \cup {Nil, NoAnswer, Unreachable}]
  /\ old \in [Request -> BOOLEAN] /\ refused \in [Request -> BOOLEAN]
  /\ undone \in [Request -> Nat]
  /\ calling \in [Request -> Address \cup {Nil}]
  /\ leader \in {Nil, Winner}
  /\ leaderID \in Address \cup {Nil}
  /\ leaderID # Nil => peers = Address

\* Between two calls of callLeader nothing is left of the first.
AtRest ==
  \A r \in Request :
    /\ pc[r] = "idle" => attempt[r] = 1 /\ ~refused[r]
    /\ pc[r] \notin {"refresh", "discover"} => heard[r] = NoAnswer

\* A fresh request has lost one attempt to the view as it was found, if that was
\* wrong, and one more each time it was made wrong again.
FreshOK(r) ==
  Fresh(r) => leader = Winner /\ heard[r] \in {NoAnswer, Winner} /\ Lost(r) <= 1 + undone[r]

ViewInv == PlaceOK /\ AtRest /\ \A r \in Request : FreshOK(r)

LEMMA Names ==
  /\ Winner \in Address /\ Winner # Nil /\ NoAnswer # Unreachable
  /\ Winner # NoAnswer /\ Winner # Unreachable
  /\ MaxRetries \in Nat \ {0}
BY ProxyAssumption, BreakerAssumption DEF NoAnswer, Unreachable

LEMMA PlaceStep ==
  ASSUME PlaceOK, [Next]_vars
  PROVE  PlaceOK'
<1> USE Names DEF PlaceOK, Places
<1>1. CASE Cool \/ Settle \/ UNCHANGED vars
  BY <1>1 DEF Cool, Tick, Settle, vars, breakers, view, place, cluster
<1>2. ASSUME NEW r \in Request, Begin(r) \/ Cancel(r) \/ StillUnknown(r)
      PROVE  PlaceOK'
  <2>1. pc' \in [Request -> Places] /\ attempt' \in [Request -> 1..MaxRetries]
    BY <1>2 DEF Begin, Cancel, StillUnknown, NextAttempt, Leave, GoTo
  <2>2. old' \in [Request -> BOOLEAN] /\ refused' \in [Request -> BOOLEAN]
    BY <1>2 DEF Begin, Cancel, StillUnknown, NextAttempt, Leave
  <2>3. undone' \in [Request -> Nat]
    BY <1>2 DEF Begin, Cancel, StillUnknown
  <2>4. /\ heard' = heard /\ leader' = leader /\ leaderID' = leaderID /\ peers' = peers
        /\ calling' = calling /\ addr' = addr
    BY <1>2 DEF Begin, Cancel, StillUnknown, breakers, view
  <2> QED BY <2>1, <2>2, <2>3, <2>4
<1>3. ASSUME NEW r \in Request, ReadLeader(r) \/ Admit(r) \/ Skip(r)
      PROVE  PlaceOK'
  <2>1. /\ pc' \in [Request -> Places] /\ addr' \in [Request -> Address \cup {Nil}]
        /\ calling' \in [Request -> Address \cup {Nil}]
    BY <1>3 DEF ReadLeader, Admit, Skip, Pass, Try, Refuse, GoTo, breakers
  <2>2. refused' \in [Request -> BOOLEAN]
    BY <1>3 DEF ReadLeader, Admit, Skip
  <2>3. /\ attempt' = attempt /\ heard' = heard /\ leader' = leader /\ old' = old
        /\ leaderID' = leaderID /\ peers' = peers /\ undone' = undone
    BY <1>3 DEF ReadLeader, Admit, Skip, view, cluster
  <2> QED BY <2>1, <2>2, <2>3
<1>4. ASSUME NEW r \in Request, Answered(r) \/ NotAnswered(r)
      PROVE  PlaceOK'
  <2>1. pc' \in [Request -> Places] /\ attempt' \in [Request -> 1..MaxRetries]
    BY <1>4 DEF Answered, NotAnswered, Leave, GoTo
  <2>2. old' \in [Request -> BOOLEAN] /\ refused' \in [Request -> BOOLEAN]
    BY <1>4 DEF Answered, NotAnswered, Leave, cluster
  <2>3. calling' \in [Request -> Address \cup {Nil}]
    BY <1>4 DEF Answered, NotAnswered, RecordSuccess, RecordFailure
  <2>4. /\ heard' = heard /\ leader' = leader /\ leaderID' = leaderID /\ peers' = peers
        /\ addr' = addr /\ undone' = undone
    BY <1>4 DEF Answered, NotAnswered, view, cluster
  <2> QED BY <2>1, <2>2, <2>3, <2>4
<1>5. ASSUME NEW r \in Request, Ask(r)
      PROVE  PlaceOK'
  BY <1>5 DEF Ask, Hints, GoTo, breakers, view, cluster
<1>6. ASSUME NEW r \in Request, Refreshed(r)
      PROVE  PlaceOK'
  <2>1. heard[r] # NoAnswer /\ heard[r] \in Address \cup {Nil, NoAnswer, Unreachable}
    BY <1>6 DEF Refreshed
  <2>2. /\ leaderID' \in Address \cup {Nil}
        /\ leaderID' # Nil => peers' = Address
    BY <1>6, <2>1 DEF Refreshed, Store, view
  <2>3. pc' \in [Request -> Places] /\ attempt' \in [Request -> 1..MaxRetries]
    BY <1>6 DEF Refreshed, NextAttempt, Leave, GoTo
  <2>4. old' \in [Request -> BOOLEAN] /\ refused' \in [Request -> BOOLEAN]
    BY <1>6 DEF Refreshed, NextAttempt, Leave
  <2>5. undone' \in [Request -> Nat]
    BY <1>6 DEF Refreshed
  <2> QED BY <1>6, <2>2, <2>3, <2>4, <2>5 DEF Refreshed, breakers
<1> QED BY <1>1, <1>2, <1>3, <1>4, <1>5, <1>6 DEF Next, callLeader

LEMMA RestStep ==
  ASSUME PlaceOK, AtRest, [Next]_vars
  PROVE  AtRest'
<1> USE DEF PlaceOK, Places, AtRest
<1>1. CASE Cool \/ Settle \/ UNCHANGED vars
  BY <1>1 DEF Cool, Settle, vars, place, cluster
<1>2. ASSUME NEW r \in Request, Begin(r) \/ Cancel(r) \/ StillUnknown(r)
      PROVE  AtRest'
  BY <1>2 DEF Begin, Cancel, StillUnknown, NextAttempt, Leave, GoTo
<1>3. ASSUME NEW r \in Request, ReadLeader(r) \/ Admit(r) \/ Skip(r)
      PROVE  AtRest'
  BY <1>3 DEF ReadLeader, Admit, Skip, GoTo, cluster
<1>4. ASSUME NEW r \in Request, Answered(r) \/ NotAnswered(r)
      PROVE  AtRest'
  BY <1>4 DEF Answered, NotAnswered, Leave, GoTo, cluster
<1>5. ASSUME NEW r \in Request, Ask(r)
      PROVE  AtRest'
  BY <1>5 DEF Ask, GoTo, cluster
<1>6. ASSUME NEW r \in Request, Refreshed(r)
      PROVE  AtRest'
  BY <1>6 DEF Refreshed, NextAttempt, Leave, GoTo
<1> QED BY <1>1, <1>2, <1>3, <1>4, <1>5, <1>6 DEF Next, callLeader

\* What a step of another request, of the clock or of the cluster does to a fresh
\* request: only Refreshed moves the view, and it counts when it spoils it.
LEMMA ViewStep ==
  ASSUME PlaceOK, Next, NEW r \in Request, Fresh(r), Fresh(r)',
         ~(Begin(r) \/ Cancel(r))
  PROVE  /\ undone[r] \in Nat /\ undone'[r] \in Nat
         /\ Wrong \in {0, 1} /\ Wrong' \in {0, 1}
         /\ undone[r] <= undone'[r] /\ Wrong' + undone[r] <= Wrong + undone'[r]
<1>1. undone[r] \in Nat /\ undone'[r] \in Nat /\ Wrong \in {0, 1} /\ Wrong' \in {0, 1}
  BY PlaceStep DEF PlaceOK, Wrong
<1>2. ASSUME NEW q \in Request, Refreshed(q)
      PROVE  undone[r] <= undone'[r] /\ Wrong' + undone[r] <= Wrong + undone'[r]
  <2>1. pc[r] # "idle" /\ ~old[r]
    BY DEF Fresh
  <2>2. CASE Undoes(q)
    <3>1. undone'[r] = undone[r] + 1
      BY <1>2, <2>1, <2>2 DEF Refreshed
    <3> QED BY <1>1, <3>1
  <2>3. CASE ~Undoes(q)
    <3>1. undone'[r] = undone[r]
      BY <1>2, <2>3 DEF Refreshed
    <3>2. leaderID = Winner => leaderID' = Winner
      BY <1>2, <2>3, Names DEF Refreshed, Store, Undoes, view
    <3>3. Wrong' <= Wrong
      BY <3>2 DEF Wrong
    <3> QED BY <1>1, <3>1, <3>3
  <2> QED BY <2>2, <2>3
<1>3. ASSUME NEW q \in Request, q # r, Begin(q) \/ Cancel(q)
      PROVE  undone'[r] = undone[r] /\ leaderID' = leaderID
  BY <1>3 DEF Begin, Cancel, view, PlaceOK
<1>4. ASSUME NEW q \in Request, callLeader(q), ~Refreshed(q)
      PROVE  undone'[r] = undone[r] /\ leaderID' = leaderID
  BY <1>4 DEF callLeader, StillUnknown, ReadLeader, Admit, Skip, Answered, NotAnswered, Ask, view
<1>5. CASE Cool \/ Settle
  <2>1. undone'[r] = undone[r] /\ leaderID' = leaderID
    BY <1>5 DEF Cool, Settle, view
  <2> QED BY <1>1, <2>1 DEF Wrong
<1>6. ASSUME undone'[r] = undone[r] /\ leaderID' = leaderID
      PROVE  undone[r] <= undone'[r] /\ Wrong' + undone[r] <= Wrong + undone'[r]
  BY <1>1, <1>6 DEF Wrong
<1> QED BY <1>1, <1>2, <1>3, <1>4, <1>5, <1>6 DEF Next

\* A request that does not move loses no more than is counted.
LEMMA OthersPay ==
  ASSUME PlaceOK, Next, NEW r \in Request, FreshOK(r), leader' = leader,
         pc'[r] = pc[r], attempt'[r] = attempt[r], addr'[r] = addr[r], heard'[r] = heard[r],
         old'[r] = old[r], refused'[r] = refused[r], calling'[r] = calling[r],
         ~(Begin(r) \/ Cancel(r))
  PROVE  FreshOK(r)'
<1> SUFFICES ASSUME Fresh(r)'
             PROVE  (leader = Winner /\ heard[r] \in {NoAnswer, Winner}
                       /\ Lost(r) <= 1 + undone[r])'
  BY DEF FreshOK
<1>1. Fresh(r) /\ leader = Winner /\ heard[r] \in {NoAnswer, Winner} /\ Lost(r) <= 1 + undone[r]
  BY DEF Fresh, FreshOK
<1>2. /\ undone[r] \in Nat /\ undone'[r] \in Nat
      /\ Wrong \in {0, 1} /\ Wrong' \in {0, 1}
      /\ undone[r] <= undone'[r] /\ Wrong' + undone[r] <= Wrong + undone'[r]
  BY <1>1, ViewStep
<1>3. attempt[r] \in Nat
  BY Names DEF PlaceOK
<1>4. Lost(r)' <= 1 + undone'[r]
  <2>1. CASE pc[r] = "loop"
    <3>1. Lost(r) = attempt[r] - 1 + Wrong /\ Lost(r)' = attempt[r] - 1 + Wrong'
      BY <2>1 DEF Lost
    <3> QED BY <1>1, <1>2, <1>3, <3>1
  <2>2. CASE pc[r] = "discovered"
    <3>1. Lost(r) = attempt[r] + Wrong /\ Lost(r)' = attempt[r] + Wrong'
      BY <2>2 DEF Lost
    <3> QED BY <1>1, <1>2, <1>3, <3>1
  <2>3. CASE pc[r] \notin {"loop", "discovered"}
    <3>1. Lost(r)' = Lost(r) /\ Lost(r) \in {attempt[r], attempt[r] - 1}
      BY <2>3 DEF Lost, OnCourse
    <3> QED BY <1>1, <1>2, <1>3, <3>1
  <2> QED BY <2>1, <2>2, <2>3
<1> QED BY <1>1, <1>4

\* The request that moves.
LEMMA MoverPays ==
  ASSUME PlaceOK, AtRest, NEW r \in Request, FreshOK(r), Next,
         Begin(r) \/ Cancel(r) \/ callLeader(r), Fresh(r)'
  PROVE  (leader = Winner /\ heard[r] \in {NoAnswer, Winner} /\ Lost(r) <= 1 + undone[r])'
<1>1. leader' = leader
  BY DEF Begin, Cancel, callLeader, StillUnknown, ReadLeader, Admit, Skip, Answered,
         NotAnswered, Ask, Refreshed, cluster
<1>2. /\ pc[r] \in Places /\ attempt[r] \in 1..MaxRetries /\ attempt[r] \in Nat
      /\ heard[r] \in Address \cup {Nil, NoAnswer, Unreachable}
      /\ leader \in {Nil, Winner} /\ MaxRetries \in Nat
      /\ Wrong \in {0, 1} /\ Wrong' \in {0, 1}
  BY Names DEF PlaceOK, Wrong
<1>3. CASE Begin(r)
  <2>1. /\ pc'[r] = "loop" /\ attempt'[r] = 1 /\ heard'[r] = NoAnswer
        /\ leader = Winner /\ undone'[r] = 0
    BY <1>2, <1>3 DEF Begin, GoTo, Fresh, PlaceOK, AtRest
  <2>2. Lost(r)' = 1 - 1 + Wrong'
    BY <2>1 DEF Lost
  <2>3. \A w \in {0, 1} : 1 - 1 + w <= 1 + 0
    OBVIOUS
  <2> QED BY <1>1, <1>2, <2>1, <2>2, <2>3
<1>4. CASE Cancel(r) \/ Answered(r)
  <2>1. pc'[r] = "idle"
    BY <1>4 DEF Cancel, Answered, Leave, GoTo, PlaceOK
  <2> QED BY <2>1 DEF Fresh
<1>5. CASE callLeader(r) /\ ~Answered(r)
  <2>1. /\ Fresh(r) /\ leader = Winner /\ heard[r] \in {NoAnswer, Winner}
        /\ Lost(r) <= 1 + undone[r]
    <3>1. pc[r] # "idle" \/ (AtRest /\ heard[r] # NoAnswer)
      BY <1>5 DEF callLeader, StillUnknown, ReadLeader, Admit, Skip, NotAnswered, Ask, Refreshed
    <3>2. pc[r] # "idle"
      BY <3>1 DEF AtRest
    <3>3. ~old[r] /\ ~refused[r]
      <4>1. CASE StillUnknown(r) \/ Refreshed(r)
        BY <4>1 DEF Fresh, StillUnknown, Refreshed, NextAttempt, Leave, GoTo, PlaceOK
      <4>2. CASE ReadLeader(r) \/ Admit(r) \/ Skip(r) \/ NotAnswered(r) \/ Ask(r)
        BY <4>2 DEF Fresh, ReadLeader, Admit, Skip, NotAnswered, Ask, cluster, PlaceOK
      <4> QED BY <1>5, <4>1, <4>2 DEF callLeader
    <3> QED BY <3>2, <3>3 DEF Fresh, FreshOK
  <2>2. ~(Begin(r) \/ Cancel(r))
    <3>1. ~Begin(r)
      BY <2>1 DEF Begin, Fresh
    <3>2. ~Cancel(r)
      BY <2>1 DEF Cancel, Fresh
    <3> QED BY <3>1, <3>2
  <2>3. /\ undone[r] \in Nat /\ undone'[r] \in Nat
        /\ undone[r] <= undone'[r] /\ Wrong' + undone[r] <= Wrong + undone'[r]
    BY <2>1, <2>2, ViewStep
  <2>4. CASE StillUnknown(r)
    <3>1. /\ pc[r] = "discovered" /\ leaderID # Winner /\ leaderID' = leaderID
          /\ heard' = heard /\ pc'[r] = "loop" /\ attempt'[r] = attempt[r] + 1
      BY <1>2, <2>4, Names
         DEF StillUnknown, LeaderKnown, NextAttempt, Leave, GoTo, Fresh, PlaceOK, view
    <3>2. Wrong = 1 /\ Wrong' = 1
      BY <3>1 DEF Wrong
    <3>3. Lost(r) = attempt[r] + 1 /\ Lost(r)' = (attempt[r] + 1) - 1 + 1
      BY <3>1, <3>2 DEF Lost
    <3> QED BY <1>1, <1>2, <2>1, <2>3, <3>1, <3>3
  <2>5. CASE ReadLeader(r)
    <3>1. /\ pc[r] \in {"loop", "discovered"} /\ pc'[r] = "allow" /\ attempt' = attempt
          /\ heard' = heard /\ addr'[r] = leaderID
      BY <2>5 DEF ReadLeader, GoTo, PlaceOK
    <3>2. Lost(r)' = attempt[r] - 1 + Wrong
      BY <1>2, <3>1 DEF Lost, OnCourse, Wrong
    <3>3. Lost(r) \in {attempt[r] - 1 + Wrong, attempt[r] + Wrong}
      BY <3>1 DEF Lost
    <3> QED BY <1>1, <1>2, <2>1, <2>3, <3>1, <3>2, <3>3
  <2>6. CASE Admit(r)
    <3>1. /\ pc[r] = "allow" /\ pc'[r] = "call" /\ attempt' = attempt /\ heard' = heard
          /\ calling'[r] = addr[r]
      BY <2>6 DEF Admit, Pass, Try, GoTo, PlaceOK
    <3>2. Lost(r)' = Lost(r) /\ Lost(r) \in {attempt[r], attempt[r] - 1}
      BY <3>1 DEF Lost, OnCourse
    <3> QED BY <1>1, <1>2, <2>1, <2>3, <3>1, <3>2
  <2>7. CASE Skip(r)
    <3>1. /\ pc[r] = "allow" /\ addr[r] # Winner /\ pc'[r] = "refresh"
          /\ attempt' = attempt /\ heard' = heard
      BY <2>1, <2>7 DEF Skip, GoTo, PlaceOK, Fresh, cluster
    <3>2. Lost(r) = attempt[r] /\ Lost(r)' = attempt[r]
      BY <3>1 DEF Lost, OnCourse
    <3> QED BY <1>1, <1>2, <2>1, <2>3, <3>1, <3>2
  <2>8. CASE NotAnswered(r)
    <3>1. /\ pc[r] = "call" /\ calling[r] # Winner /\ pc'[r] = "refresh"
          /\ attempt' = attempt /\ heard' = heard
      BY <2>1, <2>8 DEF NotAnswered, GoTo, PlaceOK, Fresh
    <3>2. Lost(r) = attempt[r] /\ Lost(r)' = attempt[r]
      BY <3>1 DEF Lost, OnCourse
    <3> QED BY <1>1, <1>2, <2>1, <2>3, <3>1, <3>2
  <2>9. CASE Ask(r)
    <3>1. /\ pc[r] = "refresh" \/ (pc[r] = "loop" /\ ~LeaderKnown)
          /\ pc'[r] \in {"refresh", "discover"}
          /\ attempt' = attempt /\ heard'[r] = Winner
      BY <2>1, <2>9, Names DEF Ask, Hints, GoTo, PlaceOK, Fresh
    <3>2. Lost(r)' = attempt[r]
      BY <3>1 DEF Lost, OnCourse
    <3>3. ~LeaderKnown => Wrong = 1
      BY Names DEF LeaderKnown, Wrong, PlaceOK
    <3>4. Lost(r) \in {attempt[r], attempt[r] - 1 + 1}
      BY <3>1, <3>3 DEF Lost, OnCourse
    <3> QED BY <1>1, <1>2, <2>1, <2>3, <3>1, <3>2, <3>4
  <2>10. CASE Refreshed(r)
    <3>1. heard[r] = Winner /\ pc[r] \in {"refresh", "discover"} /\ heard'[r] = NoAnswer
      BY <2>1, <2>10 DEF Refreshed, AtRest, PlaceOK
    <3>2. leaderID' = Winner
      BY <2>10, <3>1, Names DEF Refreshed, Store
    <3>3. Wrong' = 0 /\ Lost(r) = attempt[r]
      BY <3>1, <3>2 DEF Wrong, Lost, OnCourse
    <3>4. \/ pc'[r] = "discovered" /\ attempt'[r] = attempt[r]
          \/ pc'[r] = "loop" /\ attempt'[r] = attempt[r] + 1
      BY <1>2, <2>10 DEF Refreshed, NextAttempt, Leave, GoTo, Fresh, PlaceOK
    <3>5. Lost(r)' = attempt[r]
      <4>1. CASE pc'[r] = "discovered" /\ attempt'[r] = attempt[r]
        <5>1. Lost(r)' = attempt[r] + 0
          BY <3>3, <4>1 DEF Lost
        <5> QED BY <1>2, <5>1
      <4>2. CASE pc'[r] = "loop" /\ attempt'[r] = attempt[r] + 1
        <5>1. Lost(r)' = (attempt[r] + 1) - 1 + 0
          BY <3>3, <4>2 DEF Lost
        <5> QED BY <1>2, <5>1
      <4> QED BY <3>4, <4>1, <4>2
    <3> QED BY <1>1, <1>2, <2>1, <2>3, <3>1, <3>3, <3>5
  <2> QED BY <1>5, <2>4, <2>5, <2>6, <2>7, <2>8, <2>9, <2>10 DEF callLeader
<1> QED BY <1>3, <1>4, <1>5 DEF callLeader

LEMMA ViewInvStep ==
  ASSUME ViewInv, [Next]_vars
  PROVE  ViewInv'
<1> USE DEF ViewInv
<1>1. PlaceOK' /\ AtRest'
  BY PlaceStep, RestStep
<1>2. ASSUME NEW r \in Request
      PROVE  FreshOK(r)'
  <2>1. CASE UNCHANGED vars
    <3>1. /\ pc' = pc /\ attempt' = attempt /\ addr' = addr /\ heard' = heard /\ old' = old
          /\ refused' = refused /\ undone' = undone /\ calling' = calling /\ leader' = leader
          /\ leaderID' = leaderID
      BY <2>1 DEF vars, view, place, cluster, breakers
    <3>2. Lost(r)' = Lost(r)
      BY <3>1 DEF Lost, OnCourse, Wrong
    <3> QED BY <3>1, <3>2 DEF FreshOK, Fresh
  <2>2. CASE Settle
    BY <2>2, Names DEF Settle, place, Fresh, FreshOK
  <2>3. CASE Cool
    <3>1. /\ pc' = pc /\ attempt' = attempt /\ addr' = addr /\ heard' = heard /\ old' = old
          /\ refused' = refused /\ calling' = calling /\ leader' = leader
      BY <2>3 DEF Cool, Tick, place, cluster
    <3>2. Next /\ ~(Begin(r) \/ Cancel(r))
      <4>1. pc[r] \in Places
        BY DEF PlaceOK
      <4> QED BY <2>3, <3>1, <4>1 DEF Next, Begin, Cancel, GoTo, Leave, PlaceOK, Places
    <3> QED BY <3>1, <3>2, OthersPay
  <2>4. ASSUME NEW q \in Request, Begin(q) \/ Cancel(q) \/ callLeader(q)
        PROVE  FreshOK(r)'
    <3>1. Next
      BY <2>4 DEF Next
    <3>2. CASE q = r
      BY <2>4, <3>1, <3>2, MoverPays DEF FreshOK
    <3>3. CASE q # r
      <4>1. leader' = leader
        BY <2>4 DEF Begin, Cancel, callLeader, StillUnknown, ReadLeader, Admit, Skip, Answered,
                    NotAnswered, Ask, Refreshed, cluster
      <4>2. calling'[r] = calling[r]
        BY <2>4, <3>3 DEF Begin, Cancel, callLeader, StillUnknown, ReadLeader, Admit, Skip,
           Answered, NotAnswered, Ask, Refreshed, breakers, Pass, Try, Refuse, RecordSuccess,
           RecordFailure, PlaceOK
      <4>3. pc'[r] = pc[r] /\ attempt'[r] = attempt[r]
        BY <2>4, <3>3 DEF Begin, Cancel, callLeader, StillUnknown, ReadLeader, Admit, Skip,
           Answered, NotAnswered, Ask, Refreshed, NextAttempt, Leave, GoTo, PlaceOK
      <4>4. heard'[r] = heard[r] /\ addr'[r] = addr[r]
        BY <2>4, <3>3 DEF Begin, Cancel, callLeader, StillUnknown, ReadLeader, Admit, Skip,
           Answered, NotAnswered, Ask, Refreshed, PlaceOK
      <4>5. old'[r] = old[r] /\ refused'[r] = refused[r]
        BY <2>4, <3>3 DEF Begin, Cancel, callLeader, StillUnknown, ReadLeader, Admit, Skip,
           Answered, NotAnswered, Ask, Refreshed, NextAttempt, Leave, cluster, PlaceOK
      <4>6. ~(Begin(r) \/ Cancel(r))
        BY <4>3 DEF Begin, Cancel, GoTo, Leave, PlaceOK
      <4> QED BY <3>1, <4>1, <4>2, <4>3, <4>4, <4>5, <4>6, OthersPay
    <3> QED BY <3>2, <3>3
  <2> QED BY <2>1, <2>2, <2>3, <2>4 DEF Next
<1> QED BY <1>1, <1>2

\* A request of a settled cluster that fails was refused by the leader's breaker, or
\* the view was made wrong again under it, by a late answer of another request, for
\* every attempt but the first; whatever the number of requests, nodes, stale answers
\* and attempts (proxy.go: callLeader).
THEOREM FailuresHaveReasons == Spec => FailsForAReason
<1>1. Init => ViewInv
  <2> SUFFICES ASSUME Init
               PROVE  ViewInv
    OBVIOUS
  <2>1. PlaceOK
    BY Names DEF Init, BreakersInit, PlaceOK, Places
  <2>2. AtRest /\ \A r \in Request : FreshOK(r)
    BY DEF Init, AtRest, FreshOK, Fresh
  <2> QED BY <2>1, <2>2 DEF ViewInv
<1>2. ViewInv /\ [Next]_vars => ViewInv'
  BY ViewInvStep
<1>3. ViewInv /\ [Next]_vars
        => [\A r \in Request : Fails(r) => old[r] \/ refused[r] \/ undone[r] >= MaxRetries - 1]_vars
  <2> SUFFICES ASSUME ViewInv, Next, NEW r \in Request, Fails(r), ~old[r], ~refused[r]
               PROVE  undone[r] >= MaxRetries - 1
    OBVIOUS
  <2>1. pc[r] \in {"discovered", "allow", "refresh", "discover"} /\ pc'[r] = "idle"
    BY DEF Fails, ViewInv, PlaceOK, Places
  <2>2. PICK q \in Request : Begin(q) \/ Cancel(q) \/ callLeader(q)
    BY <2>1 DEF Next, Cool, Settle, place
  <2>3. q = r
    BY <2>1, <2>2 DEF ViewInv, PlaceOK, Begin, Cancel, callLeader, StillUnknown, ReadLeader,
       Admit, Skip, Answered, NotAnswered, Ask, Refreshed, NextAttempt, Leave, GoTo
  <2>4. StillUnknown(r) \/ Refreshed(r)
    BY <2>1, <2>2, <2>3 DEF ViewInv, PlaceOK, Begin, Cancel, callLeader, ReadLeader, Admit,
       Skip, Answered, NotAnswered, Ask, GoTo
  <2>5. pc[r] # "allow"
    BY <2>1, <2>4 DEF ViewInv, AtRest, StillUnknown, Refreshed
  <2>6. /\ attempt[r] \in Nat /\ undone[r] \in Nat /\ MaxRetries \in Nat
        /\ Lost(r) <= 1 + undone[r]
    BY <2>1, Names DEF ViewInv, PlaceOK, FreshOK, Fresh
  <2>7. attempt[r] = MaxRetries
    <3>1. attempt[r] \in 1..MaxRetries
      BY DEF ViewInv, PlaceOK
    <3>2. ~(attempt[r] < MaxRetries)
      BY <2>1, <2>4 DEF ViewInv, PlaceOK, StillUnknown, Refreshed, NextAttempt, GoTo
    <3> QED BY <2>6, <3>1, <3>2
  <2>8. Lost(r) \in {attempt[r], attempt[r] + 1}
    BY <2>1, <2>5, <2>6 DEF Lost, OnCourse, Wrong
  <2> QED BY <2>6, <2>7, <2>8
<1> QED BY <1>1, <1>2, <1>3, PTL DEF Spec, FailsForAReason
===============================================================================
