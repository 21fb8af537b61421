---------------------------- MODULE CircuitBreaker ----------------------------
(***************************************************************************)
(* breakerRegistry and circuitBreaker (internal/proxy/circuitbreaker.go):  *)
(* a breaker for every address, and the requests that share them.          *)
(* callLeader asks Allow, calls the node with the mutex released, and      *)
(* records how the call ended.  A call lasts as long as it likes, up to    *)
(* its deadline.                                                           *)
(*                                                                         *)
(* Time is a countdown: only the distance to openUntil is ever looked at.  *)
(***************************************************************************)
EXTENDS Integers, FiniteSets

CONSTANTS
  Request,           \* requests that may be at the proxy at once
  Address,           \* the nodes
  Nil,               \* no address
  FailureThreshold,
  ResetTimeout       \* in ticks

ASSUME BreakerAssumption ==
  /\ FailureThreshold \in Nat \ {0}
  /\ ResetTimeout \in Nat \ {0}
  /\ Nil \notin Address

\* The breakers, one per address.  The registry makes one at the first call, in
\* the state they all have here from the start.
VARIABLES
  state,         \* "closed", "open" or "halfOpen"
  failureCount,
  cooling,       \* ticks until openUntil is past
  calling,       \* for every request: the node it is calling, or Nil
  failed         \* history: calls that failed since one last succeeded, counted
                 \* up to the threshold

breakers == <<state, failureCount, cooling, calling, failed>>

BreakersInit ==
  /\ state = [a \in Address |-> "closed"]
  /\ failureCount = [a \in Address |-> 0]
  /\ cooling = [a \in Address |-> 0]
  /\ calling = [r \in Request |-> Nil]
  /\ failed = [a \in Address |-> 0]

Tick ==
  /\ \E a \in Address : cooling[a] > 0
  /\ cooling' = [a \in Address |-> IF cooling[a] > 0 THEN cooling[a] - 1 ELSE 0]
  /\ UNCHANGED <<state, failureCount, calling, failed>>

\* Allow, in the closed state.
Pass(r, a) ==
  /\ calling[r] = Nil
  /\ state[a] = "closed"
  /\ calling' = [calling EXCEPT ![r] = a]
  /\ UNCHANGED <<state, failureCount, cooling, failed>>

\* Allow, in the half-open state or once openUntil is past.
Try(r, a) ==
  /\ calling[r] = Nil
  /\ state[a] = "halfOpen" \/ (state[a] = "open" /\ cooling[a] = 0)
  /\ state' = [state EXCEPT ![a] = "halfOpen"]
  /\ calling' = [calling EXCEPT ![r] = a]
  /\ UNCHANGED <<failureCount, cooling, failed>>

\* (Mutant: a call that is refused extends the cooling.)
RefuseAndExtend(r, a) ==
  /\ calling[r] = Nil
  /\ state[a] = "open" /\ cooling[a] > 0
  /\ cooling' = [cooling EXCEPT ![a] = ResetTimeout]
  /\ UNCHANGED <<state, failureCount, calling, failed>>

\* Allow answers false.
Refuse(r, a) ==
  /\ calling[r] = Nil
  /\ state[a] = "open" /\ cooling[a] > 0
  /\ UNCHANGED breakers

\* (Mutant: the failures of earlier are not forgotten.)
RecordSuccessOnly(r, a) ==
  /\ calling[r] = a
  /\ calling' = [calling EXCEPT ![r] = Nil]
  /\ state' = [state EXCEPT ![a] = "closed"]
  /\ failed' = [failed EXCEPT ![a] = 0]
  /\ UNCHANGED <<failureCount, cooling>>

RecordSuccess(r, a) ==
  /\ calling[r] = a
  /\ calling' = [calling EXCEPT ![r] = Nil]
  /\ failureCount' = [failureCount EXCEPT ![a] = 0]
  /\ state' = [state EXCEPT ![a] = "closed"]
  /\ failed' = [failed EXCEPT ![a] = 0]
  /\ UNCHANGED cooling

\* (Mutant: the counter is not reset when the breaker opens.)
KeepCounting(a) ==
  /\ failureCount' = [failureCount EXCEPT ![a] = @ + 1]
  /\ IF state[a] = "halfOpen" \/ failureCount[a] + 1 >= FailureThreshold
     THEN /\ state' = [state EXCEPT ![a] = "open"]
          /\ cooling' = [cooling EXCEPT ![a] = ResetTimeout]
     ELSE UNCHANGED <<state, cooling>>

\* One failure more: the breaker opens, or opens anew, or counts on.
Count(a) ==
  IF state[a] = "halfOpen" \/ failureCount[a] + 1 >= FailureThreshold
  THEN /\ state' = [state EXCEPT ![a] = "open"]
       /\ cooling' = [cooling EXCEPT ![a] = ResetTimeout]
       /\ failureCount' = [failureCount EXCEPT ![a] = 0]
  ELSE /\ failureCount' = [failureCount EXCEPT ![a] = @ + 1]
       /\ UNCHANGED <<state, cooling>>

RecordFailure(r, a) ==
  /\ calling[r] = a
  /\ calling' = [calling EXCEPT ![r] = Nil]
  /\ Count(a)
  /\ failed' = [failed EXCEPT ![a] = IF @ < FailureThreshold THEN @ + 1 ELSE @]

\* Everything that may happen to the breakers, whoever calls and why.
BreakersNext ==
  \/ Tick
  \/ \E r \in Request : \E a \in Address :
       Pass(r, a) \/ Try(r, a) \/ Refuse(r, a) \/ RecordSuccess(r, a) \/ RecordFailure(r, a)

Breakers == BreakersInit /\ [][BreakersNext]_breakers
-------------------------------------------------------------------------------
BreakersTypeOK ==
  /\ state \in [Address -> {"closed", "open", "halfOpen"}]
  /\ failureCount \in [Address -> 0..(FailureThreshold - 1)]
  /\ cooling \in [Address -> 0..ResetTimeout]
  /\ calling \in [Request -> Address \cup {Nil}]
  /\ failed \in [Address -> 0..FailureThreshold]

\* The counter of a breaker is below the threshold between calls, in every state,
\* and while the breaker is closed it is the number of failures since the latest
\* success: none is left over from the time it was open or half open
\* (circuitbreaker.go: RecordFailure, RecordSuccess).
CountsFailures ==
  /\ BreakersTypeOK
  /\ \A a \in Address : state[a] = "closed" => failureCount[a] = failed[a]

\* A closed breaker opens only after as many failures in a row as the threshold
\* says, in the order in which calls ended, whatever ended while it was open or
\* half open before, and whatever happens to other nodes (circuitbreaker.go:
\* RecordFailure, "fallimenti consecutivi", and breakerRegistry).
OpensAfterThreshold ==
  [][\A a \in Address :
       state[a] = "closed" /\ state'[a] = "open" => failed'[a] = FailureThreshold]_breakers
===============================================================================
