--------------------------------- MODULE Proxy ---------------------------------
(***************************************************************************)
(* The client proxy: callLeader (internal/proxy/proxy.go), the view of the *)
(* cluster it routes by (internal/discovery/discovery.go) and the breakers *)
(* of CircuitBreaker.  Requests run concurrently and share the view and    *)
(* the breakers; neither lock is held while a node is asked or called.     *)
(*                                                                         *)
(* The cluster is the environment.  While it is in trouble a node may give *)
(* any answer or none: no leader, a leader of the past, "not leader", a    *)
(* timeout.  From some moment on (Settle) it has a leader that answers,    *)
(* which every node that answers at all names.                             *)
(***************************************************************************)
EXTENDS CircuitBreaker

CONSTANTS
  Seeds,       \* the nodes in the proxy's configuration
  MaxRetries,
  Winner       \* the node that leads the settled cluster

NoAnswer == "no answer"      \* Refresh has not heard from anybody yet
Unreachable == "unreachable" \* Refresh has asked everybody in vain

\* LoadProxyConfig: validate.  The seeds are nodes of the cluster, and the two words
\* above are no addresses.
ASSUME ProxyAssumption ==
  /\ Seeds \subseteq Address /\ Seeds # {}
  /\ MaxRetries \in Nat \ {0}
  /\ Winner \in Address
  /\ NoAnswer \notin Address \cup {Nil} /\ Unreachable \notin Address \cup {Nil}

VARIABLES
  peers, leaderID,  \* Discovery
  pc,               \* where each request is in callLeader, "idle" before and after
  attempt,          \* from 1 to maxRetries
  addr,             \* the leader's address as read, until its breaker has answered
  heard,            \* what the node that Refresh asked has answered, not yet stored
  leader,           \* Winner once the cluster has settled; Nil while it is in trouble
  old,              \* history: the request is from the time of trouble
  refused,          \* history: the leader's breaker refused the request, which is not old
  undone            \* history: how often, since the request began, an answer from the
                    \* time of trouble has replaced the right leader in the view

view    == <<peers, leaderID>>
place   == <<pc, attempt, addr, heard>>
cluster == <<leader, old>>
vars    == <<breakers, view, place, cluster, refused, undone>>

Init ==
  /\ BreakersInit
  /\ peers = Seeds
  /\ leaderID = Nil
  /\ pc = [r \in Request |-> "idle"]
  /\ attempt = [r \in Request |-> 1]
  /\ addr = [r \in Request |-> Nil]
  /\ heard = [r \in Request |-> NoAnswer]
  /\ leader = Nil
  /\ old = [r \in Request |-> FALSE]
  /\ refused = [r \in Request |-> FALSE]
  /\ undone = [r \in Request |-> 0]

GoTo(r, place_) == pc' = [pc EXCEPT ![r] = place_]

\* The request ends.
Leave(r) ==
  /\ GoTo(r, "idle")
  /\ attempt' = [attempt EXCEPT ![r] = 1]
  /\ old' = [old EXCEPT ![r] = FALSE]
  /\ refused' = [refused EXCEPT ![r] = FALSE]

\* The cluster has sorted itself out.
Settle ==
  /\ leader = Nil
  /\ leader' = Winner
  /\ UNCHANGED <<breakers, view, place, old, refused, undone>>

\* Get, Put or Delete.
Begin(r) ==
  /\ pc[r] = "idle"
  /\ GoTo(r, "loop")
  /\ old' = [old EXCEPT ![r] = leader = Nil]
  /\ undone' = [undone EXCEPT ![r] = 0]
  /\ UNCHANGED <<breakers, view, attempt, addr, heard, leader, refused>>

\* LeaderAddress.
LeaderKnown == leaderID # Nil /\ leaderID \in peers

\* The attempt is over: the next follows after the backoff, or the request failed.
NextAttempt(r) ==
  IF attempt[r] < MaxRetries
  THEN /\ attempt' = [attempt EXCEPT ![r] = @ + 1]
       /\ GoTo(r, "loop")
       /\ UNCHANGED <<old, refused>>
  ELSE Leave(r)

\* In the backoff the loop notices that the context of the request is done.  What
\* that does to a call or to Refresh, the answers of an unsettled cluster include.
\* Nobody gives up on a settled one.
Cancel(r) ==
  /\ pc[r] = "loop"
  /\ attempt[r] > 1
  /\ old[r]
  /\ Leave(r)
  /\ UNCHANGED <<breakers, view, addr, heard, leader, undone>>

StillUnknown(r) ==
  /\ pc[r] = "discovered"
  /\ ~LeaderKnown
  /\ NextAttempt(r)
  /\ UNCHANGED <<breakers, view, addr, heard, leader, undone>>

\* The address is read under the lock of Discovery; the breaker is asked later.
ReadLeader(r) ==
  /\ pc[r] \in {"loop", "discovered"}
  /\ LeaderKnown
  /\ addr' = [addr EXCEPT ![r] = leaderID]
  /\ GoTo(r, "allow")
  /\ UNCHANGED <<breakers, view, attempt, heard, cluster, refused, undone>>

\* Allow says yes, and invoke begins.
Admit(r) ==
  /\ pc[r] = "allow"
  /\ \E a \in Address : addr[r] = a /\ (Pass(r, a) \/ Try(r, a))
  /\ addr' = [addr EXCEPT ![r] = Nil]
  /\ GoTo(r, "call")
  /\ UNCHANGED <<view, attempt, heard, cluster, refused, undone>>

\* Allow says no.
Skip(r) ==
  /\ pc[r] = "allow"
  /\ \E a \in Address : addr[r] = a /\ Refuse(r, a)
  /\ addr' = [addr EXCEPT ![r] = Nil]
  /\ GoTo(r, "refresh")
  /\ refused' = [refused EXCEPT ![r] = @ \/ (addr[r] = leader /\ ~old[r])]
  /\ UNCHANGED <<view, attempt, heard, cluster, undone>>

Answered(r) ==
  /\ pc[r] = "call"
  /\ leader \in {Nil, calling[r]}
  /\ \E a \in Address : RecordSuccess(r, a)
  /\ Leave(r)
  /\ UNCHANGED <<view, addr, heard, leader, undone>>

\* (Mutant: the failure is booked on whoever leads in the view by now.)
BookOnView(r) ==
  /\ pc[r] = "call"
  /\ calling[r] # leader \/ old[r]
  /\ calling' = [calling EXCEPT ![r] = Nil]
  /\ IF LeaderKnown THEN Count(leaderID) ELSE UNCHANGED <<state, failureCount, cooling>>
  /\ GoTo(r, "refresh")
  /\ UNCHANGED <<failed, view, attempt, addr, heard, cluster, refused, undone>>

\* Any error is a failure of the node: a timeout, "not leader", or the end of the
\* client's own context.
NotAnswered(r) ==
  /\ pc[r] = "call"
  /\ calling[r] # leader \/ old[r]
  /\ \E a \in Address : RecordFailure(r, a)
  /\ GoTo(r, "refresh")
  /\ UNCHANGED <<view, attempt, addr, heard, cluster, refused, undone>>

\* What GetStatus may say.
Hints == IF leader = Nil THEN Address \cup {Nil} ELSE {leader}

\* Refresh, up to the answer: the first node that answers is believed.  It is asked
\* for before a call if no leader is known, and after one that came to nothing.
Ask(r) ==
  /\ pc[r] = "refresh" \/ (pc[r] = "loop" /\ ~LeaderKnown)
  /\ heard[r] = NoAnswer
  /\ \/ \E hint \in Hints : heard' = [heard EXCEPT ![r] = hint]
     \/ /\ leader = Nil \/ old[r]
        /\ heard' = [heard EXCEPT ![r] = Unreachable]
  /\ GoTo(r, IF pc[r] = "loop" THEN "discover" ELSE "refresh")
  /\ UNCHANGED <<breakers, view, attempt, addr, cluster, refused, undone>>

\* (Mutant: the view learns of a leader and never forgets one.)
StoreUnlessKnown(r) ==
  IF heard[r] = Unreachable \/ LeaderKnown THEN UNCHANGED view
  ELSE /\ leaderID' = heard[r]
       /\ peers' = Address

\* Refresh, second half.  Every node reports all of them.
Store(r) ==
  IF heard[r] = Unreachable THEN UNCHANGED view
  ELSE /\ leaderID' = heard[r]
       /\ peers' = Address

\* The answer of r is from before the cluster settled and takes the leader off the view.
Undoes(r) == leaderID = Winner /\ heard[r] \notin {Winner, Unreachable}

\* Before a call, only a Refresh that found nobody ends the attempt; after one,
\* its error is ignored.
Refreshed(r) ==
  /\ heard[r] # NoAnswer
  /\ Store(r)
  /\ heard' = [heard EXCEPT ![r] = NoAnswer]
  /\ IF pc[r] = "discover" /\ heard[r] # Unreachable
     THEN GoTo(r, "discovered") /\ UNCHANGED <<attempt, old, refused>>
     ELSE NextAttempt(r)
  /\ undone' = [q \in Request |->
       IF Undoes(r) /\ pc[q] # "idle" /\ ~old[q] THEN undone[q] + 1 ELSE undone[q]]
  /\ UNCHANGED <<breakers, addr, leader>>

callLeader(r) ==
  \/ StillUnknown(r) \/ ReadLeader(r) \/ Admit(r) \/ Skip(r)
  \/ Answered(r) \/ NotAnswered(r) \/ Ask(r) \/ Refreshed(r)

Cool == Tick /\ UNCHANGED <<view, place, cluster, refused, undone>>

Next ==
  \/ Cool
  \/ Settle
  \/ \E r \in Request : Begin(r) \/ Cancel(r) \/ callLeader(r)

\* Time passes, every wait of a request has a deadline, and trouble ends.
Spec ==
  /\ Init
  /\ [][Next]_vars
  /\ WF_vars(Cool)
  /\ WF_vars(Settle)
  /\ \A r \in Request : WF_vars(callLeader(r))
-------------------------------------------------------------------------------
\* What callLeader does to the breakers is what CircuitBreaker says, call by call:
\* none is recorded twice, forgotten, or booked on another node (proxy.go:
\* callLeader, breakers.get).
UsesBreakers == Breakers

\* The latest attempt is over and was in vain.
Fails(r) == pc[r] \notin {"idle", "loop", "call"} /\ pc'[r] = "idle"

\* If a request is made of a settled cluster and fails, then the leader's own breaker
\* refused it, or the view was put right for it and made wrong again, by answers from
\* before that other requests stored late, once for every attempt but the first
\* (proxy.go: callLeader, "si ridirige da solo se il Leader che conosceva è [...]
\* cambiato").  So a view that is stale when a request begins costs it at most one
\* attempt, whatever it names.
FailsForAReason ==
  [][\A r \in Request : Fails(r) => old[r] \/ refused[r] \/ undone[r] >= MaxRetries - 1]_vars

\* Sooner or later after the cluster has settled, requests fail no more: neither
\* the view nor a breaker stays wrong, although failures that say nothing about
\* the leader opened its breaker before (proxy.go: "gestisce in modo trasparente
\* sia il cambio di Leader sia i nodi che non rispondono").
ServesInTheEnd == <>[][\A r \in Request : ~Fails(r)]_vars
===============================================================================
