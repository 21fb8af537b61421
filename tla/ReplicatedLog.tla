----------------------------- MODULE ReplicatedLog -----------------------------
(***************************************************************************)
(* What the consensus core promises to the stores above it, with no term,  *)
(* vote or message in sight: the cluster decides one sequence of commands, *)
(* which only grows, and the store of every node has executed a prefix of  *)
(* it since that node's process started.                                   *)
(***************************************************************************)
EXTENDS SequencesExt

CONSTANT Server

VARIABLES
  decided,  \* the commands the cluster has committed, in order
  applied   \* applied[i]: the commands node i's store has executed since it started

Init ==
  /\ decided = <<>>
  /\ applied = [i \in Server |-> <<>>]

\* A leader commits further commands and executes everything up to them.
Decide(i) ==
  /\ IsStrictPrefix(decided, decided')
  /\ IsPrefix(applied[i], decided)
  /\ applied' = [applied EXCEPT ![i] = decided']

\* A node executes more of what was decided before: a follower told so by the
\* leader, or a new leader that commits again what others know committed.
CatchUp(i) ==
  /\ UNCHANGED decided
  /\ IsStrictPrefix(applied[i], applied'[i])
  /\ IsPrefix(applied'[i], decided)
  /\ applied' = [applied EXCEPT ![i] = applied'[i]]

\* The store is in memory: a restarted node executes the sequence again.
Restart(i) ==
  /\ UNCHANGED decided
  /\ applied' = [applied EXCEPT ![i] = <<>>]

Next == \E i \in Server : Decide(i) \/ CatchUp(i) \/ Restart(i)

Spec == Init /\ [][Next]_<<decided, applied>>
===============================================================================
