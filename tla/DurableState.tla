----------------------------- MODULE DurableState -----------------------------
(***************************************************************************)
(* What raftlog.Storage promises, with no file in sight: one value in      *)
(* memory and one that a restart finds.  A mutation changes the first at   *)
(* once; the second becomes equal to the first in one step, the one in     *)
(* which success is reported, or stays as it was.                          *)
(***************************************************************************)

VARIABLES
  mem,     \* the value the operations read and change
  disk,    \* the value a restart would find
  up,      \* the process runs
  answer   \* how the latest write ended: "ok", "error", or "none" while it is underway

vars == <<mem, disk, up, answer>>

Init == ~up /\ answer = "error"

\* A start finds what is on disk.
Start ==
  /\ ~up
  /\ up'
  /\ mem' = disk
  /\ UNCHANGED <<disk, answer>>

Mutate ==
  /\ up /\ up'
  /\ answer # "none"
  /\ answer' = "none"
  /\ UNCHANGED disk

Succeed ==
  /\ up /\ up'
  /\ answer = "none"
  /\ answer' = "ok"
  /\ disk' = mem
  /\ UNCHANGED mem

Fail ==
  /\ up /\ up'
  /\ answer = "none"
  /\ answer' = "error"
  /\ UNCHANGED <<mem, disk>>

\* A write that is cut short reports nothing and leaves the disk alone.
Crash ==
  /\ up /\ ~up'
  /\ answer' = "error"
  /\ UNCHANGED disk

Next == Start \/ Mutate \/ Succeed \/ Fail \/ Crash

Spec == Init /\ [][Next]_vars
===============================================================================
