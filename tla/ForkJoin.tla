------------------------------ MODULE ForkJoin ------------------------------
(***************************************************************************)
(* What a caller of ParallelExecutor::Execute relies on: a call forks one  *)
(* share of the task per index, every index runs its share exactly once    *)
(* between the call and its return, and no share outlives the call.        *)
(***************************************************************************)
EXTENDS Naturals

CONSTANT Index  \* the indices 0 .. GetThreadCount() - 1

VARIABLES
  phase,   \* "idle", "running" (inside Execute) or "stopped" (destroyed)
  done     \* the indices whose share of the current call has been run

fjvars == <<phase, done>>

Init ==
  /\ phase = "idle"
  /\ done = Index

Fork ==
  /\ phase = "idle"
  /\ phase' = "running"
  /\ done' = {}

Share(i) ==
  /\ phase = "running"
  /\ i \notin done
  /\ done' = done \cup {i}
  /\ UNCHANGED phase

Join ==
  /\ phase = "running"
  /\ done = Index
  /\ phase' = "idle"
  /\ UNCHANGED done

Stop ==
  /\ phase = "idle"
  /\ phase' = "stopped"
  /\ UNCHANGED done

Next == Fork \/ (\E i \in Index : Share(i)) \/ Join \/ Stop

Spec == Init /\ [][Next]_fjvars
=============================================================================
