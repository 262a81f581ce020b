------------------------------ MODULE TaskRange ------------------------------
(***************************************************************************)
(* DetermineTaskRange of gfx/renderer/schedule.h: how n items are split    *)
(* into contiguous ranges for a number of workers.  Three pieces of code   *)
(* split the same list at different times and rely on getting the same     *)
(* answer: the schedule's partitions, its table of bone owners, and        *)
(* RenderState::Update on each worker.                                     *)
(***************************************************************************)
EXTENDS Naturals

\* The first item of worker w; worker workers - 1 ends at Split(workers, ..).
Split(w, workers, n) == (n \div workers) * w + ((n % workers) * w) \div workers

\* The items of worker w, counted from 0.
TaskRange(w, workers, n) == Split(w, workers, n) .. Split(w + 1, workers, n) - 1
=============================================================================
