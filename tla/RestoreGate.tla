----------------------------- MODULE RestoreGate -----------------------------
(***************************************************************************)
(* The entries of lib-jni/src/sound/opus_decoder.cc that restore a stream   *)
(* from a checkpoint, and the gate at which Java can hold one of them:      *)
(* nPauseNextRestore asks that the next restore stop before it copies the   *)
(* checkpoint, nRestorePaused tells whether one has, nResumeRestore lets it  *)
(* go on.  Any thread may call any of them.                                 *)
(*                                                                         *)
(* A step is an access to one of the atomics, or what a thread does under   *)
(* gate.mutex up to the next place where another thread could tell.         *)
(***************************************************************************)
EXTENDS Naturals

CONSTANTS
  Restorers,    \* the threads that restore
  MaxRestores   \* how often they do: a bound on restore_count

ASSUME RestoresAssumption == MaxRestores \in Nat

VARIABLES
  restore_count, fail_next_restore, pause_next_restore, restore_paused,
  released,     \* gate.released
  holder,       \* who holds gate.mutex: a restorer or nobody
  notifying,    \* nResumeRestore has released the gate and not yet notified
  place,        \* where each restorer is
  owed          \* restorers that took a request nobody has resumed since

gateVars == <<restore_count, fail_next_restore, pause_next_restore, restore_paused,
              released, holder, notifying, place, owed>>

Nobody == "nobody"
Free == holder = Nobody

GateInit ==
  /\ restore_count = 0
  /\ fail_next_restore = FALSE /\ pause_next_restore = FALSE /\ restore_paused = FALSE
  /\ released = TRUE
  /\ holder = Nobody /\ notifying = FALSE
  /\ place = [r \in Restorers |-> "idle"]
  /\ owed = {}

Go(r, from, to) == place[r] = from /\ place' = [place EXCEPT ![r] = to]

-----------------------------------------------------------------------------
(* nRestoreCheckpoint.                                                     *)

CountRestore(r) ==
  /\ restore_count < MaxRestores
  /\ Go(r, "idle", "begin")
  /\ restore_count' = restore_count + 1
  /\ UNCHANGED <<fail_next_restore, pause_next_restore, restore_paused, released, holder,
                 notifying, owed>>

\* fail_next_restore.exchange(false): the failure asked for, before anything else.
TakeFailure(r) ==
  /\ Go(r, "begin", IF fail_next_restore THEN "idle" ELSE "cast")
  /\ fail_next_restore' = FALSE
  /\ UNCHANGED <<restore_count, pause_next_restore, restore_paused, released, holder,
                 notifying, owed>>

\* A handle that is no checkpoint: the request to pause stays for another.
CastFails(r) ==
  /\ Go(r, "cast", "idle")
  /\ UNCHANGED <<restore_count, fail_next_restore, pause_next_restore, restore_paused,
                 released, holder, notifying, owed>>

\* pause_next_restore.exchange(false).
TakePause(r) ==
  /\ Go(r, "cast", IF pause_next_restore THEN "lock" ELSE "copy")
  /\ pause_next_restore' = FALSE
  /\ owed' = IF pause_next_restore THEN owed \cup {r} ELSE owed
  /\ UNCHANGED <<restore_count, fail_next_restore, restore_paused, released, holder,
                 notifying>>

\* PauseRestore: lock, and say that a restore has stopped.
Announce(r) ==
  /\ Free
  /\ Go(r, "lock", "check")
  /\ holder' = r
  /\ restore_paused' = TRUE
  /\ UNCHANGED <<restore_count, fail_next_restore, pause_next_restore, released, notifying,
                 owed>>

\* resumed.wait: looks at `released', and gives the mutex up to wait.
MayLeaveAlways == TRUE                                            \* mutant
MayLeave == released

CheckReleased(r) ==
  /\ Go(r, "check", IF MayLeave THEN "leave" ELSE "waiting")
  /\ holder' = IF MayLeave THEN r ELSE Nobody
  /\ UNCHANGED <<restore_count, fail_next_restore, pause_next_restore, restore_paused,
                 released, notifying, owed>>

\* A notified thread takes the mutex again and looks again.
WakeUp(r) ==
  /\ Free
  /\ Go(r, "notified", "check")
  /\ holder' = r
  /\ UNCHANGED <<restore_count, fail_next_restore, pause_next_restore, restore_paused,
                 released, notifying, owed>>

\* A wait may end without a notification.
WakeSpuriously(r) ==
  /\ Free
  /\ Go(r, "waiting", "check")
  /\ holder' = r
  /\ UNCHANGED <<restore_count, fail_next_restore, pause_next_restore, restore_paused,
                 released, notifying, owed>>

LeaveGate(r) ==
  /\ Go(r, "leave", "copy")
  /\ holder' = Nobody
  /\ restore_paused' = FALSE
  /\ UNCHANGED <<restore_count, fail_next_restore, pause_next_restore, released, notifying,
                 owed>>

\* The new stream, or OutOfMemoryError.
CopyCheckpoint(r) ==
  /\ Go(r, "copy", "idle")
  /\ UNCHANGED <<restore_count, fail_next_restore, pause_next_restore, restore_paused,
                 released, holder, notifying, owed>>

-----------------------------------------------------------------------------
(* The other entries.                                                      *)

nFailNextRestore ==
  /\ fail_next_restore' = TRUE
  /\ UNCHANGED <<restore_count, pause_next_restore, restore_paused, released, holder,
                 notifying, place, owed>>

\* Refused while a restore says it is paused.
PauseRefused == restore_paused

nPauseNextRestore ==
  /\ Free /\ ~PauseRefused
  /\ released' = FALSE
  /\ pause_next_restore' = TRUE
  /\ UNCHANGED <<restore_count, fail_next_restore, restore_paused, holder, notifying, place,
                 owed>>

nResumeRestore ==
  /\ Free /\ ~notifying
  /\ pause_next_restore' = FALSE
  /\ released' = TRUE
  /\ notifying' = TRUE
  /\ owed' = {}
  /\ UNCHANGED <<restore_count, fail_next_restore, restore_paused, holder, place>>

\* resumed.notify_all, after the mutex was given up.
WokenOne(r) ==                                                    \* mutant
  place[r] = "waiting" /\ \A s \in Restorers : place[s] = "notified" => s = r
Woken(r) == place[r] = "waiting"

Notify ==
  /\ notifying
  /\ notifying' = FALSE
  /\ place' = [r \in Restorers |-> IF Woken(r) THEN "notified" ELSE place[r]]
  /\ UNCHANGED <<restore_count, fail_next_restore, pause_next_restore, restore_paused,
                 released, holder, owed>>

-----------------------------------------------------------------------------

\* What a thread does once it has entered nRestoreCheckpoint.
Goes(r) ==
  \/ TakeFailure(r) \/ CastFails(r) \/ TakePause(r)
  \/ Announce(r) \/ CheckReleased(r) \/ WakeUp(r) \/ LeaveGate(r) \/ CopyCheckpoint(r)

GateNext ==
  \/ \E r \in Restorers : CountRestore(r) \/ Goes(r) \/ WakeSpuriously(r)
  \/ nFailNextRestore \/ nPauseNextRestore \/ nResumeRestore \/ Notify

\* A thread that can run does, and nResumeRestore comes to its notification.
\* Nothing makes Java call, and no wait need end by itself.
GateFairness == WF_gateVars(Notify) /\ \A r \in Restorers : WF_gateVars(Goes(r))

GateSpec == GateInit /\ [][GateNext]_gateVars /\ GateFairness

-----------------------------------------------------------------------------
(* Properties.                                                             *)

InGate(r) == place[r] \in {"check", "waiting", "notified", "leave"}

\* A restore that took a request to pause does not get to its copy before
\* Java has resumed since the request; and when Java is told that a restore
\* is paused, there is one, inside the gate.
PauseHolds ==
  /\ \A r \in Restorers : place[r] = "copy" => r \notin owed
  /\ restore_paused => \E r \in Restorers : InGate(r)

\* A resume lets every restore go that the gate holds, however many there are
\* and wherever they are between the lock and the wait, unless Java asks for
\* another pause before they have left.
ResumeReleases ==
  \A r \in Restorers :
    (released /\ (place[r] = "lock" \/ InGate(r))) ~> (place[r] = "copy" \/ ~released)
=============================================================================
