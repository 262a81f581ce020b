------------------------- MODULE RestoreGateProofs -------------------------
(***************************************************************************)
(* The gate of opus_decoder.cc holds, for any number of threads that       *)
(* restore.                                                                *)
(*                                                                         *)
(* A thread could slip through if the gate were open while it still owes   *)
(* Java a stop.  So the invariant follows the request: from                *)
(* nPauseNextRestore to the next nResumeRestore the gate is closed,        *)
(* whether the request still lies in pause_next_restore or a thread has    *)
(* taken it, and the thread that took it stands before the gate or in it.  *)
(***************************************************************************)
EXTENDS RestoreGate, TLAPS

Places == {"idle", "begin", "cast", "lock", "check", "waiting", "notified", "leave", "copy"}

GateTypeOK ==
  /\ place \in [Restorers -> Places]
  /\ owed \subseteq Restorers
  /\ released \in BOOLEAN /\ restore_paused \in BOOLEAN /\ pause_next_restore \in BOOLEAN

\* The gate is closed as long as somebody asks for it.
ClosedWhileAsked == released => ~pause_next_restore /\ owed = {}

\* Who took a request is held.
OwedIsHeld == \A r \in owed : place[r] \in {"lock", "check", "waiting", "notified"}

GateInv == GateTypeOK /\ ClosedWhileAsked /\ OwedIsHeld /\ PauseHolds

-----------------------------------------------------------------------------

\* A thread goes from one place to another.
LEMMA Went ==
  ASSUME GateTypeOK, NEW r \in Restorers, NEW from, NEW to \in Places, Go(r, from, to)
  PROVE  /\ place[r] = from /\ place' \in [Restorers -> Places] /\ place'[r] = to
         /\ \A s \in Restorers : s # r => place'[s] = place[s]
  BY DEF Go, GateTypeOK

LEMMA InitGateInv == GateInit => GateInv
  BY DEF GateInit, GateInv, GateTypeOK, ClosedWhileAsked, OwedIsHeld, PauseHolds, Places

\* A step of a restoring thread that moves only itself, takes no request,
\* leaves the flags of the gate alone and neither enters nor leaves the gate.
LEMMA MoveKeeps ==
  ASSUME GateInv, NEW r \in Restorers, NEW from, NEW to \in Places, Go(r, from, to),
         UNCHANGED <<released, restore_paused, pause_next_restore, owed>>,
         r \in owed => to \in {"check", "waiting", "notified"},
         InGate(r) => to \in {"check", "waiting", "notified", "leave"}
  PROVE  GateInv'
  <1>1. /\ place[r] = from /\ place' \in [Restorers -> Places] /\ place'[r] = to
        /\ \A s \in Restorers : s # r => place'[s] = place[s]
    BY Went DEF GateInv
  <1>2. GateTypeOK' /\ ClosedWhileAsked'
    BY <1>1 DEF GateInv, GateTypeOK, ClosedWhileAsked
  <1>3. OwedIsHeld'
    BY <1>1 DEF GateInv, GateTypeOK, OwedIsHeld
  <1>4. PauseHolds'
    <2>1. ASSUME NEW s \in Restorers, place'[s] = "copy"
          PROVE  s \notin owed'
      BY <1>1, <2>1 DEF GateInv, PauseHolds
    <2>2. ASSUME restore_paused'
          PROVE  \E s \in Restorers : InGate(s)'
      <3>1. PICK s \in Restorers : InGate(s)
        BY <2>2 DEF GateInv, PauseHolds
      <3> QED
        BY <1>1, <3>1 DEF InGate
    <2> QED
      BY <2>1, <2>2 DEF PauseHolds
  <1> QED
    BY <1>2, <1>3, <1>4 DEF GateInv

LEMMA RestorerKeeps ==
  ASSUME GateInv, NEW r \in Restorers, CountRestore(r) \/ Goes(r) \/ WakeSpuriously(r)
  PROVE  GateInv'
  <1>1. CASE CountRestore(r)
    BY <1>1, MoveKeeps DEF CountRestore, Places, Go, InGate, GateInv, OwedIsHeld
  <1>2. CASE TakeFailure(r)
    <2>1. PICK to \in {"idle", "cast"} : Go(r, "begin", to)
      BY <1>2 DEF TakeFailure
    <2>2. place[r] = "begin" /\ r \notin owed
      BY <2>1 DEF Go, GateInv, OwedIsHeld
    <2> QED
      BY <1>2, <2>1, <2>2, MoveKeeps DEF TakeFailure, Places, InGate
  <1>3. CASE CastFails(r)
    <2>1. place[r] = "cast" /\ r \notin owed
      BY <1>3 DEF CastFails, Go, GateInv, OwedIsHeld
    <2> QED
      BY <1>3, <2>1, MoveKeeps DEF CastFails, Places, InGate
  <1>4. CASE TakePause(r)
    <2> DEFINE to == IF pause_next_restore THEN "lock" ELSE "copy"
    <2>1. Go(r, "cast", to) /\ to \in Places /\ r \notin owed
      BY <1>4 DEF TakePause, Places, Go, GateInv, OwedIsHeld
    <2>2. /\ place[r] = "cast" /\ place' \in [Restorers -> Places] /\ place'[r] = to
          /\ \A s \in Restorers : s # r => place'[s] = place[s]
      BY <2>1, Went DEF GateInv
    <2>3. /\ pause_next_restore' = FALSE /\ released' = released
          /\ restore_paused' = restore_paused
          /\ owed' = IF pause_next_restore THEN owed \cup {r} ELSE owed
      BY <1>4 DEF TakePause
    <2>4. GateTypeOK'
      BY <2>2, <2>3 DEF GateInv, GateTypeOK
    <2>5. ClosedWhileAsked'
      BY <2>3 DEF GateInv, ClosedWhileAsked
    <2>6. OwedIsHeld'
      BY <2>1, <2>2, <2>3 DEF GateInv, GateTypeOK, OwedIsHeld
    <2>7. PauseHolds'
      <3>1. \A s \in Restorers : place'[s] = "copy" => s \notin owed'
        BY <2>1, <2>2, <2>3 DEF GateInv, PauseHolds
      <3>2. restore_paused' => \E s \in Restorers : InGate(s)'
        BY <2>2, <2>3 DEF GateInv, PauseHolds, InGate
      <3> QED
        BY <3>1, <3>2 DEF PauseHolds
    <2> QED
      BY <2>4, <2>5, <2>6, <2>7 DEF GateInv
  <1>5. CASE Announce(r)
    <2>1. /\ place[r] = "lock" /\ place' \in [Restorers -> Places] /\ place'[r] = "check"
          /\ \A s \in Restorers : s # r => place'[s] = place[s]
      BY <1>5, Went DEF Announce, Places, GateInv
    <2>2. /\ restore_paused' = TRUE /\ UNCHANGED <<released, pause_next_restore, owed>>
      BY <1>5 DEF Announce
    <2>3. GateTypeOK' /\ ClosedWhileAsked' /\ OwedIsHeld'
      BY <2>1, <2>2 DEF GateInv, GateTypeOK, ClosedWhileAsked, OwedIsHeld
    <2>4. PauseHolds'
      BY <2>1, <2>2 DEF GateInv, PauseHolds, InGate
    <2> QED
      BY <2>3, <2>4 DEF GateInv
  <1>6. CASE CheckReleased(r)
    <2>1. /\ UNCHANGED <<released, restore_paused, pause_next_restore, owed>>
          /\ Go(r, "check", IF released THEN "leave" ELSE "waiting")
      BY <1>6 DEF CheckReleased, MayLeave
    <2>2. CASE released
      <3>1. r \notin owed
        BY <2>2 DEF GateInv, ClosedWhileAsked
      <3> QED
        BY <2>1, <2>2, <3>1, MoveKeeps DEF Places
    <2>3. CASE ~released
      BY <2>1, <2>3, MoveKeeps DEF Places
    <2> QED
      BY <2>2, <2>3
  <1>7. CASE WakeUp(r)
    BY <1>7, MoveKeeps DEF WakeUp, Places
  <1>8. CASE WakeSpuriously(r)
    BY <1>8, MoveKeeps DEF WakeSpuriously, Places
  <1>9. CASE LeaveGate(r)
    <2>1. /\ place[r] = "leave" /\ place' \in [Restorers -> Places] /\ place'[r] = "copy"
          /\ \A s \in Restorers : s # r => place'[s] = place[s]
      BY <1>9, Went DEF LeaveGate, Places, GateInv
    <2>2. restore_paused' = FALSE /\ UNCHANGED <<released, pause_next_restore, owed>> /\ r \notin owed
      BY <1>9, <2>1 DEF LeaveGate, GateInv, OwedIsHeld
    <2>3. GateTypeOK' /\ ClosedWhileAsked' /\ OwedIsHeld'
      BY <2>1, <2>2 DEF GateInv, GateTypeOK, ClosedWhileAsked, OwedIsHeld
    <2>4. PauseHolds'
      BY <2>1, <2>2 DEF GateInv, PauseHolds
    <2> QED
      BY <2>3, <2>4 DEF GateInv
  <1>10. CASE CopyCheckpoint(r)
    <2>1. place[r] = "copy" /\ r \notin owed
      BY <1>10 DEF CopyCheckpoint, Go, GateInv, OwedIsHeld
    <2> QED
      BY <1>10, <2>1, MoveKeeps DEF CopyCheckpoint, Places, InGate
  <1> QED
    BY <1>1, <1>2, <1>3, <1>4, <1>5, <1>6, <1>7, <1>8, <1>9, <1>10 DEF Goes

LEMMA StepGateInv == GateInv /\ [GateNext]_gateVars => GateInv'
  <1> SUFFICES ASSUME GateInv, [GateNext]_gateVars PROVE GateInv'
    OBVIOUS
  <1> USE DEF GateInv, GateTypeOK, ClosedWhileAsked, OwedIsHeld, PauseHolds, InGate
  <1>1. ASSUME NEW r \in Restorers, CountRestore(r) \/ Goes(r) \/ WakeSpuriously(r)
        PROVE  GateInv'
    BY <1>1, RestorerKeeps
  <1>2. CASE nFailNextRestore
    BY <1>2 DEF nFailNextRestore
  <1>3. CASE nPauseNextRestore
    BY <1>3 DEF nPauseNextRestore
  <1>4. CASE nResumeRestore
    BY <1>4 DEF nResumeRestore
  <1>5. CASE Notify
    <2>1. /\ place' = [r \in Restorers |-> IF place[r] = "waiting" THEN "notified" ELSE place[r]]
          /\ UNCHANGED <<released, restore_paused, pause_next_restore, owed>>
      BY <1>5 DEF Notify, Woken
    <2>2. GateTypeOK' /\ ClosedWhileAsked' /\ OwedIsHeld'
      BY <2>1 DEF Places
    <2>3. PauseHolds'
      BY <2>1
    <2> QED
      BY <2>2, <2>3
  <1>6. CASE UNCHANGED gateVars
    BY <1>6 DEF gateVars
  <1> QED
    BY <1>1, <1>2, <1>3, <1>4, <1>5, <1>6 DEF GateNext

\* No restore that took a request to pause copies its checkpoint before Java
\* has resumed, and nRestorePaused never speaks of a restore that is not there.
THEOREM RestoresHeld == GateSpec => []PauseHolds
  <1>1. GateInv => PauseHolds
    BY DEF GateInv
  <1> QED
    BY <1>1, InitGateInv, StepGateInv, PTL DEF GateSpec
=============================================================================
