---------------------------- MODULE ThreadPolicy ----------------------------
(***************************************************************************)
(* nApplyThreadPolicy (modules/lib-jni/src/runtime/native_runtime.cc) and  *)
(* ApplyCurrentThreadPolicy (modules/core/src/thread_scheduling.cc): one   *)
(* thread asks, again and again, to run at a lower priority; the request   *)
(* is a few calls of the operating system, each of which may fail, and a   *)
(* report of what came of them.  A step is one call of the system.         *)
(*                                                                         *)
(* The system is external: a call that sets a value may be accepted and    *)
(* change nothing, and it is the system that picks the priority of a       *)
(* thread that enters background mode.                                     *)
(***************************************************************************)
EXTENDS Integers

CONSTANTS
  kMaxSteps,    \* ThreadPolicyReport::kMaxSteps
  Priorities    \* GetThreadPriority's values a thread is found with

ASSUME PolicyAssumption == kMaxSteps \in Nat /\ kMaxSteps >= 6 /\ Priorities \subseteq Int

VARIABLES
  system,     \* the platform; "windows7" has no Get/SetThreadInformation
  thread,     \* how the system schedules the calling thread
  pc,         \* the call the code makes next; "idle" between two requests
  policy,
  before,     \* the thread as the first query found it
  changed, set_ok, scheduler_ok, fallback,
  outcome, step_count

vars == <<system, thread, pc, policy, before, changed, set_ok, scheduler_ok,
          fallback, outcome, step_count>>

Systems == {"windows", "windows7", "posix", "macos"}
Windows == {"windows", "windows7"}

BELOW_NORMAL == -1
LOWEST == -2
UTILITY == 17
BACKGROUND == 9

\* memory 5 is the normal memory priority; saved is what BACKGROUND_END restores.
WindowsThread(cpu, memory, background) ==
  [cpu |-> cpu, memory |-> memory, background |-> background, saved |-> <<0, 5>>]

HostThreads ==
  [windows  |-> {WindowsThread(c, m, b) : c \in Priorities, m \in {2, 5}, b \in BOOLEAN},
   windows7 |-> {WindowsThread(c, 5, FALSE) : c \in Priorities},
   posix    |-> [nice : {-5, 0, 5, 10, 19}, scheduler : {"other", "batch", "idle", "fifo"}],
   macos    |-> [qos : {0, BACKGROUND, UTILITY, 21}, relative : {-1, 0}]]

Target ==
  CASE system \in Windows -> IF policy = "below_normal" THEN BELOW_NORMAL ELSE LOWEST
    [] system = "posix"   -> IF policy = "below_normal" THEN 5 ELSE 10
    [] system = "macos"   -> IF policy = "below_normal" THEN UTILITY ELSE BACKGROUND

Init ==
  /\ system \in Systems
  /\ thread \in HostThreads[system]
  /\ pc = "idle"
  /\ policy = "normal"
  /\ before = thread
  /\ changed = FALSE /\ set_ok = TRUE /\ scheduler_ok = TRUE /\ fallback = FALSE
  /\ outcome = "none" /\ step_count = 0

AddSteps(n) == step_count' = step_count + n

Report(answer) == outcome' = answer /\ pc' = "idle"

\* Normal and a value that is no policy never reach the system.
Apply(p) ==
  /\ pc = "idle"
  /\ policy' = p
  /\ before' = thread
  /\ changed' = FALSE /\ set_ok' = TRUE /\ scheduler_ok' = TRUE /\ fallback' = FALSE
  /\ step_count' = 0
  /\ CASE p = "normal"  -> Report("unchanged")
       [] p = "invalid" -> Report("failed")
       [] OTHER         -> pc' = "query_before" /\ outcome' = "none"
  /\ UNCHANGED <<system, thread>>

Low == policy = "low"

InheritsLower == system \in Windows /\ Low /\ before.cpu < LOWEST

AfterQuery ==
  IF InheritsLower THEN "inherited"
  ELSE IF Low /\ system = "windows" THEN "begin"
  ELSE "set"

QueriesBefore == IF system = "posix" THEN 2 ELSE 1
Unsupported == system = "windows7" /\ Low /\ ~InheritsLower

QueryBefore ==
  /\ pc = "query_before"
  /\ \/ /\ pc' = AfterQuery
        /\ fallback' = Unsupported
        /\ AddSteps(QueriesBefore + IF Unsupported THEN 1 ELSE 0)
        /\ UNCHANGED outcome
     \/ /\ Report("failed")
        /\ AddSteps(QueriesBefore)
        /\ UNCHANGED fallback
  /\ UNCHANGED <<system, thread, policy, before, changed, set_ok, scheduler_ok>>

\* Windows: background mode lowers memory priority with the rest, and this
\* code wants memory at normal.
AfterBeginOwns(ok) == "set_memory"                                  \* mutant
AfterBegin(ok) == IF ok THEN "set_memory" ELSE "set"

BeginBackground ==
  /\ pc = "begin"
  /\ \/ /\ ~thread.background
        /\ \E cpu \in Priorities :
             thread' = [cpu |-> cpu, memory |-> 1, background |-> TRUE,
                        saved |-> <<thread.cpu, thread.memory>>]
        /\ changed' = TRUE
        /\ pc' = AfterBegin(TRUE)
        /\ UNCHANGED fallback
     \/ /\ fallback' = TRUE
        /\ pc' = AfterBegin(FALSE)
        /\ UNCHANGED <<thread, changed>>
  /\ AddSteps(1)
  /\ UNCHANGED <<system, policy, before, set_ok, scheduler_ok, outcome>>

SetMemory ==
  /\ pc = "set_memory"
  /\ \/ /\ thread' \in {thread, [thread EXCEPT !.memory = 5]}
        /\ pc' = "query_background"
     \/ /\ pc' = "end"
        /\ UNCHANGED thread
  /\ AddSteps(1)
  /\ UNCHANGED <<system, policy, before, changed, set_ok, scheduler_ok, fallback, outcome>>

EndBackground ==
  /\ pc = "end"
  /\ \/ /\ thread' = [cpu |-> thread.saved[1], memory |-> thread.saved[2],
                      background |-> FALSE, saved |-> <<0, 5>>]
        /\ changed' = FALSE /\ fallback' = TRUE
        /\ pc' = "set"
     \/ /\ pc' = "query_abandoned"
        /\ UNCHANGED <<thread, changed, fallback>>
  /\ AddSteps(1)
  /\ UNCHANGED <<system, policy, before, set_ok, scheduler_ok, outcome>>

\* The thread is not yet where the policy wants it, and it is this code's to move.
ToBeSet ==
  CASE system \in Windows -> before.cpu > Target
    [] system = "posix"   -> before.nice < Target
    [] system = "macos"   -> before.qos = 0 \/ before.qos > Target

SetTo ==
  CASE system \in Windows -> [thread EXCEPT !.cpu = Target]
    [] system = "posix"   -> [thread EXCEPT !.nice = Target]
    [] system = "macos"   -> [qos |-> Target, relative |-> 0]

AfterSet == IF system = "posix" /\ Low THEN "set_scheduler" ELSE "query_after"

SetPriority ==
  /\ pc = "set"
  /\ IF ToBeSet
     THEN \/ /\ thread' \in {thread, SetTo}
             /\ changed' = TRUE /\ set_ok' = TRUE
          \/ /\ changed' = FALSE /\ set_ok' = FALSE
             /\ UNCHANGED thread
     ELSE UNCHANGED <<thread, changed, set_ok>>
  /\ AddSteps(1)
  /\ pc' = AfterSet
  /\ UNCHANGED <<system, policy, before, scheduler_ok, fallback, outcome>>

Demoted == {"batch", "idle"}
MayMoveAlways == TRUE                                                \* mutant
MayMove == before.scheduler = "other"

SetScheduler ==
  /\ pc = "set_scheduler"
  /\ IF MayMove
     THEN \/ /\ thread' \in {thread, [thread EXCEPT !.scheduler = "batch"]}
             /\ changed' = TRUE
             /\ UNCHANGED scheduler_ok
          \/ /\ scheduler_ok' = FALSE
             /\ UNCHANGED <<thread, changed>>
     ELSE /\ scheduler_ok' = (before.scheduler \in Demoted)
          /\ UNCHANGED <<thread, changed>>
  /\ AddSteps(1)
  /\ pc' = "query_after"
  /\ UNCHANGED <<system, policy, before, set_ok, fallback, outcome>>

\* What the queries after it make of the thread, each of which may fail:
\* cpu and memory tell whether its query succeeded.
ReadsMemory ==
  pc \in {"query_background", "query_abandoned"} \/ (pc = "inherited" /\ system = "windows")

LowEnough ==
  CASE system \in Windows -> thread.cpu <= Target
    [] system = "posix"   -> thread.nice >= Target
    [] system = "macos"   -> thread.qos # 0 /\ thread.qos <= Target

FellShort ==
  CASE system \in Windows -> fallback
    [] system = "posix"   -> Low /\ ~(scheduler_ok /\ thread.scheduler \in Demoted)
    [] system = "macos"   -> thread.qos # Target \/ thread.relative # 0

Unlucky == IF changed THEN "partial" ELSE "failed"

VerdictUnread(ok) ==                                                 \* mutant
  IF set_ok THEN (IF FellShort THEN "degraded" ELSE "applied") ELSE Unlucky
Verdict(ok) ==
  IF set_ok /\ ok /\ LowEnough
  THEN IF FellShort THEN "degraded" ELSE "applied"
  ELSE Unlucky

BackgroundVerdict(ok) ==
  IF ok /\ thread.cpu <= before.cpu /\ thread.memory = 5 THEN "applied" ELSE "partial"

QueryAfter ==
  /\ \E cpu, other \in BOOLEAN :
       \/ pc = "query_after"      /\ Report(Verdict(cpu /\ (other \/ system # "posix")))
       \/ pc = "query_background" /\ Report(BackgroundVerdict(cpu /\ other))
       \/ pc = "query_abandoned"  /\ Report("partial")
       \/ pc = "inherited"
          /\ Report(IF cpu /\ thread.cpu <= before.cpu THEN "degraded" ELSE "failed")
  /\ AddSteps(IF pc = "inherited" THEN IF ReadsMemory THEN 4 ELSE 3
              ELSE IF ReadsMemory \/ system = "posix" THEN 2 ELSE 1)
  /\ UNCHANGED <<system, thread, policy, before, changed, set_ok, scheduler_ok, fallback>>

Next ==
  \/ \E p \in {"invalid", "normal", "below_normal", "low"} : Apply(p)
  \/ QueryBefore
  \/ BeginBackground
  \/ SetMemory
  \/ EndBackground
  \/ SetPriority
  \/ SetScheduler
  \/ QueryAfter

Spec == Init /\ [][Next]_vars

-----------------------------------------------------------------------------
(* Properties.                                                             *)

\* The outcome tells what became of the thread, whichever call failed or was
\* accepted without effect: "applied" and "degraded" promise the priority,
\* "applied" the memory priority and the scheduler as well, "failed" that
\* nothing is left of this request, and the report always has room.
OutcomeIsTrue ==
  pc = "idle" /\ outcome # "none" =>
    /\ outcome \in {"unchanged", "failed"} => thread = before
    /\ outcome \in {"applied", "degraded"} =>
         LowEnough \/ (Low /\ system = "windows" /\ thread.cpu <= before.cpu /\ thread.background)
    /\ outcome = "applied" /\ Low =>
         /\ system \in Windows => thread.memory = 5
         /\ system = "posix"   => thread.scheduler \in Demoted
    /\ outcome = "applied" /\ system = "macos" => thread.qos = Target /\ thread.relative = 0
    /\ step_count <= kMaxSteps

\* What the host had given the thread before the request stays: its background
\* mode is not ended, a lower priority is not raised, a scheduling class that
\* is not the ordinary one is not replaced.
HostPolicyKept ==
  pc = "idle" /\ outcome # "none" =>
    /\ system \in Windows =>
         /\ before.background => thread.background
         /\ before.cpu <= LOWEST /\ outcome # "partial" => thread.cpu <= before.cpu
         /\ before.cpu < LOWEST => thread = before
    /\ system = "posix" =>
         /\ thread.nice >= before.nice
         /\ before.scheduler # "other" => thread.scheduler = before.scheduler
    /\ system = "macos" /\ before.qos # 0 => thread.qos <= before.qos
=============================================================================
