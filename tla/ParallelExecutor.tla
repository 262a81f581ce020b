-------------------------- MODULE ParallelExecutor --------------------------
(***************************************************************************)
(* The thread pool of modules/gfx/src/renderer/parallel_executor.h: one    *)
(* caller thread and GetThreadCount() - 1 workers, synchronised by atomics *)
(* and address waits only.  spin selects between the desktop build, where  *)
(* workers sleep on next_seq_ between active scopes and poll task_seq_     *)
(* inside one, and the YSM_EXECUTOR_NO_SPIN build, where they sleep on     *)
(* task_seq_ itself and the caller sleeps on running_workers_.             *)
(*                                                                         *)
(* A step is one access to a shared variable.  The atomics are release /   *)
(* acquire, so interleaving is sound as long as the one plain shared       *)
(* variable, currentTask, is never accessed by two threads at once: that   *)
(* is TaskPointerRaceFree below.                                           *)
(***************************************************************************)
EXTENDS Naturals, FiniteSets

CONSTANTS
  Requested,    \* the size the constructor is asked for
  MaxCalls      \* bound on the number of Execute calls

kMinimumThreadCount == 2
kMaximumThreadCount == 8

DetermineThreadCount(size) ==
  IF size < kMinimumThreadCount THEN kMinimumThreadCount
  ELSE IF size > kMaximumThreadCount THEN kMaximumThreadCount
  ELSE size

ThreadCount == DetermineThreadCount(Requested)
Workers     == 1 .. ThreadCount - 1

ASSUME RequestedAssumption == Requested \in Nat
ASSUME MaxCallsAssumption  == MaxCalls \in Nat

VARIABLES
  spin,             \* the build: desktop, or FALSE for YSM_EXECUTOR_NO_SPIN
  workers_available,
  currentTask,      \* 0 is nullptr, n the Task object of the n-th call
  task_seq,
  next_seq,         \* exists in the spin build only
  running_workers,
  caller,           \* where the thread that owns the executor is
  v,                \* the local v of Execute's join loop
  pc,               \* where each worker is
  localSeq,         \* the workers' locals localSeq, id and task
  id,
  task,
  calls,            \* history: Execute calls started so far
  execs             \* history: task functions run so far, by index

shared  == <<workers_available, currentTask, task_seq, next_seq, running_workers>>
locals  == <<localSeq, id, task, spin>>
history == <<calls, execs>>
vars    == <<shared, caller, v, pc, locals, history>>

Indices == 0 .. ThreadCount - 1

Init ==
  /\ spin \in BOOLEAN
  /\ workers_available = TRUE
  /\ currentTask = 0
  /\ task_seq = 0
  /\ next_seq = 0
  /\ running_workers = 0
  /\ caller = "construct"
  /\ v = 0
  /\ pc = [w \in Workers |-> "unborn"]
  /\ localSeq = [w \in Workers |-> 0]
  /\ id = [w \in Workers |-> 0]
  /\ task = [w \in Workers |-> 0]
  /\ calls = 0
  /\ execs = [i \in Indices |-> 0]

-----------------------------------------------------------------------------
(* Address waits.  A thread that finds the value unchanged is parked; it   *)
(* looks at the value again when somebody notifies the address.            *)

WaitedSeq == IF spin THEN next_seq ELSE task_seq

NotifyAllLost == UNCHANGED pc                                    \* mutant
NotifyAll == pc' = [w \in Workers |-> IF pc[w] = "parked" THEN "wait" ELSE pc[w]]

Goto(w, to) == pc' = [pc EXCEPT ![w] = to]

\* The value of next_seq_ (NO_SPIN: of task_seq_) that makes workers look.
WakeSeqForgotten == task_seq                                     \* mutant
WakeSeq == task_seq + 1

\* The value of next_seq_ that lets workers sleep again.
SleepSeqForgotten == next_seq                                    \* mutant
SleepSeq == task_seq

\* How many shares Execute hands out, and when its join loop ends.
ForkedTooFew == ThreadCount - 2                                  \* mutant
Forked == ThreadCount - 1

JoinedEarly == running_workers <= 1                              \* mutant
Joined == running_workers = 0

\* A worker sees a task it has not run.
SeesTaskAgain(w) == task_seq > 0                                 \* mutant
SeesTask(w) == task_seq > localSeq[w]

-----------------------------------------------------------------------------
(* The caller: constructor, scopes, Execute, destructor.                   *)

\* The constructor starts the workers one by one; each runs at once.
Spawn(w) ==
  /\ caller = "construct"
  /\ pc[w] = "unborn"
  /\ \A u \in 1 .. w - 1 : pc[u] # "unborn"
  /\ Goto(w, "init")
  /\ caller' = IF w = ThreadCount - 1 THEN "idle" ELSE "construct"
  /\ UNCHANGED <<shared, v, locals, history>>

BeginActiveScope ==
  /\ spin
  /\ caller = "idle"
  /\ next_seq' = WakeSeq
  /\ caller' = "begin"
  /\ UNCHANGED <<workers_available, currentTask, task_seq, running_workers>>
  /\ UNCHANGED <<v, pc, locals, history>>

BeginNotify ==
  /\ caller = "begin"
  /\ NotifyAll
  /\ caller' = "scoped"
  /\ UNCHANGED <<shared, v, locals, history>>

\* A scope ends after its Execute, or without one when Render fails first.
EndActiveScope ==
  /\ caller \in {"scoped", "executed"}
  /\ next_seq' = SleepSeq
  /\ caller' = "idle"
  /\ UNCHANGED <<workers_available, currentTask, task_seq, running_workers>>
  /\ UNCHANGED <<v, pc, locals, history>>

\* Render calls Execute at most once in a scope, and in the spin build only
\* inside one.
Execute ==
  /\ caller = (IF spin THEN "scoped" ELSE "idle")
  /\ calls < MaxCalls
  /\ caller' = "set"
  /\ calls' = calls + 1
  /\ UNCHANGED <<shared, v, pc, locals, execs>>

SetTask ==
  /\ caller = "set"
  /\ currentTask' = calls
  /\ caller' = "add"
  /\ UNCHANGED <<workers_available, task_seq, next_seq, running_workers>>
  /\ UNCHANGED <<v, pc, locals, history>>

AddRunning ==
  /\ caller = "add"
  /\ running_workers' = running_workers + Forked
  /\ caller' = "publish"
  /\ UNCHANGED <<workers_available, currentTask, task_seq, next_seq>>
  /\ UNCHANGED <<v, pc, locals, history>>

Publish ==
  /\ caller = "publish"
  /\ task_seq' = task_seq + 1
  /\ caller' = IF spin THEN "own" ELSE "notify"
  /\ UNCHANGED <<workers_available, currentTask, next_seq, running_workers>>
  /\ UNCHANGED <<v, pc, locals, history>>

PublishNotify ==
  /\ caller = "notify"
  /\ NotifyAll
  /\ caller' = "own"
  /\ UNCHANGED <<shared, v, locals, history>>

\* taskFunc(0, threadCount), then the first v of the join loop.
OwnShare ==
  /\ caller = "own"
  /\ execs' = [execs EXCEPT ![0] = @ + 1]
  /\ v' = ThreadCount
  /\ caller' = IF spin THEN "join" ELSE "waitfor"
  /\ UNCHANGED <<shared, pc, locals, calls>>

\* NO_SPIN: WaitFor(running_workers_, v).
WaitForRunning ==
  /\ caller = "waitfor"
  /\ caller' = IF running_workers = v THEN "parked" ELSE "join"
  /\ UNCHANGED <<shared, v, pc, locals, history>>

\* The join loop's load of running_workers_.
JoinLoad ==
  /\ caller = "join"
  /\ v' = running_workers
  /\ caller' = IF Joined THEN "clear"
               ELSE IF spin THEN "join" ELSE "waitfor"
  /\ UNCHANGED <<shared, pc, locals, history>>

ClearTask ==
  /\ caller = "clear"
  /\ currentTask' = 0
  /\ caller' = IF spin THEN "executed" ELSE "idle"
  /\ UNCHANGED <<workers_available, task_seq, next_seq, running_workers>>
  /\ UNCHANGED <<v, pc, locals, history>>

Destroy ==
  /\ caller = "idle"
  /\ workers_available' = FALSE
  /\ caller' = "d_wake"
  /\ UNCHANGED <<currentTask, task_seq, next_seq, running_workers>>
  /\ UNCHANGED <<v, pc, locals, history>>

DestroyWake ==
  /\ caller = "d_wake"
  /\ IF spin
     THEN next_seq' = WakeSeq /\ UNCHANGED task_seq
     ELSE task_seq' = WakeSeq /\ UNCHANGED next_seq
  /\ caller' = "d_notify"
  /\ UNCHANGED <<workers_available, currentTask, running_workers>>
  /\ UNCHANGED <<v, pc, locals, history>>

DestroyNotify ==
  /\ caller = "d_notify"
  /\ NotifyAll
  /\ caller' = "d_join"
  /\ UNCHANGED <<shared, v, locals, history>>

\* thread.join() on every worker; in the spin build the scope object then
\* goes out of scope.
DestroyJoin ==
  /\ caller = "d_join"
  /\ \A w \in Workers : pc[w] = "exited"
  /\ next_seq' = IF spin THEN SleepSeq ELSE next_seq
  /\ caller' = "stopped"
  /\ UNCHANGED <<workers_available, currentTask, task_seq, running_workers>>
  /\ UNCHANGED <<v, pc, locals, history>>

-----------------------------------------------------------------------------
(* A worker.                                                               *)

WorkerInit(w) ==
  /\ pc[w] = "init"
  /\ Goto(w, "check")
  /\ UNCHANGED <<shared, caller, v, locals, history>>

CheckAvailable(w) ==
  /\ pc[w] = "check"
  /\ Goto(w, IF workers_available THEN "wait" ELSE "exited")
  /\ UNCHANGED <<shared, caller, v, locals, history>>

WaitForSeq(w) ==
  /\ pc[w] = "wait"
  /\ Goto(w, IF WaitedSeq = localSeq[w] THEN "parked" ELSE "load")
  /\ UNCHANGED <<shared, caller, v, locals, history>>

LoadSeq(w) ==
  /\ pc[w] = "load"
  /\ id' = [id EXCEPT ![w] = task_seq]
  /\ Goto(w, IF SeesTask(w) THEN "read" ELSE "check")
  /\ UNCHANGED <<shared, caller, v, localSeq, task, spin, history>>

ReadTask(w) ==
  /\ pc[w] = "read"
  /\ task' = [task EXCEPT ![w] = currentTask]
  /\ IF currentTask # 0
     THEN localSeq' = [localSeq EXCEPT ![w] = id[w]] /\ Goto(w, "run")
     ELSE UNCHANGED localSeq /\ Goto(w, "check")
  /\ UNCHANGED <<shared, caller, v, id, spin, history>>

RunShare(w) ==
  /\ pc[w] = "run"
  /\ execs' = [execs EXCEPT ![w] = @ + 1]
  /\ Goto(w, "finish")
  /\ UNCHANGED <<shared, caller, v, locals, calls>>

FinishShare(w) ==
  /\ pc[w] = "finish"
  /\ running_workers' = running_workers - 1
  /\ Goto(w, IF ~spin /\ running_workers = 1 THEN "notify" ELSE "check")
  /\ UNCHANGED <<workers_available, currentTask, task_seq, next_seq>>
  /\ UNCHANGED <<caller, v, locals, history>>

\* NO_SPIN: NotifyOne(running_workers_); only the caller waits there.
NotifyCallerLost(w) ==                                           \* mutant
  pc[w] = "notify" /\ Goto(w, "check") /\ UNCHANGED <<shared, caller, v, locals, history>>
NotifyCaller(w) ==
  /\ pc[w] = "notify"
  /\ Goto(w, "check")
  /\ caller' = IF caller = "parked" THEN "waitfor" ELSE caller
  /\ UNCHANGED <<shared, v, locals, history>>

-----------------------------------------------------------------------------

\* The executor is gone: nothing is left to do.
Terminated == caller = "stopped" /\ UNCHANGED vars

\* What the caller does once it is inside one of the operations.
CallerStep ==
  \/ \E w \in Workers : Spawn(w)
  \/ BeginNotify
  \/ SetTask \/ AddRunning \/ Publish \/ PublishNotify
  \/ OwnShare \/ WaitForRunning \/ JoinLoad \/ ClearTask
  \/ DestroyWake \/ DestroyNotify \/ DestroyJoin

\* What the caller may do next when it is between operations.
CallerChoice == BeginActiveScope \/ EndActiveScope \/ Execute \/ Destroy

WorkerStep(w) ==
  \/ WorkerInit(w) \/ CheckAvailable(w) \/ WaitForSeq(w) \/ LoadSeq(w)
  \/ ReadTask(w) \/ RunShare(w) \/ FinishShare(w) \/ NotifyCaller(w)

Next ==
  \/ CallerStep
  \/ CallerChoice
  \/ \E w \in Workers : WorkerStep(w)
  \/ Terminated

Spec == Init /\ [][Next]_vars

\* The operating system runs every runnable thread: a caller inside an
\* operation and every worker keep taking steps.  Nothing forces the caller
\* to start another operation.
Fairness ==
  /\ WF_vars(CallerStep)
  /\ \A w \in Workers : WF_vars(WorkerStep(w))

FairSpec == Spec /\ Fairness

-----------------------------------------------------------------------------
(* Properties.                                                             *)

CallerPlaces ==
  {"construct", "idle", "begin", "scoped", "executed", "set", "add", "publish",
   "notify", "own", "waitfor", "parked", "join", "clear",
   "d_wake", "d_notify", "d_join", "stopped"}
WorkerPlaces ==
  {"unborn", "init", "check", "wait", "parked", "load", "read", "run",
   "finish", "notify", "exited"}

\* Inside Execute, after the Task object is made and before Execute returns.
Executing == {"set", "add", "publish", "notify", "own", "waitfor", "parked", "join", "clear"}

\* Types; running_workers_ is unsigned, so it must never be taken below zero.
TypeOK ==
  /\ spin \in BOOLEAN
  /\ workers_available \in BOOLEAN
  /\ currentTask \in Nat /\ task_seq \in Nat /\ next_seq \in Nat
  /\ running_workers \in Nat /\ v \in Nat /\ calls \in Nat
  /\ caller \in CallerPlaces
  /\ pc \in [Workers -> WorkerPlaces]
  /\ localSeq \in [Workers -> Nat]
  /\ id \in [Workers -> Nat]
  /\ task \in [Workers -> Nat]
  /\ execs \in [Indices -> Nat]

\* currentTask is a plain pointer: when the caller is about to write it, at
\* the start or at the end of Execute, no worker is about to read it.
TaskPointerRaceFree ==
  caller \in {"set", "clear"} => \A w \in Workers : pc[w] # "read"

\* The Task object lives on the stack of Execute: a worker about to call
\* through its copy of the pointer holds the object of the call that is in
\* progress, never a null or a dangling one.
TaskObjectAlive ==
  \A w \in Workers : pc[w] = "run" => caller \in Executing /\ task[w] = calls

\* No thread sleeps on a value that has already moved on unless the
\* notification that wakes it is still to come: the workers of
\* BeginActiveScope / NotifyAll, the caller of WaitFor / NotifyOne.
NoLostWakeup ==
  /\ \A w \in Workers :
       pc[w] = "parked" /\ WaitedSeq # localSeq[w]
         => caller \in {"begin", "notify", "d_notify"}
  /\ caller = "parked" /\ running_workers = 0
       => \E w \in Workers : pc[w] = "notify"

\* Execute is a fork and a join: each index runs its share of every call
\* exactly once, between the start of that call and its return, and the
\* threads are gone when the destructor is.
FJ == INSTANCE ForkJoin WITH
        Index <- Indices,
        phase <- IF caller = "stopped" THEN "stopped"
                 ELSE IF caller \in Executing THEN "running" ELSE "idle",
        done  <- {i \in Indices : execs[i] = calls}
IsForkJoin == FJ!Spec

\* A call of Execute returns.
ExecuteReturns == caller = "set" ~> caller \in {"executed", "idle"}

\* The destructor wakes and joins every worker, wherever it is, the workers
\* that have not entered their loop yet included.
DestroyReturns == caller = "d_wake" ~> caller = "stopped"

\* An executor nobody uses burns no CPU: the workers go to sleep.
IdleWorkersSleep ==
  (<>[](caller = "idle")) => <>[](\A w \in Workers : pc[w] = "parked")
=============================================================================
