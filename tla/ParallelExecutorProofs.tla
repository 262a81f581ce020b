------------------------ MODULE ParallelExecutorProofs ------------------------
(***************************************************************************)
(* What TLAPS proves of the thread pool for every pool size, both builds   *)
(* and any number of Execute calls.  IInv is the inductive invariant.      *)
(***************************************************************************)
EXTENDS ParallelExecutor, FiniteSetTheorems, TLAPS

\* After the task is published and before the join loop has seen zero.
Forking == {"notify", "own", "waitfor", "parked", "join"}

\* How many calls have published their task.
Published == IF caller \in {"set", "add", "publish"} THEN calls - 1 ELSE calls

\* The workers whose share of the published call is not counted down yet.
Pending == {w \in Workers : localSeq[w] # Published \/ pc[w] \in {"run", "finish"}}

\* The two sequence numbers, by where the caller is.
SeqInv ==
  /\ caller \in Executing => calls > 0
  /\ task_seq = IF ~spin /\ caller \in {"d_notify", "d_join", "stopped"}
                THEN Published + 1 ELSE Published
  /\ spin => next_seq = IF caller \in {"begin", "scoped", "set", "add", "publish",
                                       "d_notify", "d_join"}
                        THEN Published + 1 ELSE Published
  /\ caller \in {"begin", "scoped", "executed"} => spin
  /\ caller \in {"notify", "waitfor", "parked"} => ~spin

PointerInv ==
  currentTask = IF caller \in Executing \ {"set"} THEN calls ELSE 0

\* A worker is at most one call behind, and only while a call is joined.
WorkerOK(w) ==
  /\ localSeq[w] # Published => localSeq[w] = Published - 1 /\ caller \in Forking
  /\ pc[w] \in {"run", "finish"} => localSeq[w] = Published /\ caller \in Forking
  /\ pc[w] = "run" => task[w] = calls
  /\ pc[w] = "read" =>
       /\ id[w] = task_seq
       /\ localSeq[w] # Published \/ (~spin /\ caller \in {"d_notify", "d_join"})
  /\ caller = "stopped" => pc[w] = "exited"
  /\ execs[w] = IF pc[w] = "run" THEN localSeq[w] - 1 ELSE localSeq[w]

WorkerInv == \A w \in Workers : WorkerOK(w)

CallerInv ==
  /\ execs[0] = IF caller \in {"set", "add", "publish", "notify", "own"}
                THEN calls - 1 ELSE calls
  /\ caller \in {"waitfor", "parked"} => v # 0

\* running_workers_ counts the shares still out.
CountInv ==
  running_workers = IF caller = "publish" THEN ThreadCount - 1 ELSE Cardinality(Pending)

IInv ==
  /\ TypeOK
  /\ SeqInv
  /\ PointerInv
  /\ WorkerInv
  /\ CallerInv
  /\ CountInv
  /\ NoLostWakeup

-----------------------------------------------------------------------------
(* The pool: between one and seven workers.                                *)

LEMMA ThreadCountRange == ThreadCount \in 2 .. 8
  BY RequestedAssumption
  DEF ThreadCount, DetermineThreadCount, kMinimumThreadCount, kMaximumThreadCount

LEMMA IndexSets == Workers \subseteq Indices /\ 0 \in Indices /\ 0 \notin Workers
  BY ThreadCountRange DEF Workers, Indices

LEMMA WorkersFinite == IsFiniteSet(Workers) /\ Cardinality(Workers) = ThreadCount - 1
  BY ThreadCountRange, FS_Interval DEF Workers

\* Pending is a finite set in every state, so that counting it makes sense.
LEMMA PendingFinite ==
  /\ Pending \in SUBSET Workers
  /\ IsFiniteSet(Pending)
  /\ Cardinality(Pending) \in Nat
  /\ Cardinality(Pending) = 0 <=> Pending = {}
  BY WorkersFinite, FS_Subset, FS_CardinalityType, FS_EmptySet DEF Pending

\* A step that moves neither the count nor the set it counts keeps CountInv.
LEMMA CountKept ==
  ASSUME CountInv, running_workers' = running_workers, Pending' = Pending,
         (caller = "publish") = (caller' = "publish")
  PROVE  CountInv'
  BY DEF CountInv

LEMMA InitIInv == Init => IInv
  <1> SUFFICES ASSUME Init PROVE IInv
    OBVIOUS
  <1>1. TypeOK
    BY ThreadCountRange DEF Init, TypeOK, CallerPlaces, WorkerPlaces
  <1>2. SeqInv /\ PointerInv /\ CallerInv /\ NoLostWakeup
    BY ThreadCountRange DEF Init, SeqInv, PointerInv, CallerInv, NoLostWakeup, Published,
       Executing, Indices
  <1>3. WorkerInv
    BY ThreadCountRange DEF Init, WorkerInv, WorkerOK, Published, Indices, Workers
  <1>4. CountInv
    <2>1. Pending = {}
      BY DEF Init, Pending, Published
    <2> QED
      BY <2>1, PendingFinite DEF Init, CountInv
  <1> QED
    BY <1>1, <1>2, <1>3, <1>4 DEF IInv

(* One step per action of the caller, and of a worker.                      *)

LEMMA SpawnPreserves ==
  ASSUME IInv, NEW w \in Workers, Spawn(w)
  PROVE  IInv'
  <1>1. TypeOK'
    BY ThreadCountRange DEF IInv, TypeOK, CallerPlaces, WorkerPlaces, Workers, Indices, Spawn, Goto, shared, locals, history
  <1>2. SeqInv' /\ PointerInv' /\ CallerInv'
    BY ThreadCountRange DEF IInv, TypeOK, SeqInv, PointerInv, WorkerInv, WorkerOK, CallerInv, NoLostWakeup, WaitedSeq, CallerPlaces, WorkerPlaces, Executing, Forking, Published, Workers, Indices, Spawn, Goto, shared, locals, history
  <1>3. WorkerInv'
    BY ThreadCountRange DEF IInv, TypeOK, SeqInv, PointerInv, WorkerInv, WorkerOK, CallerInv, NoLostWakeup, WaitedSeq, CallerPlaces, WorkerPlaces, Executing, Forking, Published, Workers, Indices, Spawn, Goto, shared, locals, history
  <1>4. NoLostWakeup'
    BY ThreadCountRange DEF IInv, TypeOK, SeqInv, PointerInv, WorkerInv, WorkerOK, CallerInv, NoLostWakeup, WaitedSeq, CallerPlaces, WorkerPlaces, Executing, Forking, Published, Workers, Indices, Spawn, Goto, shared, locals, history
  <1>5. Pending' = Pending
    BY ThreadCountRange DEF IInv, TypeOK, SeqInv, PointerInv, WorkerInv, WorkerOK, CallerInv, NoLostWakeup, WaitedSeq, CallerPlaces, WorkerPlaces, Executing, Forking, Published, Workers, Indices, Pending, Spawn, Goto, shared, locals, history
  <1>6. CountInv'
    BY <1>5, CountKept DEF IInv, Spawn, Goto, shared
  <1> QED
    BY <1>1, <1>2, <1>3, <1>4, <1>6 DEF IInv

LEMMA CallerPreserves ==
  ASSUME IInv, CallerStep \/ CallerChoice
  PROVE  IInv'
  <1>1. CASE BeginNotify
    <2>1. TypeOK'
      BY <1>1, ThreadCountRange DEF IInv, TypeOK, CallerPlaces, WorkerPlaces, Workers, Indices, BeginNotify, NotifyAll, shared, locals, history
    <2>2. SeqInv' /\ PointerInv' /\ CallerInv'
      BY <1>1, ThreadCountRange DEF IInv, TypeOK, SeqInv, PointerInv, WorkerInv, WorkerOK, CallerInv, NoLostWakeup, WaitedSeq, CallerPlaces, WorkerPlaces, Executing, Forking, Published, Workers, Indices, BeginNotify, NotifyAll, shared, locals, history
    <2>3. WorkerInv'
      BY <1>1, ThreadCountRange DEF IInv, TypeOK, SeqInv, PointerInv, WorkerInv, WorkerOK, CallerInv, NoLostWakeup, WaitedSeq, CallerPlaces, WorkerPlaces, Executing, Forking, Published, Workers, Indices, BeginNotify, NotifyAll, shared, locals, history
    <2>4. NoLostWakeup'
      BY <1>1, ThreadCountRange DEF IInv, TypeOK, SeqInv, PointerInv, WorkerInv, WorkerOK, CallerInv, NoLostWakeup, WaitedSeq, CallerPlaces, WorkerPlaces, Executing, Forking, Published, Workers, Indices, BeginNotify, NotifyAll, shared, locals, history
    <2>5. Pending' = Pending
      BY <1>1, ThreadCountRange DEF IInv, TypeOK, SeqInv, PointerInv, WorkerInv, WorkerOK, CallerInv, NoLostWakeup, WaitedSeq, CallerPlaces, WorkerPlaces, Executing, Forking, Published, Workers, Indices, Pending, BeginNotify, NotifyAll, shared, locals, history
    <2>6. CountInv'
      BY <1>1, <2>5, CountKept DEF IInv, BeginNotify, NotifyAll, shared
    <2> QED
      BY <2>1, <2>2, <2>3, <2>4, <2>6 DEF IInv
  <1>2. CASE SetTask
    <2>1. TypeOK'
      BY <1>2, ThreadCountRange DEF IInv, TypeOK, CallerPlaces, WorkerPlaces, Workers, Indices, SetTask, shared, locals, history
    <2>2. SeqInv' /\ PointerInv' /\ CallerInv'
      BY <1>2, ThreadCountRange DEF IInv, TypeOK, SeqInv, PointerInv, WorkerInv, WorkerOK, CallerInv, NoLostWakeup, WaitedSeq, CallerPlaces, WorkerPlaces, Executing, Forking, Published, Workers, Indices, SetTask, shared, locals, history
    <2>3. WorkerInv'
      BY <1>2, ThreadCountRange DEF IInv, TypeOK, SeqInv, PointerInv, WorkerInv, WorkerOK, CallerInv, NoLostWakeup, WaitedSeq, CallerPlaces, WorkerPlaces, Executing, Forking, Published, Workers, Indices, SetTask, shared, locals, history
    <2>4. NoLostWakeup'
      BY <1>2, ThreadCountRange DEF IInv, TypeOK, SeqInv, PointerInv, WorkerInv, WorkerOK, CallerInv, NoLostWakeup, WaitedSeq, CallerPlaces, WorkerPlaces, Executing, Forking, Published, Workers, Indices, SetTask, shared, locals, history
    <2>5. Pending' = Pending
      BY <1>2, ThreadCountRange DEF IInv, TypeOK, SeqInv, PointerInv, WorkerInv, WorkerOK, CallerInv, NoLostWakeup, WaitedSeq, CallerPlaces, WorkerPlaces, Executing, Forking, Published, Workers, Indices, Pending, SetTask, shared, locals, history
    <2>6. CountInv'
      BY <1>2, <2>5, CountKept DEF IInv, SetTask, shared
    <2> QED
      BY <2>1, <2>2, <2>3, <2>4, <2>6 DEF IInv
  <1>3. CASE AddRunning
    <2>1. TypeOK'
      BY <1>3, ThreadCountRange DEF IInv, TypeOK, CallerPlaces, WorkerPlaces, Workers, Indices, AddRunning, Forked, shared, locals, history
    <2>2. SeqInv' /\ PointerInv' /\ CallerInv'
      BY <1>3, ThreadCountRange DEF IInv, TypeOK, SeqInv, PointerInv, WorkerInv, WorkerOK, CallerInv, NoLostWakeup, WaitedSeq, CallerPlaces, WorkerPlaces, Executing, Forking, Published, Workers, Indices, AddRunning, Forked, shared, locals, history
    <2>3. WorkerInv'
      BY <1>3, ThreadCountRange DEF IInv, TypeOK, SeqInv, PointerInv, WorkerInv, WorkerOK, CallerInv, NoLostWakeup, WaitedSeq, CallerPlaces, WorkerPlaces, Executing, Forking, Published, Workers, Indices, AddRunning, Forked, shared, locals, history
    <2>4. NoLostWakeup'
      BY <1>3, ThreadCountRange DEF IInv, TypeOK, SeqInv, PointerInv, WorkerInv, WorkerOK, CallerInv, NoLostWakeup, WaitedSeq, CallerPlaces, WorkerPlaces, Executing, Forking, Published, Workers, Indices, AddRunning, Forked, shared, locals, history
    <2>5. Pending = {}
      BY <1>3 DEF IInv, WorkerInv, WorkerOK, Forking, Pending, AddRunning
    <2>6. CountInv'
      BY <1>3, <2>5, PendingFinite, ThreadCountRange DEF IInv, CountInv, AddRunning, Forked
    <2> QED
      BY <2>1, <2>2, <2>3, <2>4, <2>6 DEF IInv
  <1>4. CASE Publish
    <2>1. TypeOK'
      BY <1>4, ThreadCountRange DEF IInv, TypeOK, CallerPlaces, WorkerPlaces, Workers, Indices, Publish, shared, locals, history
    <2>2. SeqInv' /\ PointerInv' /\ CallerInv'
      BY <1>4, ThreadCountRange DEF IInv, TypeOK, SeqInv, PointerInv, WorkerInv, WorkerOK, CallerInv, NoLostWakeup, WaitedSeq, CallerPlaces, WorkerPlaces, Executing, Forking, Published, Workers, Indices, Publish, shared, locals, history
    <2>3. WorkerInv'
      BY <1>4, ThreadCountRange DEF IInv, TypeOK, SeqInv, PointerInv, WorkerInv, WorkerOK, CallerInv, NoLostWakeup, WaitedSeq, CallerPlaces, WorkerPlaces, Executing, Forking, Published, Workers, Indices, Publish, shared, locals, history
    <2>4. NoLostWakeup'
      BY <1>4, ThreadCountRange DEF IInv, TypeOK, SeqInv, PointerInv, WorkerInv, WorkerOK, CallerInv, NoLostWakeup, WaitedSeq, CallerPlaces, WorkerPlaces, Executing, Forking, Published, Workers, Indices, Publish, shared, locals, history
    <2>5. Pending' = Workers
      BY <1>4, ThreadCountRange DEF IInv, TypeOK, SeqInv, PointerInv, WorkerInv, WorkerOK, CallerInv, NoLostWakeup, WaitedSeq, CallerPlaces, WorkerPlaces, Executing, Forking, Published, Workers, Indices, Pending, Publish, shared, locals, history
    <2>6. CountInv'
      BY <1>4, <2>5, WorkersFinite DEF IInv, CountInv, Publish
    <2> QED
      BY <2>1, <2>2, <2>3, <2>4, <2>6 DEF IInv
  <1>5. CASE PublishNotify
    <2>1. TypeOK'
      BY <1>5, ThreadCountRange DEF IInv, TypeOK, CallerPlaces, WorkerPlaces, Workers, Indices, PublishNotify, NotifyAll, shared, locals, history
    <2>2. SeqInv' /\ PointerInv' /\ CallerInv'
      BY <1>5, ThreadCountRange DEF IInv, TypeOK, SeqInv, PointerInv, WorkerInv, WorkerOK, CallerInv, NoLostWakeup, WaitedSeq, CallerPlaces, WorkerPlaces, Executing, Forking, Published, Workers, Indices, PublishNotify, NotifyAll, shared, locals, history
    <2>3. WorkerInv'
      BY <1>5, ThreadCountRange DEF IInv, TypeOK, SeqInv, PointerInv, WorkerInv, WorkerOK, CallerInv, NoLostWakeup, WaitedSeq, CallerPlaces, WorkerPlaces, Executing, Forking, Published, Workers, Indices, PublishNotify, NotifyAll, shared, locals, history
    <2>4. NoLostWakeup'
      BY <1>5, ThreadCountRange DEF IInv, TypeOK, SeqInv, PointerInv, WorkerInv, WorkerOK, CallerInv, NoLostWakeup, WaitedSeq, CallerPlaces, WorkerPlaces, Executing, Forking, Published, Workers, Indices, PublishNotify, NotifyAll, shared, locals, history
    <2>5. Pending' = Pending
      BY <1>5, ThreadCountRange DEF IInv, TypeOK, SeqInv, PointerInv, WorkerInv, WorkerOK, CallerInv, NoLostWakeup, WaitedSeq, CallerPlaces, WorkerPlaces, Executing, Forking, Published, Workers, Indices, Pending, PublishNotify, NotifyAll, shared, locals, history
    <2>6. CountInv'
      BY <1>5, <2>5, CountKept DEF IInv, PublishNotify, NotifyAll, shared
    <2> QED
      BY <2>1, <2>2, <2>3, <2>4, <2>6 DEF IInv
  <1>6. CASE OwnShare
    <2>1. TypeOK'
      BY <1>6, IndexSets, ThreadCountRange DEF IInv, TypeOK, CallerPlaces, WorkerPlaces, OwnShare, shared, locals, history
    <2>2. SeqInv' /\ PointerInv' /\ CallerInv'
      BY <1>6, ThreadCountRange DEF IInv, TypeOK, SeqInv, PointerInv, WorkerInv, WorkerOK, CallerInv, NoLostWakeup, WaitedSeq, CallerPlaces, WorkerPlaces, Executing, Forking, Published, Workers, Indices, OwnShare, shared, locals, history
    <2>3. WorkerInv'
      BY <1>6, ThreadCountRange DEF IInv, TypeOK, SeqInv, PointerInv, WorkerInv, WorkerOK, CallerInv, NoLostWakeup, WaitedSeq, CallerPlaces, WorkerPlaces, Executing, Forking, Published, Workers, Indices, OwnShare, shared, locals, history
    <2>4. NoLostWakeup'
      BY <1>6, ThreadCountRange DEF IInv, TypeOK, SeqInv, PointerInv, WorkerInv, WorkerOK, CallerInv, NoLostWakeup, WaitedSeq, CallerPlaces, WorkerPlaces, Executing, Forking, Published, Workers, Indices, OwnShare, shared, locals, history
    <2>5. Pending' = Pending
      BY <1>6, ThreadCountRange DEF IInv, TypeOK, SeqInv, PointerInv, WorkerInv, WorkerOK, CallerInv, NoLostWakeup, WaitedSeq, CallerPlaces, WorkerPlaces, Executing, Forking, Published, Workers, Indices, Pending, OwnShare, shared, locals, history
    <2>6. CountInv'
      BY <1>6, <2>5, CountKept DEF IInv, OwnShare, shared
    <2> QED
      BY <2>1, <2>2, <2>3, <2>4, <2>6 DEF IInv
  <1>7. CASE WaitForRunning
    <2>1. TypeOK'
      BY <1>7, ThreadCountRange DEF IInv, TypeOK, CallerPlaces, WorkerPlaces, Workers, Indices, WaitForRunning, shared, locals, history
    <2>2. SeqInv' /\ PointerInv' /\ CallerInv'
      BY <1>7, ThreadCountRange DEF IInv, TypeOK, SeqInv, PointerInv, WorkerInv, WorkerOK, CallerInv, NoLostWakeup, WaitedSeq, CallerPlaces, WorkerPlaces, Executing, Forking, Published, Workers, Indices, WaitForRunning, shared, locals, history
    <2>3. WorkerInv'
      BY <1>7, ThreadCountRange DEF IInv, TypeOK, SeqInv, PointerInv, WorkerInv, WorkerOK, CallerInv, NoLostWakeup, WaitedSeq, CallerPlaces, WorkerPlaces, Executing, Forking, Published, Workers, Indices, WaitForRunning, shared, locals, history
    <2>4. NoLostWakeup'
      BY <1>7, ThreadCountRange DEF IInv, TypeOK, SeqInv, PointerInv, WorkerInv, WorkerOK, CallerInv, NoLostWakeup, WaitedSeq, CallerPlaces, WorkerPlaces, Executing, Forking, Published, Workers, Indices, WaitForRunning, shared, locals, history
    <2>5. Pending' = Pending
      BY <1>7, ThreadCountRange DEF IInv, TypeOK, SeqInv, PointerInv, WorkerInv, WorkerOK, CallerInv, NoLostWakeup, WaitedSeq, CallerPlaces, WorkerPlaces, Executing, Forking, Published, Workers, Indices, Pending, WaitForRunning, shared, locals, history
    <2>6. CountInv'
      BY <1>7, <2>5, CountKept DEF IInv, WaitForRunning, shared
    <2> QED
      BY <2>1, <2>2, <2>3, <2>4, <2>6 DEF IInv
  <1>8. CASE JoinLoad
    <2>0. Joined => Pending = {}
      BY <1>8, PendingFinite DEF IInv, CountInv, JoinLoad, Joined
    <2>1. TypeOK'
      BY <1>8, ThreadCountRange, <2>0 DEF IInv, TypeOK, CallerPlaces, WorkerPlaces, Workers, Indices, JoinLoad, Joined, shared, locals, history
    <2>2. SeqInv' /\ PointerInv' /\ CallerInv'
      BY <1>8, ThreadCountRange, <2>0 DEF IInv, TypeOK, SeqInv, PointerInv, WorkerInv, WorkerOK, CallerInv, NoLostWakeup, WaitedSeq, CallerPlaces, WorkerPlaces, Executing, Forking, Published, Workers, Indices, Pending, JoinLoad, Joined, shared, locals, history
    <2>3. WorkerInv'
      BY <1>8, ThreadCountRange, <2>0 DEF IInv, TypeOK, SeqInv, PointerInv, WorkerInv, WorkerOK, CallerInv, NoLostWakeup, WaitedSeq, CallerPlaces, WorkerPlaces, Executing, Forking, Published, Workers, Indices, Pending, JoinLoad, Joined, shared, locals, history
    <2>4. NoLostWakeup'
      BY <1>8, ThreadCountRange, <2>0 DEF IInv, TypeOK, SeqInv, PointerInv, WorkerInv, WorkerOK, CallerInv, NoLostWakeup, WaitedSeq, CallerPlaces, WorkerPlaces, Executing, Forking, Published, Workers, Indices, Pending, JoinLoad, Joined, shared, locals, history
    <2>5. Pending' = Pending
      BY <1>8, ThreadCountRange, <2>0 DEF IInv, TypeOK, SeqInv, PointerInv, WorkerInv, WorkerOK, CallerInv, NoLostWakeup, WaitedSeq, CallerPlaces, WorkerPlaces, Executing, Forking, Published, Workers, Indices, Pending, JoinLoad, Joined, shared, locals, history
    <2>6. CountInv'
      BY <1>8, <2>5, CountKept DEF IInv, JoinLoad, Joined, shared
    <2> QED
      BY <2>1, <2>2, <2>3, <2>4, <2>6 DEF IInv
  <1>9. CASE ClearTask
    <2>1. TypeOK'
      BY <1>9, ThreadCountRange DEF IInv, TypeOK, CallerPlaces, WorkerPlaces, Workers, Indices, ClearTask, shared, locals, history
    <2>2. SeqInv' /\ PointerInv' /\ CallerInv'
      BY <1>9, ThreadCountRange DEF IInv, TypeOK, SeqInv, PointerInv, WorkerInv, WorkerOK, CallerInv, NoLostWakeup, WaitedSeq, CallerPlaces, WorkerPlaces, Executing, Forking, Published, Workers, Indices, ClearTask, shared, locals, history
    <2>3. WorkerInv'
      BY <1>9, ThreadCountRange DEF IInv, TypeOK, SeqInv, PointerInv, WorkerInv, WorkerOK, CallerInv, NoLostWakeup, WaitedSeq, CallerPlaces, WorkerPlaces, Executing, Forking, Published, Workers, Indices, ClearTask, shared, locals, history
    <2>4. NoLostWakeup'
      BY <1>9, ThreadCountRange DEF IInv, TypeOK, SeqInv, PointerInv, WorkerInv, WorkerOK, CallerInv, NoLostWakeup, WaitedSeq, CallerPlaces, WorkerPlaces, Executing, Forking, Published, Workers, Indices, ClearTask, shared, locals, history
    <2>5. Pending' = Pending
      BY <1>9, ThreadCountRange DEF IInv, TypeOK, SeqInv, PointerInv, WorkerInv, WorkerOK, CallerInv, NoLostWakeup, WaitedSeq, CallerPlaces, WorkerPlaces, Executing, Forking, Published, Workers, Indices, Pending, ClearTask, shared, locals, history
    <2>6. CountInv'
      BY <1>9, <2>5, CountKept DEF IInv, ClearTask, shared
    <2> QED
      BY <2>1, <2>2, <2>3, <2>4, <2>6 DEF IInv
  <1>10. CASE DestroyWake
    <2>1. TypeOK'
      BY <1>10, ThreadCountRange DEF IInv, TypeOK, CallerPlaces, WorkerPlaces, Workers, Indices, DestroyWake, WakeSeq, shared, locals, history
    <2>2. SeqInv' /\ PointerInv' /\ CallerInv'
      BY <1>10, ThreadCountRange DEF IInv, TypeOK, SeqInv, PointerInv, WorkerInv, WorkerOK, CallerInv, NoLostWakeup, WaitedSeq, CallerPlaces, WorkerPlaces, Executing, Forking, Published, Workers, Indices, DestroyWake, WakeSeq, shared, locals, history
    <2>3. WorkerInv'
      BY <1>10, ThreadCountRange DEF IInv, TypeOK, SeqInv, PointerInv, WorkerInv, WorkerOK, CallerInv, NoLostWakeup, WaitedSeq, CallerPlaces, WorkerPlaces, Executing, Forking, Published, Workers, Indices, DestroyWake, WakeSeq, shared, locals, history
    <2>4. NoLostWakeup'
      BY <1>10, ThreadCountRange DEF IInv, TypeOK, SeqInv, PointerInv, WorkerInv, WorkerOK, CallerInv, NoLostWakeup, WaitedSeq, CallerPlaces, WorkerPlaces, Executing, Forking, Published, Workers, Indices, DestroyWake, WakeSeq, shared, locals, history
    <2>5. Pending' = Pending
      BY <1>10, ThreadCountRange DEF IInv, TypeOK, SeqInv, PointerInv, WorkerInv, WorkerOK, CallerInv, NoLostWakeup, WaitedSeq, CallerPlaces, WorkerPlaces, Executing, Forking, Published, Workers, Indices, Pending, DestroyWake, WakeSeq, shared, locals, history
    <2>6. CountInv'
      BY <1>10, <2>5, CountKept DEF IInv, DestroyWake, WakeSeq, shared
    <2> QED
      BY <2>1, <2>2, <2>3, <2>4, <2>6 DEF IInv
  <1>11. CASE DestroyNotify
    <2>1. TypeOK'
      BY <1>11, ThreadCountRange DEF IInv, TypeOK, CallerPlaces, WorkerPlaces, Workers, Indices, DestroyNotify, NotifyAll, shared, locals, history
    <2>2. SeqInv' /\ PointerInv' /\ CallerInv'
      BY <1>11, ThreadCountRange DEF IInv, TypeOK, SeqInv, PointerInv, WorkerInv, WorkerOK, CallerInv, NoLostWakeup, WaitedSeq, CallerPlaces, WorkerPlaces, Executing, Forking, Published, Workers, Indices, DestroyNotify, NotifyAll, shared, locals, history
    <2>3. WorkerInv'
      BY <1>11, ThreadCountRange DEF IInv, TypeOK, SeqInv, PointerInv, WorkerInv, WorkerOK, CallerInv, NoLostWakeup, WaitedSeq, CallerPlaces, WorkerPlaces, Executing, Forking, Published, Workers, Indices, DestroyNotify, NotifyAll, shared, locals, history
    <2>4. NoLostWakeup'
      BY <1>11, ThreadCountRange DEF IInv, TypeOK, SeqInv, PointerInv, WorkerInv, WorkerOK, CallerInv, NoLostWakeup, WaitedSeq, CallerPlaces, WorkerPlaces, Executing, Forking, Published, Workers, Indices, DestroyNotify, NotifyAll, shared, locals, history
    <2>5. Pending' = Pending
      BY <1>11, ThreadCountRange DEF IInv, TypeOK, SeqInv, PointerInv, WorkerInv, WorkerOK, CallerInv, NoLostWakeup, WaitedSeq, CallerPlaces, WorkerPlaces, Executing, Forking, Published, Workers, Indices, Pending, DestroyNotify, NotifyAll, shared, locals, history
    <2>6. CountInv'
      BY <1>11, <2>5, CountKept DEF IInv, DestroyNotify, NotifyAll, shared
    <2> QED
      BY <2>1, <2>2, <2>3, <2>4, <2>6 DEF IInv
  <1>12. CASE DestroyJoin
    <2>1. TypeOK'
      BY <1>12, ThreadCountRange DEF IInv, TypeOK, CallerPlaces, WorkerPlaces, Workers, Indices, DestroyJoin, SleepSeq, shared, locals, history
    <2>2. SeqInv' /\ PointerInv' /\ CallerInv'
      BY <1>12, ThreadCountRange DEF IInv, TypeOK, SeqInv, PointerInv, WorkerInv, WorkerOK, CallerInv, NoLostWakeup, WaitedSeq, CallerPlaces, WorkerPlaces, Executing, Forking, Published, Workers, Indices, DestroyJoin, SleepSeq, shared, locals, history
    <2>3. WorkerInv'
      BY <1>12, ThreadCountRange DEF IInv, TypeOK, SeqInv, PointerInv, WorkerInv, WorkerOK, CallerInv, NoLostWakeup, WaitedSeq, CallerPlaces, WorkerPlaces, Executing, Forking, Published, Workers, Indices, DestroyJoin, SleepSeq, shared, locals, history
    <2>4. NoLostWakeup'
      BY <1>12, ThreadCountRange DEF IInv, TypeOK, SeqInv, PointerInv, WorkerInv, WorkerOK, CallerInv, NoLostWakeup, WaitedSeq, CallerPlaces, WorkerPlaces, Executing, Forking, Published, Workers, Indices, DestroyJoin, SleepSeq, shared, locals, history
    <2>5. Pending' = Pending
      BY <1>12, ThreadCountRange DEF IInv, TypeOK, SeqInv, PointerInv, WorkerInv, WorkerOK, CallerInv, NoLostWakeup, WaitedSeq, CallerPlaces, WorkerPlaces, Executing, Forking, Published, Workers, Indices, Pending, DestroyJoin, SleepSeq, shared, locals, history
    <2>6. CountInv'
      BY <1>12, <2>5, CountKept DEF IInv, DestroyJoin, SleepSeq, shared
    <2> QED
      BY <2>1, <2>2, <2>3, <2>4, <2>6 DEF IInv
  <1>13. CASE BeginActiveScope
    <2>1. TypeOK'
      BY <1>13, ThreadCountRange DEF IInv, TypeOK, CallerPlaces, WorkerPlaces, Workers, Indices, BeginActiveScope, WakeSeq, shared, locals, history
    <2>2. SeqInv' /\ PointerInv' /\ CallerInv'
      BY <1>13, ThreadCountRange DEF IInv, TypeOK, SeqInv, PointerInv, WorkerInv, WorkerOK, CallerInv, NoLostWakeup, WaitedSeq, CallerPlaces, WorkerPlaces, Executing, Forking, Published, Workers, Indices, BeginActiveScope, WakeSeq, shared, locals, history
    <2>3. WorkerInv'
      BY <1>13, ThreadCountRange DEF IInv, TypeOK, SeqInv, PointerInv, WorkerInv, WorkerOK, CallerInv, NoLostWakeup, WaitedSeq, CallerPlaces, WorkerPlaces, Executing, Forking, Published, Workers, Indices, BeginActiveScope, WakeSeq, shared, locals, history
    <2>4. NoLostWakeup'
      BY <1>13, ThreadCountRange DEF IInv, TypeOK, SeqInv, PointerInv, WorkerInv, WorkerOK, CallerInv, NoLostWakeup, WaitedSeq, CallerPlaces, WorkerPlaces, Executing, Forking, Published, Workers, Indices, BeginActiveScope, WakeSeq, shared, locals, history
    <2>5. Pending' = Pending
      BY <1>13, ThreadCountRange DEF IInv, TypeOK, SeqInv, PointerInv, WorkerInv, WorkerOK, CallerInv, NoLostWakeup, WaitedSeq, CallerPlaces, WorkerPlaces, Executing, Forking, Published, Workers, Indices, Pending, BeginActiveScope, WakeSeq, shared, locals, history
    <2>6. CountInv'
      BY <1>13, <2>5, CountKept DEF IInv, BeginActiveScope, WakeSeq, shared
    <2> QED
      BY <2>1, <2>2, <2>3, <2>4, <2>6 DEF IInv
  <1>14. CASE EndActiveScope
    <2>1. TypeOK'
      BY <1>14, ThreadCountRange DEF IInv, TypeOK, CallerPlaces, WorkerPlaces, Workers, Indices, EndActiveScope, SleepSeq, shared, locals, history
    <2>2. SeqInv' /\ PointerInv' /\ CallerInv'
      BY <1>14, ThreadCountRange DEF IInv, TypeOK, SeqInv, PointerInv, WorkerInv, WorkerOK, CallerInv, NoLostWakeup, WaitedSeq, CallerPlaces, WorkerPlaces, Executing, Forking, Published, Workers, Indices, EndActiveScope, SleepSeq, shared, locals, history
    <2>3. WorkerInv'
      BY <1>14, ThreadCountRange DEF IInv, TypeOK, SeqInv, PointerInv, WorkerInv, WorkerOK, CallerInv, NoLostWakeup, WaitedSeq, CallerPlaces, WorkerPlaces, Executing, Forking, Published, Workers, Indices, EndActiveScope, SleepSeq, shared, locals, history
    <2>4. NoLostWakeup'
      BY <1>14, ThreadCountRange DEF IInv, TypeOK, SeqInv, PointerInv, WorkerInv, WorkerOK, CallerInv, NoLostWakeup, WaitedSeq, CallerPlaces, WorkerPlaces, Executing, Forking, Published, Workers, Indices, EndActiveScope, SleepSeq, shared, locals, history
    <2>5. Pending' = Pending
      BY <1>14, ThreadCountRange DEF IInv, TypeOK, SeqInv, PointerInv, WorkerInv, WorkerOK, CallerInv, NoLostWakeup, WaitedSeq, CallerPlaces, WorkerPlaces, Executing, Forking, Published, Workers, Indices, Pending, EndActiveScope, SleepSeq, shared, locals, history
    <2>6. CountInv'
      BY <1>14, <2>5, CountKept DEF IInv, EndActiveScope, SleepSeq, shared
    <2> QED
      BY <2>1, <2>2, <2>3, <2>4, <2>6 DEF IInv
  <1>15. CASE Execute
    <2>1. TypeOK'
      BY <1>15, ThreadCountRange DEF IInv, TypeOK, CallerPlaces, WorkerPlaces, Workers, Indices, Execute, shared, locals, history
    <2>2. SeqInv' /\ PointerInv' /\ CallerInv'
      BY <1>15, ThreadCountRange DEF IInv, TypeOK, SeqInv, PointerInv, WorkerInv, WorkerOK, CallerInv, NoLostWakeup, WaitedSeq, CallerPlaces, WorkerPlaces, Executing, Forking, Published, Workers, Indices, Execute, shared, locals, history
    <2>3. WorkerInv'
      BY <1>15, ThreadCountRange DEF IInv, TypeOK, SeqInv, PointerInv, WorkerInv, WorkerOK, CallerInv, NoLostWakeup, WaitedSeq, CallerPlaces, WorkerPlaces, Executing, Forking, Published, Workers, Indices, Execute, shared, locals, history
    <2>4. NoLostWakeup'
      BY <1>15, ThreadCountRange DEF IInv, TypeOK, SeqInv, PointerInv, WorkerInv, WorkerOK, CallerInv, NoLostWakeup, WaitedSeq, CallerPlaces, WorkerPlaces, Executing, Forking, Published, Workers, Indices, Execute, shared, locals, history
    <2>5. Pending' = Pending
      BY <1>15, ThreadCountRange DEF IInv, TypeOK, SeqInv, PointerInv, WorkerInv, WorkerOK, CallerInv, NoLostWakeup, WaitedSeq, CallerPlaces, WorkerPlaces, Executing, Forking, Published, Workers, Indices, Pending, Execute, shared, locals, history
    <2>6. CountInv'
      BY <1>15, <2>5, CountKept DEF IInv, Execute, shared
    <2> QED
      BY <2>1, <2>2, <2>3, <2>4, <2>6 DEF IInv
  <1>16. CASE Destroy
    <2>1. TypeOK'
      BY <1>16, ThreadCountRange DEF IInv, TypeOK, CallerPlaces, WorkerPlaces, Workers, Indices, Destroy, shared, locals, history
    <2>2. SeqInv' /\ PointerInv' /\ CallerInv'
      BY <1>16, ThreadCountRange DEF IInv, TypeOK, SeqInv, PointerInv, WorkerInv, WorkerOK, CallerInv, NoLostWakeup, WaitedSeq, CallerPlaces, WorkerPlaces, Executing, Forking, Published, Workers, Indices, Destroy, shared, locals, history
    <2>3. WorkerInv'
      BY <1>16, ThreadCountRange DEF IInv, TypeOK, SeqInv, PointerInv, WorkerInv, WorkerOK, CallerInv, NoLostWakeup, WaitedSeq, CallerPlaces, WorkerPlaces, Executing, Forking, Published, Workers, Indices, Destroy, shared, locals, history
    <2>4. NoLostWakeup'
      BY <1>16, ThreadCountRange DEF IInv, TypeOK, SeqInv, PointerInv, WorkerInv, WorkerOK, CallerInv, NoLostWakeup, WaitedSeq, CallerPlaces, WorkerPlaces, Executing, Forking, Published, Workers, Indices, Destroy, shared, locals, history
    <2>5. Pending' = Pending
      BY <1>16, ThreadCountRange DEF IInv, TypeOK, SeqInv, PointerInv, WorkerInv, WorkerOK, CallerInv, NoLostWakeup, WaitedSeq, CallerPlaces, WorkerPlaces, Executing, Forking, Published, Workers, Indices, Pending, Destroy, shared, locals, history
    <2>6. CountInv'
      BY <1>16, <2>5, CountKept DEF IInv, Destroy, shared
    <2> QED
      BY <2>1, <2>2, <2>3, <2>4, <2>6 DEF IInv
  <1>17. CASE \E w \in Workers : Spawn(w)
    BY <1>17, SpawnPreserves
  <1> QED
    BY <1>1, <1>2, <1>3, <1>4, <1>5, <1>6, <1>7, <1>8, <1>9, <1>10, <1>11, <1>12, <1>13, <1>14, <1>15, <1>16, <1>17
    DEF CallerStep, CallerChoice

LEMMA WorkerPreserves ==
  ASSUME IInv, NEW w \in Workers, WorkerStep(w)
  PROVE  IInv'
  <1>1. CASE WorkerInit(w)
    <2>1. TypeOK'
      BY <1>1, ThreadCountRange DEF IInv, TypeOK, CallerPlaces, WorkerPlaces, Workers, Indices, WorkerInit, Goto, shared, locals, history
    <2>2. SeqInv' /\ PointerInv' /\ CallerInv'
      BY <1>1, ThreadCountRange DEF IInv, TypeOK, SeqInv, PointerInv, WorkerInv, WorkerOK, CallerInv, NoLostWakeup, WaitedSeq, CallerPlaces, WorkerPlaces, Executing, Forking, Published, Workers, Indices, WorkerInit, Goto, shared, locals, history
    <2>3. WorkerInv'
      BY <1>1, ThreadCountRange DEF IInv, TypeOK, SeqInv, PointerInv, WorkerInv, WorkerOK, CallerInv, NoLostWakeup, WaitedSeq, CallerPlaces, WorkerPlaces, Executing, Forking, Published, Workers, Indices, WorkerInit, Goto, shared, locals, history
    <2>4. NoLostWakeup'
      BY <1>1, ThreadCountRange DEF IInv, TypeOK, SeqInv, PointerInv, WorkerInv, WorkerOK, CallerInv, NoLostWakeup, WaitedSeq, CallerPlaces, WorkerPlaces, Executing, Forking, Published, Workers, Indices, WorkerInit, Goto, shared, locals, history
    <2>5. Pending' = Pending
      BY <1>1, ThreadCountRange DEF IInv, TypeOK, SeqInv, PointerInv, WorkerInv, WorkerOK, CallerInv, NoLostWakeup, WaitedSeq, CallerPlaces, WorkerPlaces, Executing, Forking, Published, Workers, Indices, Pending, WorkerInit, Goto, shared, locals, history
    <2>6. CountInv'
      BY <1>1, <2>5, CountKept DEF IInv, WorkerInit, Goto, shared
    <2> QED
      BY <2>1, <2>2, <2>3, <2>4, <2>6 DEF IInv
  <1>2. CASE CheckAvailable(w)
    <2>1. TypeOK'
      BY <1>2, ThreadCountRange DEF IInv, TypeOK, CallerPlaces, WorkerPlaces, Workers, Indices, CheckAvailable, Goto, shared, locals, history
    <2>2. SeqInv' /\ PointerInv' /\ CallerInv'
      BY <1>2, ThreadCountRange DEF IInv, TypeOK, SeqInv, PointerInv, WorkerInv, WorkerOK, CallerInv, NoLostWakeup, WaitedSeq, CallerPlaces, WorkerPlaces, Executing, Forking, Published, Workers, Indices, CheckAvailable, Goto, shared, locals, history
    <2>3. WorkerInv'
      BY <1>2, ThreadCountRange DEF IInv, TypeOK, SeqInv, PointerInv, WorkerInv, WorkerOK, CallerInv, NoLostWakeup, WaitedSeq, CallerPlaces, WorkerPlaces, Executing, Forking, Published, Workers, Indices, CheckAvailable, Goto, shared, locals, history
    <2>4. NoLostWakeup'
      BY <1>2, ThreadCountRange DEF IInv, TypeOK, SeqInv, PointerInv, WorkerInv, WorkerOK, CallerInv, NoLostWakeup, WaitedSeq, CallerPlaces, WorkerPlaces, Executing, Forking, Published, Workers, Indices, CheckAvailable, Goto, shared, locals, history
    <2>5. Pending' = Pending
      BY <1>2, ThreadCountRange DEF IInv, TypeOK, SeqInv, PointerInv, WorkerInv, WorkerOK, CallerInv, NoLostWakeup, WaitedSeq, CallerPlaces, WorkerPlaces, Executing, Forking, Published, Workers, Indices, Pending, CheckAvailable, Goto, shared, locals, history
    <2>6. CountInv'
      BY <1>2, <2>5, CountKept DEF IInv, CheckAvailable, Goto, shared
    <2> QED
      BY <2>1, <2>2, <2>3, <2>4, <2>6 DEF IInv
  <1>3. CASE WaitForSeq(w)
    <2>1. TypeOK'
      BY <1>3, ThreadCountRange DEF IInv, TypeOK, CallerPlaces, WorkerPlaces, Workers, Indices, WaitForSeq, Goto, WaitedSeq, shared, locals, history
    <2>2. SeqInv' /\ PointerInv' /\ CallerInv'
      BY <1>3, ThreadCountRange DEF IInv, TypeOK, SeqInv, PointerInv, WorkerInv, WorkerOK, CallerInv, NoLostWakeup, WaitedSeq, CallerPlaces, WorkerPlaces, Executing, Forking, Published, Workers, Indices, WaitForSeq, Goto, WaitedSeq, shared, locals, history
    <2>3. WorkerInv'
      BY <1>3, ThreadCountRange DEF IInv, TypeOK, SeqInv, PointerInv, WorkerInv, WorkerOK, CallerInv, NoLostWakeup, WaitedSeq, CallerPlaces, WorkerPlaces, Executing, Forking, Published, Workers, Indices, WaitForSeq, Goto, WaitedSeq, shared, locals, history
    <2>4. NoLostWakeup'
      BY <1>3, ThreadCountRange DEF IInv, TypeOK, SeqInv, PointerInv, WorkerInv, WorkerOK, CallerInv, NoLostWakeup, WaitedSeq, CallerPlaces, WorkerPlaces, Executing, Forking, Published, Workers, Indices, WaitForSeq, Goto, WaitedSeq, shared, locals, history
    <2>5. Pending' = Pending
      BY <1>3, ThreadCountRange DEF IInv, TypeOK, SeqInv, PointerInv, WorkerInv, WorkerOK, CallerInv, NoLostWakeup, WaitedSeq, CallerPlaces, WorkerPlaces, Executing, Forking, Published, Workers, Indices, Pending, WaitForSeq, Goto, WaitedSeq, shared, locals, history
    <2>6. CountInv'
      BY <1>3, <2>5, CountKept DEF IInv, WaitForSeq, Goto, WaitedSeq, shared
    <2> QED
      BY <2>1, <2>2, <2>3, <2>4, <2>6 DEF IInv
  <1>4. CASE LoadSeq(w)
    <2>1. TypeOK'
      BY <1>4, ThreadCountRange DEF IInv, TypeOK, CallerPlaces, WorkerPlaces, Workers, Indices, LoadSeq, Goto, SeesTask, shared, locals, history
    <2>2. SeqInv' /\ PointerInv' /\ CallerInv'
      BY <1>4, ThreadCountRange DEF IInv, TypeOK, SeqInv, PointerInv, WorkerInv, WorkerOK, CallerInv, NoLostWakeup, WaitedSeq, CallerPlaces, WorkerPlaces, Executing, Forking, Published, Workers, Indices, LoadSeq, Goto, SeesTask, shared, locals, history
    <2>3. WorkerInv'
      <3> SUFFICES ASSUME NEW u \in Workers PROVE WorkerOK(u)'
        BY DEF WorkerInv
      <3>1. CASE u = w
        <4>1. WorkerOK(w) /\ pc[w] = "load" /\ id'[w] = task_seq /\ caller # "stopped"
          BY <1>4 DEF IInv, TypeOK, WorkerInv, WorkerOK, LoadSeq
        <4>2. pc'[w] = "check" \/ (pc'[w] = "read" /\ task_seq > localSeq[w])
          BY <1>4 DEF IInv, TypeOK, LoadSeq, Goto, SeesTask, shared, locals, history
        <4>3. Published' = Published /\ UNCHANGED <<localSeq, task_seq, execs, caller, calls, spin>>
          BY <1>4 DEF Published, LoadSeq, shared, history
        <4>4. task_seq > localSeq[w] =>
                localSeq[w] # Published \/ (~spin /\ caller \in {"d_notify", "d_join"})
          BY <4>1 DEF IInv, TypeOK, SeqInv, Published
        <4> QED
          BY <3>1, <4>1, <4>2, <4>3, <4>4 DEF WorkerOK
      <3>2. CASE u # w
        BY <1>4, ThreadCountRange, <3>2 DEF IInv, TypeOK, SeqInv, PointerInv, WorkerInv, WorkerOK, CallerInv, NoLostWakeup, WaitedSeq, CallerPlaces, WorkerPlaces, Executing, Forking, Published, Workers, Indices, LoadSeq, Goto, SeesTask, shared, locals, history
      <3> QED
        BY <3>1, <3>2
    <2>4. NoLostWakeup'
      BY <1>4, ThreadCountRange DEF IInv, TypeOK, SeqInv, PointerInv, WorkerInv, WorkerOK, CallerInv, NoLostWakeup, WaitedSeq, CallerPlaces, WorkerPlaces, Executing, Forking, Published, Workers, Indices, LoadSeq, Goto, SeesTask, shared, locals, history
    <2>5. Pending' = Pending
      BY <1>4, ThreadCountRange DEF IInv, TypeOK, SeqInv, PointerInv, WorkerInv, WorkerOK, CallerInv, NoLostWakeup, WaitedSeq, CallerPlaces, WorkerPlaces, Executing, Forking, Published, Workers, Indices, Pending, LoadSeq, Goto, SeesTask, shared, locals, history
    <2>6. CountInv'
      BY <1>4, <2>5, CountKept DEF IInv, LoadSeq, Goto, SeesTask, shared
    <2> QED
      BY <2>1, <2>2, <2>3, <2>4, <2>6 DEF IInv
  <1>5. CASE ReadTask(w)
    <2>1. TypeOK'
      BY <1>5, ThreadCountRange DEF IInv, TypeOK, CallerPlaces, WorkerPlaces, Workers, Indices, ReadTask, Goto, shared, locals, history
    <2>2. SeqInv' /\ PointerInv' /\ CallerInv'
      BY <1>5, ThreadCountRange DEF IInv, TypeOK, SeqInv, PointerInv, WorkerInv, WorkerOK, CallerInv, NoLostWakeup, WaitedSeq, CallerPlaces, WorkerPlaces, Executing, Forking, Published, Workers, Indices, ReadTask, Goto, shared, locals, history
    <2>3. WorkerInv'
      <3> SUFFICES ASSUME NEW u \in Workers PROVE WorkerOK(u)'
        BY DEF WorkerInv
      <3>1. CASE u = w
        BY <1>5, ThreadCountRange, <3>1 DEF IInv, TypeOK, SeqInv, PointerInv, WorkerInv, WorkerOK, CallerInv, NoLostWakeup, WaitedSeq, CallerPlaces, WorkerPlaces, Executing, Forking, Published, Workers, Indices, ReadTask, Goto, shared, locals, history
      <3>2. CASE u # w
        BY <1>5, ThreadCountRange, <3>2 DEF IInv, TypeOK, SeqInv, PointerInv, WorkerInv, WorkerOK, CallerInv, NoLostWakeup, WaitedSeq, CallerPlaces, WorkerPlaces, Executing, Forking, Published, Workers, Indices, ReadTask, Goto, shared, locals, history
      <3> QED
        BY <3>1, <3>2
    <2>4. NoLostWakeup'
      BY <1>5, ThreadCountRange DEF IInv, TypeOK, SeqInv, PointerInv, WorkerInv, WorkerOK, CallerInv, NoLostWakeup, WaitedSeq, CallerPlaces, WorkerPlaces, Executing, Forking, Published, Workers, Indices, ReadTask, Goto, shared, locals, history
    <2>5. Pending' = Pending
      BY <1>5, ThreadCountRange DEF IInv, TypeOK, SeqInv, PointerInv, WorkerInv, WorkerOK, CallerInv, NoLostWakeup, WaitedSeq, CallerPlaces, WorkerPlaces, Executing, Forking, Published, Workers, Indices, Pending, ReadTask, Goto, shared, locals, history
    <2>6. CountInv'
      BY <1>5, <2>5, CountKept DEF IInv, WorkerInv, WorkerOK, Forking, SeqInv, ReadTask, Goto, shared
    <2> QED
      BY <2>1, <2>2, <2>3, <2>4, <2>6 DEF IInv
  <1>6. CASE RunShare(w)
    <2>1. TypeOK'
      BY <1>6, IndexSets, ThreadCountRange DEF IInv, TypeOK, CallerPlaces, WorkerPlaces, RunShare, Goto, shared, locals, history
    <2>2. SeqInv' /\ PointerInv' /\ CallerInv'
      BY <1>6, ThreadCountRange DEF IInv, TypeOK, SeqInv, PointerInv, WorkerInv, WorkerOK, CallerInv, NoLostWakeup, WaitedSeq, CallerPlaces, WorkerPlaces, Executing, Forking, Published, Workers, Indices, RunShare, Goto, shared, locals, history
    <2>3. WorkerInv'
      <3> SUFFICES ASSUME NEW u \in Workers PROVE WorkerOK(u)'
        BY DEF WorkerInv
      <3>1. CASE u = w
        BY <1>6, ThreadCountRange, <3>1 DEF IInv, TypeOK, SeqInv, PointerInv, WorkerInv, WorkerOK, CallerInv, NoLostWakeup, WaitedSeq, CallerPlaces, WorkerPlaces, Executing, Forking, Published, Workers, Indices, RunShare, Goto, shared, locals, history
      <3>2. CASE u # w
        BY <1>6, ThreadCountRange, <3>2 DEF IInv, TypeOK, SeqInv, PointerInv, WorkerInv, WorkerOK, CallerInv, NoLostWakeup, WaitedSeq, CallerPlaces, WorkerPlaces, Executing, Forking, Published, Workers, Indices, RunShare, Goto, shared, locals, history
      <3> QED
        BY <3>1, <3>2
    <2>4. NoLostWakeup'
      BY <1>6, ThreadCountRange DEF IInv, TypeOK, SeqInv, PointerInv, WorkerInv, WorkerOK, CallerInv, NoLostWakeup, WaitedSeq, CallerPlaces, WorkerPlaces, Executing, Forking, Published, Workers, Indices, RunShare, Goto, shared, locals, history
    <2>5. Pending' = Pending
      BY <1>6, ThreadCountRange DEF IInv, TypeOK, SeqInv, PointerInv, WorkerInv, WorkerOK, CallerInv, NoLostWakeup, WaitedSeq, CallerPlaces, WorkerPlaces, Executing, Forking, Published, Workers, Indices, Pending, RunShare, Goto, shared, locals, history
    <2>6. CountInv'
      BY <1>6, <2>5, CountKept DEF IInv, WorkerInv, WorkerOK, Forking, SeqInv, RunShare, Goto, shared
    <2> QED
      BY <2>1, <2>2, <2>3, <2>4, <2>6 DEF IInv
  <1>7. CASE FinishShare(w)
    <2>0. w \in Pending /\ running_workers = Cardinality(Pending) /\ Cardinality(Pending) > 0
      BY <1>7, PendingFinite DEF IInv, TypeOK, WorkerInv, WorkerOK, CountInv, Forking, Pending, FinishShare
    <2>1. TypeOK'
      <3>1. running_workers' \in Nat
        BY <1>7, <2>0, PendingFinite DEF FinishShare
      <3> QED
        BY <1>7, <3>1 DEF IInv, TypeOK, CallerPlaces, WorkerPlaces, FinishShare, Goto, shared, locals, history
    <2>2. SeqInv' /\ PointerInv' /\ CallerInv'
      BY <1>7, ThreadCountRange, <2>0, PendingFinite DEF IInv, TypeOK, SeqInv, PointerInv, WorkerInv, WorkerOK, CallerInv, NoLostWakeup, WaitedSeq, CallerPlaces, WorkerPlaces, Executing, Forking, Published, Workers, Indices, FinishShare, Goto, shared, locals, history
    <2>3. WorkerInv'
      <3> SUFFICES ASSUME NEW u \in Workers PROVE WorkerOK(u)'
        BY DEF WorkerInv
      <3>1. CASE u = w
        BY <1>7, ThreadCountRange, <2>0, PendingFinite, <3>1 DEF IInv, TypeOK, SeqInv, PointerInv, WorkerInv, WorkerOK, CallerInv, NoLostWakeup, WaitedSeq, CallerPlaces, WorkerPlaces, Executing, Forking, Published, Workers, Indices, FinishShare, Goto, shared, locals, history
      <3>2. CASE u # w
        BY <1>7, ThreadCountRange, <2>0, PendingFinite, <3>2 DEF IInv, TypeOK, SeqInv, PointerInv, WorkerInv, WorkerOK, CallerInv, NoLostWakeup, WaitedSeq, CallerPlaces, WorkerPlaces, Executing, Forking, Published, Workers, Indices, FinishShare, Goto, shared, locals, history
      <3> QED
        BY <3>1, <3>2
    <2>4. NoLostWakeup'
      <3>1. ~spin /\ running_workers = 1 => pc'[w] = "notify"
        BY <1>7 DEF IInv, TypeOK, FinishShare, Goto, shared, locals, history
      <3>2. running_workers' = 0 => running_workers = 1
        BY <1>7 DEF IInv, TypeOK, FinishShare, Goto, shared, locals, history
      <3> QED
        BY <1>7, ThreadCountRange, <3>1, <3>2 DEF IInv, TypeOK, SeqInv, PointerInv, WorkerInv, WorkerOK, CallerInv, NoLostWakeup, WaitedSeq, CallerPlaces, WorkerPlaces, Executing, Forking, Published, Workers, Indices, FinishShare, Goto, shared, locals, history
    <2>5. Pending' = Pending \ {w}
      BY <1>7, ThreadCountRange, <2>0, PendingFinite DEF IInv, TypeOK, SeqInv, PointerInv, WorkerInv, WorkerOK, CallerInv, NoLostWakeup, WaitedSeq, CallerPlaces, WorkerPlaces, Executing, Forking, Published, Workers, Indices, Pending, FinishShare, Goto, shared, locals, history
    <2>6. Cardinality(Pending') = Cardinality(Pending) - 1
      BY <2>0, <2>5, PendingFinite, FS_RemoveElement
    <2>7. CountInv'
      BY <1>7, <2>0, <2>6, <2>3 DEF CountInv, IInv, WorkerInv, WorkerOK, Forking, FinishShare, TypeOK
    <2> QED
      BY <2>1, <2>2, <2>3, <2>4, <2>7 DEF IInv
  <1>8. CASE NotifyCaller(w)
    <2>1. TypeOK'
      BY <1>8, ThreadCountRange DEF IInv, TypeOK, CallerPlaces, WorkerPlaces, Workers, Indices, NotifyCaller, Goto, shared, locals, history
    <2>2. SeqInv' /\ PointerInv' /\ CallerInv'
      BY <1>8, ThreadCountRange DEF IInv, TypeOK, SeqInv, PointerInv, WorkerInv, WorkerOK, CallerInv, NoLostWakeup, WaitedSeq, CallerPlaces, WorkerPlaces, Executing, Forking, Published, Workers, Indices, NotifyCaller, Goto, shared, locals, history
    <2>3. WorkerInv'
      BY <1>8, ThreadCountRange DEF IInv, TypeOK, SeqInv, PointerInv, WorkerInv, WorkerOK, CallerInv, NoLostWakeup, WaitedSeq, CallerPlaces, WorkerPlaces, Executing, Forking, Published, Workers, Indices, NotifyCaller, Goto, shared, locals, history
    <2>4. NoLostWakeup'
      BY <1>8, ThreadCountRange DEF IInv, TypeOK, SeqInv, PointerInv, WorkerInv, WorkerOK, CallerInv, NoLostWakeup, WaitedSeq, CallerPlaces, WorkerPlaces, Executing, Forking, Published, Workers, Indices, NotifyCaller, Goto, shared, locals, history
    <2>5. Pending' = Pending
      BY <1>8, ThreadCountRange DEF IInv, TypeOK, SeqInv, PointerInv, WorkerInv, WorkerOK, CallerInv, NoLostWakeup, WaitedSeq, CallerPlaces, WorkerPlaces, Executing, Forking, Published, Workers, Indices, Pending, NotifyCaller, Goto, shared, locals, history
    <2>6. CountInv'
      BY <1>8, <2>5, CountKept DEF IInv, SeqInv, NotifyCaller, Goto, shared
    <2> QED
      BY <2>1, <2>2, <2>3, <2>4, <2>6 DEF IInv
  <1> QED
    BY <1>1, <1>2, <1>3, <1>4, <1>5, <1>6, <1>7, <1>8 DEF WorkerStep

LEMMA NextIInv == IInv /\ [Next]_vars => IInv'
  <1> SUFFICES ASSUME IInv, [Next]_vars PROVE IInv'
    OBVIOUS
  <1>1. CASE UNCHANGED vars
    <2>1. Pending' = Pending
      BY <1>1 DEF vars, locals, history, Pending, Published
    <2> QED
      BY <1>1, <2>1 DEF vars, shared, locals, history, IInv, TypeOK, SeqInv, PointerInv,
         WorkerInv, WorkerOK, CallerInv, CountInv, NoLostWakeup, WaitedSeq, Published
  <1> QED
    BY <1>1, CallerPreserves, WorkerPreserves DEF Next, Terminated

-----------------------------------------------------------------------------
(* The theorems.                                                           *)

\* The inductive invariant holds in every reachable state.
THEOREM Invariance == Spec => []IInv
  BY InitIInv, NextIInv, PTL DEF Spec

\* The types, of which the one that could be wrong is that the unsigned
\* running_workers_ never goes below zero.
THEOREM TypeCorrect == Spec => []TypeOK
  BY Invariance, PTL DEF IInv

\* No notification is lost, in either build and for any pool size.
THEOREM WakeupsKept == Spec => []NoLostWakeup
  BY Invariance, PTL DEF IInv

\* The plain pointer currentTask is never read while the caller writes it.
THEOREM PointerRaceFree == Spec => []TaskPointerRaceFree
  <1>1. IInv => TaskPointerRaceFree
    BY DEF IInv, WorkerInv, WorkerOK, TaskPointerRaceFree, Forking
  <1> QED
    BY <1>1, Invariance, PTL

\* A worker only calls through the Task object of the call in progress.
THEOREM TaskAlive == Spec => []TaskObjectAlive
  <1>1. IInv => TaskObjectAlive
    BY DEF IInv, WorkerInv, WorkerOK, TaskObjectAlive, Forking, Executing
  <1> QED
    BY <1>1, Invariance, PTL

\* Between calls every index has run its share of every call so far.
LEMMA SharesDone ==
  ASSUME IInv, caller \notin Forking, caller \notin {"set", "add", "publish"}
  PROVE  \A i \in Indices : execs[i] = calls
  BY ThreadCountRange DEF IInv, WorkerInv, WorkerOK, CallerInv, Published, Workers, Indices, Forking

\* The pool implements the abstract fork and join: the caller's call is the
\* fork, running a share a Share step, clearing the task the join, and every
\* other step is internal.
THEOREM ForkJoinRefined == Spec => IsForkJoin
  <1> USE DEF FJ!fjvars, Executing
  <1>1. Init => FJ!Init
    BY ThreadCountRange DEF Init, FJ!Init, Indices
  <1>2. IInv /\ [Next]_vars => [FJ!Next]_(FJ!fjvars)
    <2> SUFFICES ASSUME IInv, [Next]_vars PROVE [FJ!Next]_(FJ!fjvars)
      OBVIOUS
    <2>1. CASE Execute
      <3>1. \A i \in Indices : execs[i] = calls
        BY <2>1, SharesDone DEF Execute, Forking
      <3>2. FJ!Fork
        BY <2>1, <3>1 DEF FJ!Fork, Execute, IInv, TypeOK
      <3> QED
        BY <3>2 DEF FJ!Next
    <2>2. CASE OwnShare
      <3>1. FJ!Share(0)
        BY <2>2, ThreadCountRange
        DEF FJ!Share, OwnShare, IInv, TypeOK, SeqInv, CallerInv, Indices, history
      <3> QED
        BY <3>1, ThreadCountRange DEF FJ!Next, Indices
    <2>3. ASSUME NEW w \in Workers, RunShare(w) PROVE FJ!Next
      <3>1. w \in Indices /\ execs[w] = calls - 1 /\ calls \in Nat /\ caller \in Forking
        BY <2>3, IndexSets
        DEF IInv, TypeOK, WorkerInv, WorkerOK, RunShare, Published, Forking
      <3>2. FJ!Share(w)
        BY <2>3, <3>1 DEF FJ!Share, RunShare, IInv, TypeOK, Indices, Forking
      <3> QED
        BY <3>1, <3>2 DEF FJ!Next
    <2>4. CASE ClearTask
      <3>1. \A i \in Indices : execs[i] = calls
        BY <2>4, SharesDone DEF ClearTask, Forking
      <3>2. FJ!Join
        BY <2>4, <3>1 DEF FJ!Join, ClearTask, history
      <3> QED
        BY <3>2 DEF FJ!Next
    <2>5. CASE DestroyJoin
      <3>1. FJ!Stop
        BY <2>5 DEF FJ!Stop, DestroyJoin, history
      <3> QED
        BY <3>1 DEF FJ!Next
    <2> DEFINE Internal == /\ UNCHANGED history
                           /\ (caller \in Executing) = (caller' \in Executing)
                           /\ (caller = "stopped") = (caller' = "stopped")
    <2>6. CASE Internal
      BY <2>6 DEF history
    <2>7. CASE CallerStep \/ CallerChoice
      <3>1. Internal \/ Execute \/ OwnShare \/ ClearTask \/ DestroyJoin
        BY <2>7
        DEF CallerStep, CallerChoice, Spawn, BeginActiveScope, BeginNotify, EndActiveScope,
            SetTask, AddRunning, Publish, PublishNotify, WaitForRunning, JoinLoad, Destroy,
            DestroyWake, DestroyNotify, history
      <3> QED
        BY <3>1, <2>1, <2>2, <2>4, <2>5, <2>6
    <2>8. ASSUME NEW w \in Workers, WorkerStep(w) PROVE Internal \/ RunShare(w)
      BY <2>8 DEF WorkerStep, WorkerInit, CheckAvailable, WaitForSeq, LoadSeq, ReadTask,
         FinishShare, NotifyCaller, history
    <2> QED
      BY <2>3, <2>6, <2>7, <2>8 DEF Next, Terminated, vars, history
  <1> QED
    BY <1>1, <1>2, Invariance, PTL DEF Spec, IsForkJoin, FJ!Spec
=============================================================================
