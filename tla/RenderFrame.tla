----------------------------- MODULE RenderFrame -----------------------------
(***************************************************************************)
(* One renderer drawing frame after frame: Render of                       *)
(* modules/gfx/src/renderer/render.cc with RenderState::UpdateCommon and   *)
(* ::Update, PerformRender, the vertex writers and the translucent proxy   *)
(* buffer.  The executor is taken at its contract (ForkJoin): Execute      *)
(* starts every worker and returns when all are done.  The schedule is     *)
(* taken at its contract (Schedule): task w of a kind is TaskRange of its  *)
(* groups, the ranges tile the buffer, the owner of a bone is the worker   *)
(* whose TaskRange of the visible bones holds it.                          *)
(*                                                                         *)
(* Matrices, colours and vertices are abstracted to what they are made     *)
(* from: a bone state knows whether it was computed in this frame and its  *)
(* result, a quad of a buffer whether this frame drew or zeroed it.  At    *)
(* the start of a frame everything kept from earlier frames is "old".      *)
(***************************************************************************)
EXTENDS TaskRange, Sequences, FiniteSets

CONSTANTS
  Workers,      \* GetThreadCount()
  BoneCount,    \* visible bones, numbered from 0 in render order
  Groups,       \* for each kind, its cube groups: [bone, quads, culled]
  Depths        \* depth sort keys of quads with a finite depth

KindOrder == <<"cutout", "cutout_no_culling", "translucent", "translucent_culling">>
Kinds     == {KindOrder[i] : i \in 1 .. 4}
Culling   == {"cutout", "translucent_culling"}
Opaque    == {"cutout", "cutout_no_culling"}
Modes     == {"Inline", "SerialLateWake", "SerialPrewake", "WorkerReadySpin"}
Results   == {"Success", "OutputRejected", "StateInvalid"}

Bones  == 0 .. BoneCount - 1
Invalid == 9     \* kInvalidDepthSortKey: above every key of a finite depth

ASSUME WorkersAssumption   == Workers \in 2 .. 8
ASSUME BoneCountAssumption == BoneCount \in Nat
ASSUME GroupsAssumption    == Groups \in [Kinds -> Seq([bone : Bones, quads : Nat, culled : Nat])]
ASSUME DepthsAssumption    == Depths \subseteq 1 .. Invalid - 1

VARIABLES
  \* the call: mode of the schedule, what each bone's matrices lead to, the
  \* check that fails before any bone is updated, whether quads are sorted
  mode, fault, early, sorted,
  \* the caller
  cpc, result, status, scope,
  \* the thread_local RenderState
  bone_states, ready_flags,
  \* the vertex buffer, the global proxy buffer and its depth keys
  out, proxy, keys,
  \* the workers: place, next item, kind, quads written, result so far
  pc, next, kind, quad_ptr, worker_results, ready_mask

call   == <<mode, fault, early, sorted>>
caller == <<cpc, result, status, scope>>
buffers == <<out, proxy, keys>>
worker == <<pc, next, kind, quad_ptr, worker_results, ready_mask>>
vars   == <<call, caller, bone_states, ready_flags, buffers, worker>>

-----------------------------------------------------------------------------
(* The layout the schedule promises, in quads.                             *)

TaskCount == IF mode = "Inline" THEN 1 ELSE Workers
Active    == 0 .. TaskCount - 1
Ids       == 0 .. Workers - 1

QuadsOf(k, i) == IF k \in Culling THEN Groups[k][i + 1].culled ELSE Groups[k][i + 1].quads

QuadsFrom(k, a, b) ==    \* of the groups a .. b - 1 of a kind
  LET sum[n \in 0 .. b] == IF n <= a THEN 0 ELSE sum[n - 1] + QuadsOf(k, n - 1)
  IN  sum[b]

Total(k)       == QuadsFrom(k, 0, Len(Groups[k]))
First(w, k)    == Split(w, TaskCount, Len(Groups[k]))
End(w, k)      == Split(w + 1, TaskCount, Len(Groups[k]))
Expected(w, k) == QuadsFrom(k, First(w, k), End(w, k))
Offset(w, k)   == QuadsFrom(k, 0, First(w, k)) +
                  (CASE k = "cutout_no_culling" -> Total("cutout")
                     [] k = "translucent_culling" -> Total("translucent")
                     [] OTHER -> 0)

OpaqueQuads      == Total("cutout") + Total("cutout_no_culling")
TranslucentQuads == Total("translucent") + Total("translucent_culling")

Owner(b) == CHOOSE w \in Active : b \in TaskRange(w, TaskCount, BoneCount)

-----------------------------------------------------------------------------

MergeRenderResultLast(accumulated, current) == current           \* mutant
MergeRenderResult(accumulated, current) ==
  IF "StateInvalid" \in {accumulated, current} THEN "StateInvalid"
  ELSE IF "OutputRejected" \in {accumulated, current} THEN "OutputRejected"
  ELSE "Success"

\* The result of bones updated one after the other.
UpdateResult(bs) ==
  IF \E b \in bs : fault[b] = "StateInvalid" THEN "StateInvalid"
  ELSE IF \E b \in bs : fault[b] = "OutputRejected" THEN "OutputRejected"
  ELSE "Success"

FreshBone(b) == [fresh |-> TRUE, result |-> fault[b]]

Init ==
  /\ mode = "Inline" /\ fault = [b \in Bones |-> "Success"] /\ early = "none" /\ sorted = TRUE
  /\ cpc = "idle" /\ result = "Success" /\ status = "none" /\ scope = FALSE
  /\ bone_states = [b \in Bones |-> [fresh |-> FALSE, result |-> "Success"]]
  /\ ready_flags = [w \in Ids |-> FALSE]
  /\ out = [q \in 1 .. OpaqueQuads + TranslucentQuads |-> "old"]
  /\ proxy = [q \in 1 .. TranslucentQuads |-> "old"]
  /\ keys = [q \in 1 .. TranslucentQuads |-> 0]
  /\ pc = [w \in Ids |-> "out"]
  /\ next = [w \in Ids |-> 0] /\ kind = [w \in Ids |-> 1] /\ quad_ptr = [w \in Ids |-> 0]
  /\ worker_results = [w \in Ids |-> "Success"]
  /\ ready_mask = [w \in Ids |-> {}]

\* Render returns; its scope, if it holds one, ends with it.
Return(r) ==
  /\ cpc' = "idle"
  /\ result' = r
  /\ status' = IF r = "Success" THEN "ok" ELSE "error"
  /\ scope' = FALSE

\* A call that a check rejects never looks at its bones.
Render(m, f, e, s) ==
  /\ cpc = "idle"
  /\ e # "none" => f = [b \in Bones |-> "Success"] /\ s
  /\ mode' = m /\ fault' = f /\ early' = e /\ sorted' = s
  /\ cpc' = "checks" /\ result' = "StateInvalid" /\ status' = "none"
  /\ bone_states' = [b \in Bones |-> [bone_states[b] EXCEPT !.fresh = FALSE]]
  /\ out' = [q \in DOMAIN out |-> "old"]
  /\ proxy' = [q \in DOMAIN proxy |-> "old"]
  /\ keys' = [q \in DOMAIN keys |-> 0]
  /\ UNCHANGED <<scope, ready_flags, worker>>

\* An invalid ModelState, then a vertex buffer that is too small or a matrix
\* that is not finite.
RejectCall ==
  /\ cpc = "checks"
  /\ early \in {"state", "input"}
  /\ Return(IF early = "state" THEN "StateInvalid" ELSE "OutputRejected")
  /\ UNCHANGED <<call, bone_states, ready_flags, buffers, worker>>

ClearedFlagsKept == ready_flags                                  \* mutant
ClearedFlags == [w \in Ids |-> FALSE]

\* UpdateCommon; its last check may still reject the composed matrices.
UpdateCommon ==
  /\ cpc = "checks"
  /\ early \in {"none", "composition"}
  /\ ready_flags' = IF mode = "WorkerReadySpin" THEN ClearedFlags ELSE ready_flags
  /\ IF early = "composition"
     THEN Return("OutputRejected")
     ELSE /\ cpc' = "update" /\ result' = "StateInvalid"
          /\ scope' = (mode = "SerialPrewake")
          /\ UNCHANGED status
  /\ UNCHANGED <<call, bone_states, buffers, worker>>

\* All modes but one update every bone before the workers start.
SerialUpdate ==
  /\ cpc = "update"
  /\ mode # "WorkerReadySpin"
  /\ bone_states' = [b \in Bones |-> FreshBone(b)]
  /\ IF UpdateResult(Bones) = "Success"
     THEN cpc' = "wake" /\ result' = "Success" /\ UNCHANGED <<status, scope>>
     ELSE Return(UpdateResult(Bones))
  /\ UNCHANGED <<call, ready_flags, buffers, worker>>

SkipUpdate ==
  /\ cpc = "update"
  /\ mode = "WorkerReadySpin"
  /\ cpc' = "wake"
  /\ UNCHANGED <<call, result, status, scope, bone_states, ready_flags, buffers, worker>>

NeedsScope == ~scope /\ mode # "Inline"

LateWake ==
  /\ cpc = "wake"
  /\ scope' = (scope \/ NeedsScope)
  /\ cpc' = "fork"
  /\ UNCHANGED <<call, result, status, bone_states, ready_flags, buffers, worker>>

\* Execute, or task_func(0, 1) on this thread for kInline.
Fork ==
  /\ cpc = "fork"
  /\ cpc' = "join"
  /\ pc' = [w \in Ids |-> IF w \notin Active THEN "out"
                          ELSE IF mode = "WorkerReadySpin" THEN "update" ELSE "partition"]
  /\ next' = [w \in Ids |-> IF w \in Active THEN Split(w, TaskCount, BoneCount) ELSE 0]
  /\ kind' = [w \in Ids |-> 1]
  /\ quad_ptr' = [w \in Ids |-> 0]
  /\ worker_results' = [w \in Ids |-> "Success"]
  /\ ready_mask' = [w \in Ids |-> {}]
  /\ UNCHANGED <<call, result, status, scope, bone_states, ready_flags, buffers>>

Merged ==
  LET merge[n \in 0 .. TaskCount] ==
        IF n = 0 THEN "Success" ELSE MergeRenderResult(merge[n - 1], worker_results[n - 1])
  IN  merge[TaskCount]

\* Execute returned: merge the result slots; the workers' locals are gone.
Join ==
  /\ cpc = "join"
  /\ \A w \in Active : pc[w] = "done"
  /\ IF Merged = "Success"
     THEN cpc' = "flush" /\ result' = "Success" /\ UNCHANGED <<status, scope>>
     ELSE Return(Merged)
  /\ pc' = [w \in Ids |-> "out"]
  /\ next' = [w \in Ids |-> 0] /\ kind' = [w \in Ids |-> 1] /\ quad_ptr' = [w \in Ids |-> 0]
  /\ worker_results' = [w \in Ids |-> "Success"]
  /\ ready_mask' = [w \in Ids |-> {}]
  /\ UNCHANGED <<call, bone_states, ready_flags, buffers>>

\* Positions in the order of (depth key, vertex offset).
Rank(q) == Cardinality({p \in DOMAIN keys :
                          keys[p] < keys[q] \/ (keys[p] = keys[q] /\ p < q)}) + 1
NeverSorted(q) == q                                              \* mutant
Place(q) == IF sorted THEN Rank(q) ELSE q

Flush ==
  /\ cpc = "flush"
  /\ LET from == [i \in DOMAIN keys |-> CHOOSE q \in DOMAIN keys : Place(q) = i] IN
     /\ out' = [q \in DOMAIN out |-> IF q <= OpaqueQuads THEN out[q]
                                     ELSE proxy[from[q - OpaqueQuads]]]
     /\ keys' = [i \in DOMAIN keys |-> keys[from[i]]]
  /\ Return("Success")
  /\ UNCHANGED <<call, bone_states, ready_flags, proxy, worker>>

-----------------------------------------------------------------------------
(* run_worker on worker w.                                                 *)

\* RenderState::Update, one bone at a time.
UpdateBone(w) ==
  /\ pc[w] = "update"
  /\ IF next[w] < Split(w + 1, TaskCount, BoneCount)
     THEN /\ bone_states' = [bone_states EXCEPT ![next[w]] = FreshBone(next[w])]
          /\ worker_results' = [worker_results EXCEPT ![w] =
                                  IF @ = "StateInvalid" \/ fault[next[w]] = "Success"
                                  THEN @ ELSE fault[next[w]]]
          /\ next' = [next EXCEPT ![w] = @ + 1]
          /\ UNCHANGED pc
     ELSE pc' = [pc EXCEPT ![w] = "publish"] /\ UNCHANGED <<bone_states, worker_results, next>>
  /\ UNCHANGED <<call, caller, ready_flags, buffers, kind, quad_ptr, ready_mask>>

PublishesSuccessOnly(w) == worker_results[w] = "Success"         \* mutant
Publishes(w) == TRUE

PublishWorkerReady(w) ==
  /\ pc[w] = "publish"
  /\ ready_flags' = [ready_flags EXCEPT ![w] = Publishes(w)]
  /\ pc' = [pc EXCEPT ![w] = IF worker_results[w] = "Success" THEN "partition" ELSE "done"]
  /\ UNCHANGED <<call, caller, bone_states, buffers>>
  /\ UNCHANGED <<next, kind, quad_ptr, worker_results, ready_mask>>

K(w) == KindOrder[kind[w]]

\* The next partition of the task: skipped when it has nothing to draw.
StartPartition(w) ==
  /\ pc[w] = "partition"
  /\ IF kind[w] > 4
     THEN pc' = [pc EXCEPT ![w] = "done"] /\ UNCHANGED <<next, kind, quad_ptr>>
     ELSE IF Expected(w, K(w)) = 0
     THEN kind' = [kind EXCEPT ![w] = @ + 1] /\ UNCHANGED <<pc, next, quad_ptr>>
     ELSE /\ next' = [next EXCEPT ![w] = First(w, K(w))]
          /\ quad_ptr' = [quad_ptr EXCEPT ![w] = 0]
          /\ pc' = [pc EXCEPT ![w] = "wait"]
          /\ UNCHANGED kind
  /\ UNCHANGED <<call, caller, bone_states, ready_flags, buffers, worker_results, ready_mask>>

BoneOf(w) == Groups[K(w)][next[w] + 1].bone

MayRead(w) ==
  \/ mode # "WorkerReadySpin"
  \/ Owner(BoneOf(w)) \in ready_mask[w]
  \/ ready_flags[Owner(BoneOf(w))]

\* waiter.Wait(bone): spins until the owner of the bone is ready.  Every bone
\* that is drawn is visible and has one of the workers for its owner, see
\* OwnersMatchUpdate of Schedule, so the two returns of Wait that would fail the
\* worker for a bone or an owner out of range have no step.
Wait(w) ==
  /\ pc[w] = "wait"
  /\ next[w] < End(w, K(w))
  /\ MayRead(w)
  /\ ready_mask' = [ready_mask EXCEPT ![w] =
                      IF mode = "WorkerReadySpin" THEN @ \cup {Owner(BoneOf(w))} ELSE @]
  /\ pc' = [pc EXCEPT ![w] = "draw"]
  /\ UNCHANGED <<call, caller, bone_states, ready_flags, buffers>>
  /\ UNCHANGED <<next, kind, quad_ptr, worker_results>>

\* Quads a .. b - 1 of the partition of w hold content, with depth keys.
Fill(w, a, b, content, key) ==
  LET k == K(w)
      base == Offset(w, k)
      In(q) == q \in base + a + 1 .. base + b
  IN  IF k \in Opaque
      THEN /\ out' = [q \in DOMAIN out |-> IF In(q) THEN content ELSE out[q]]
           /\ UNCHANGED <<proxy, keys>>
      ELSE /\ proxy' = [q \in DOMAIN proxy |-> IF In(q) THEN content ELSE proxy[q]]
           /\ keys' = [q \in DOMAIN keys |-> IF In(q) THEN key ELSE keys[q]]
           /\ UNCHANGED out

\* How many quads of the next group are emitted: with culling, those turned
\* to the viewer, at most as many as the schedule reserved.
Emitted(w) ==
  LET all == QuadsOf(K(w), next[w]) IN IF K(w) \in Culling THEN 0 .. all ELSE {all}

\* Transform and emit one group.
Draw(w, n, key) ==
  /\ bone_states[BoneOf(w)].result = "Success"
  /\ Fill(w, quad_ptr[w], quad_ptr[w] + n, "drawn", key)
  /\ quad_ptr' = [quad_ptr EXCEPT ![w] = @ + n]
  /\ next' = [next EXCEPT ![w] = @ + 1]
  /\ pc' = [pc EXCEPT ![w] = "wait"]
  /\ UNCHANGED <<call, caller, bone_states, ready_flags, kind, worker_results, ready_mask>>

\* The vertex writer's destructor zeroes the quads that were not written.
ZeroedNone(w) == quad_ptr[w]                                     \* mutant
ZeroedTo(w) == Expected(w, K(w))

EndPartition(w, r) ==
  /\ Fill(w, quad_ptr[w], ZeroedTo(w), "zero", Invalid)
  /\ worker_results' = [worker_results EXCEPT ![w] = MergeRenderResult(@, r)]
  /\ kind' = [kind EXCEPT ![w] = @ + 1]
  /\ pc' = [pc EXCEPT ![w] = "partition"]
  /\ UNCHANGED <<call, caller, bone_states, ready_flags, next, quad_ptr, ready_mask>>

\* PerformRender returns: all groups drawn, or a bone that failed its update.
Drawn(w) ==
  /\ pc[w] = "wait"
  /\ next[w] = End(w, K(w))
  /\ EndPartition(w, "Success")

BoneFailed(w) ==
  /\ pc[w] = "draw"
  /\ bone_states[BoneOf(w)].result # "Success"
  /\ EndPartition(w, bone_states[BoneOf(w)].result)

WorkerStep(w) ==
  \/ UpdateBone(w) \/ PublishWorkerReady(w) \/ StartPartition(w) \/ Wait(w)
  \/ pc[w] = "draw" /\ \E n \in Emitted(w), key \in Depths \cup {Invalid} : Draw(w, n, key)
  \/ Drawn(w) \/ BoneFailed(w)

CallerStep ==
  \/ RejectCall \/ UpdateCommon \/ SerialUpdate \/ SkipUpdate \/ LateWake
  \/ Fork \/ Join \/ Flush

Next ==
  \/ \E m \in Modes, f \in [Bones -> Results], s \in BOOLEAN,
        e \in {"none", "state", "input", "composition"} : Render(m, f, e, s)
  \/ CallerStep
  \/ \E w \in Ids : WorkerStep(w)

\* The caller and every thread of the executor keep running.
Spec == /\ Init /\ [][Next]_vars
        /\ WF_vars(CallerStep)
        /\ \A w \in Ids : WF_vars(WorkerStep(w))

-----------------------------------------------------------------------------
(* Properties.                                                             *)

\* A worker reads a bone only after its owner computed it in this frame:
\* never one that is still being written, never the one of an earlier frame,
\* although flags and bone states live on from frame to frame.
DrawsFreshBones ==
  \A w \in Ids : pc[w] = "draw" => bone_states[BoneOf(w)].fresh

\* Done: Render returned and was not stopped by a check.
Returned == cpc = "idle" /\ status # "none"

\* When Render reports success, this frame wrote every quad of the buffer,
\* opaque and translucent, and every depth key it sorted by.
SuccessIsComplete ==
  Returned /\ status = "ok" =>
    /\ \A q \in DOMAIN out : out[q] # "old"
    /\ \A q \in DOMAIN keys : keys[q] # 0

\* The outcome depends on the input alone, not on the mode or on who met the
\* bad bone first: an invalid state outweighs a rejected output.
OutcomeIsDeterministic ==
  Returned =>
    result = CASE early = "state" -> "StateInvalid"
               [] early \in {"input", "composition"} -> "OutputRejected"
               [] OTHER -> UpdateResult(Bones)

\* Translucent quads come out from far to near, the zeroed ones last.
FarToNear ==
  Returned /\ status = "ok" /\ sorted =>
    /\ \A p, q \in DOMAIN keys : p < q => keys[p] <= keys[q]
    /\ \A q \in DOMAIN keys : keys[q] # Invalid => out[OpaqueQuads + q] = "drawn"

\* Render returns although workers spin on each other's flags.
RenderReturns == cpc = "checks" ~> cpc = "idle"
=============================================================================
