------------------------------ MODULE Schedule ------------------------------
(***************************************************************************)
(* RenderSchedule::Update of modules/gfx/src/renderer/schedule.cc.  One    *)
(* RenderSchedule object is updated again and again, for other models,     *)
(* other visible bones and other worker counts, and keeps whatever an      *)
(* update does not overwrite.  A step is one iteration of one of its loops.*)
(*                                                                         *)
(* A cube group is named <<bone, position>>, standing for its entry in     *)
(* cube_indices; a model gives each bone, for each kind of partition, the  *)
(* sequence of its groups with their quad counts (the code keeps running   *)
(* sums of these counts in cube_group_info and subtracts two of them).     *)
(***************************************************************************)
EXTENDS TaskRange, Sequences

CONSTANTS
  Models,          \* the models: sequences of bones
  RenderLists,     \* the lists of visible bones
  WorkerCounts,    \* the worker counts
  MaxUpdates,      \* bound on the number of updates
  MaxUint32,       \* numeric_limits<uint32_t>::max()
  kMaxWorkerReadyWorkers,
  kBonesPerReadyWorker   \* 32 in the code

KindOrder == <<"cutout", "cutout_no_culling", "translucent", "translucent_culling">>
Kinds     == {KindOrder[i] : i \in 1 .. 4}
Culling   == {"cutout", "translucent_culling"}
Opaque    == {"cutout", "cutout_no_culling"}

Groups == [quads : Nat, culled : Nat]

ASSUME ModelsAssumption       == Models \subseteq Seq([Kinds -> Seq(Groups)])
\* Extract lists the bones as it walks the hierarchy: none twice.
ASSUME RenderListsAssumption  ==
  \A r \in RenderLists : r \in Seq(Nat) /\ \A i, j \in 1 .. Len(r) : r[i] = r[j] => i = j
\* Update returns an error for no workers and for more than UINT16_MAX + 1.
ASSUME WorkerCountsAssumption == \A n \in WorkerCounts : n \in Nat /\ 1 <= n /\ n <= 65536
ASSUME LimitsAssumption       == /\ MaxUpdates \in Nat /\ MaxUint32 \in Nat
                                 /\ kMaxWorkerReadyWorkers \in 1 .. 255
                                 /\ kBonesPerReadyWorker \in Nat

NoOwner == 255     \* UINT8_MAX

VARIABLES
  \* the arguments of the update in progress
  model, render, workers,
  \* the RenderSchedule
  vertex_count, translucent_vertex_count, translucent_vertex_offset,
  mode, tasks, bone_update_owners,
  \* locals of Update
  at, group_counts, cursor, render_index, kind, group_begin, bone_worker,
  opaque_vertex_count, translucent_vertex_count64,
  \* history
  status, updates

args     == <<model, render, workers>>
counts   == <<vertex_count, translucent_vertex_count, translucent_vertex_offset>>
schedule == <<counts, mode, tasks, bone_update_owners>>
offsets  == <<opaque_vertex_count, translucent_vertex_count64>>
locals   == <<group_counts, cursor, render_index, kind, group_begin, bone_worker, offsets>>
vars     == <<args, schedule, at, locals, status, updates>>

EmptyPartition == [cube_indices |-> <<>>, vertex_offset |-> 0, expected_vertex_count |-> 0]
EmptyTask      == [k \in Kinds |-> EmptyPartition]

InlineThresholdFor(n) ==
  IF n = 2 THEN [bones |-> 4, cube_groups |-> 6]
  ELSE IF n < 7 THEN [bones |-> 6, cube_groups |-> 6]
  ELSE [bones |-> 6, cube_groups |-> 8]

DetermineRenderSchedulingMode(n, bones, cube_groups) ==
  IF \/ n <= 1
     \/ /\ bones <= InlineThresholdFor(n).bones
        /\ cube_groups <= InlineThresholdFor(n).cube_groups
  THEN "Inline"
  ELSE IF n <= kMaxWorkerReadyWorkers /\ bones >= n * kBonesPerReadyWorker
  THEN "WorkerReadySpin"
  ELSE IF n <= 3 THEN "SerialLateWake" ELSE "SerialPrewake"

\* Tasks the update fills: all of them, or the first one for kInline.
TasksForAll(md) == workers                                       \* mutant
TasksFor(md) == IF md = "Inline" THEN 1 ELSE workers
ScheduledTasks == TasksFor(mode)

SumUpTo(f, n) ==
  LET sum[i \in 0 .. n] == IF i = 0 THEN 0 ELSE sum[i - 1] + f[i] IN sum[n]

QuadsOf(k, g) == IF k \in Culling THEN g.culled ELSE g.quads

\* The uint32_t product of VertexCount, for positions b + 1 .. e of a bone.
VertexCountFromFirst(k, groups, b, e) ==                         \* mutant
  4 * SumUpTo([i \in 1 .. e |-> QuadsOf(k, groups[i])], e)
VertexCount(k, groups, b, e) ==
  (4 * SumUpTo([i \in 1 .. e - b |-> QuadsOf(k, groups[b + i])], e - b)) % (MaxUint32 + 1)

\* The quads of one bone stay far below 2^30 (each takes memory of its own),
\* so that the product above does not wrap.
ASSUME BoneSizeAssumption ==
  \A m \in Models : \A b \in 1 .. Len(m) : \A k \in Kinds :
    4 * SumUpTo([i \in 1 .. Len(m[b][k]) |-> QuadsOf(k, m[b][k][i])], Len(m[b][k])) <= MaxUint32

Kind   == KindOrder[kind]
Bone   == render[render_index + 1]
Source == model[Bone + 1][Kind]      \* the groups of the bone being appended

Init ==
  /\ model = <<>> /\ render = <<>> /\ workers = 1
  /\ vertex_count = 0 /\ translucent_vertex_count = 0 /\ translucent_vertex_offset = 0
  /\ mode = "Inline" /\ tasks = <<>> /\ bone_update_owners = <<>>
  /\ at = "idle"
  /\ group_counts = [k \in Kinds |-> 0]
  /\ cursor = [k \in Kinds |-> [worker |-> 0, scheduled |-> 0, task_end |-> 0]]
  /\ render_index = 0 /\ kind = 1 /\ group_begin = 0 /\ bone_worker = 0
  /\ opaque_vertex_count = 0 /\ translucent_vertex_count64 = 0
  /\ status = "none" /\ updates = 0

-----------------------------------------------------------------------------

Fail ==
  /\ status' = "error"
  /\ at' = "idle"
  /\ UNCHANGED <<args, schedule, locals, updates>>

Update(m, r, n) ==
  /\ at = "idle"
  /\ updates < MaxUpdates
  /\ model' = m /\ render' = r /\ workers' = n
  /\ vertex_count' = 0 /\ translucent_vertex_count' = 0 /\ translucent_vertex_offset' = 0
  /\ group_counts' = [k \in Kinds |-> 0]
  /\ render_index' = 0
  /\ at' = "count"
  /\ status' = "none"
  /\ updates' = updates + 1
  /\ UNCHANGED <<mode, tasks, bone_update_owners>>
  /\ UNCHANGED <<cursor, kind, group_begin, bone_worker, offsets>>

\* First loop over the visible bones: validate and count.  A bone's one list
\* of groups of a kind stands for its cube_group_info and its cube_indices;
\* that they are as long in every baked or read model is checked of BakedModel,
\* so the update that finds them unequal has no step.
CountBone ==
  /\ at = "count"
  /\ render_index < Len(render)
  /\ IF Bone >= Len(model)
     THEN Fail
     ELSE /\ group_counts' = [k \in Kinds |-> group_counts[k] + Len(model[Bone + 1][k])]
          /\ render_index' = render_index + 1
          /\ UNCHANGED <<args, schedule, at, status, updates>>
          /\ UNCHANGED <<cursor, kind, group_begin, bone_worker, offsets>>

CubeGroupCount ==
  group_counts["cutout"] + group_counts["cutout_no_culling"]
    + group_counts["translucent"] + group_counts["translucent_culling"]

\* Mode, task slots, the four cursors (each moved to task 0) and the owners.
Prepare ==
  /\ at = "count"
  /\ render_index = Len(render)
  /\ mode' = DetermineRenderSchedulingMode(workers, Len(render), CubeGroupCount)
  /\ tasks' = [w \in 1 .. workers |->
                 IF w = 1 \/ w > Len(tasks) THEN EmptyTask ELSE tasks[w]]
  /\ cursor' = [k \in Kinds |->
                  [worker    |-> 0, scheduled |-> 0,
                   task_end  |-> Split(1, TasksFor(mode'), group_counts[k])]]
  /\ bone_update_owners' = IF mode' = "WorkerReadySpin"
                           THEN [b \in 1 .. Len(model) |-> NoOwner] ELSE <<>>
  /\ bone_worker' = 0
  /\ render_index' = 0
  /\ at' = "bone"
  /\ UNCHANGED <<args, counts, status, updates, group_counts, kind, group_begin, offsets>>

BoneWorkerEndCeil ==                                             \* mutant
  (bone_worker + 1) * ((Len(render) + workers - 1) \div workers)
BoneWorkerEnd == Split(bone_worker + 1, workers, Len(render))
BoneWorkerDone ==
  render_index >= BoneWorkerEnd /\ bone_worker + 1 < workers

\* The while loop that finds the worker whose range holds render_index.
NextBoneWorker ==
  /\ at = "bone"
  /\ render_index < Len(render)
  /\ mode = "WorkerReadySpin"
  /\ BoneWorkerDone
  /\ bone_worker' = bone_worker + 1
  /\ UNCHANGED <<args, schedule, at, status, updates>>
  /\ UNCHANGED <<group_counts, cursor, render_index, kind, group_begin, offsets>>

StartBone ==
  /\ at = "bone"
  /\ render_index < Len(render)
  /\ IF mode = "WorkerReadySpin"
     THEN /\ ~BoneWorkerDone
          /\ bone_update_owners' = [bone_update_owners EXCEPT ![Bone + 1] = bone_worker]
     ELSE UNCHANGED bone_update_owners
  /\ kind' = 1
  /\ group_begin' = 0
  /\ at' = "append"
  /\ UNCHANGED <<args, counts, mode, tasks, status, updates>>
  /\ UNCHANGED <<group_counts, cursor, render_index, bone_worker, offsets>>

-----------------------------------------------------------------------------
(* PartitionCursor, one for each kind.                                     *)

CursorDone == cursor[Kind].scheduled >= cursor[Kind].task_end
CanMoveEarlyStop == cursor[Kind].worker + 2 < ScheduledTasks     \* mutant
CanMove    == cursor[Kind].worker + 1 < ScheduledTasks

\* Move: the next task starts empty and ends where its range does.
Move ==
  /\ at = "append"
  /\ group_begin < Len(Source)
  /\ CursorDone /\ CanMove
  /\ LET w == cursor[Kind].worker + 1 IN
     /\ cursor' = [cursor EXCEPT
          ![Kind].worker = w,
          ![Kind].task_end = Split(w + 1, ScheduledTasks, group_counts[Kind])]
     /\ tasks' = [tasks EXCEPT ![w + 1][Kind] = EmptyPartition]
  /\ UNCHANGED <<args, counts, mode, bone_update_owners, at, status, updates>>
  /\ UNCHANGED <<group_counts, render_index, kind, group_begin, bone_worker, offsets>>

\* How many groups of the bone go to the current task.
TakeSome ==
  LET left == Len(Source) - group_begin
      room == cursor[Kind].task_end - cursor[Kind].scheduled
  IN  IF left < room THEN left ELSE room

NoOverflow(added, expected) == added <= MaxUint32 - expected

AppendGroups ==
  /\ at = "append"
  /\ group_begin < Len(Source)
  /\ ~(CursorDone /\ CanMove)
  /\ LET slot  == cursor[Kind].worker + 1
         end   == group_begin + TakeSome
         added == VertexCount(Kind, Source, group_begin, end)
         old   == tasks[slot][Kind]
     IN  IF CursorDone \/ ~NoOverflow(added, old.expected_vertex_count)
         THEN Fail
         ELSE /\ tasks' = [tasks EXCEPT ![slot][Kind].cube_indices = @ \o
                             [i \in 1 .. TakeSome |-> <<Bone, group_begin + i - 1>>],
                           ![slot][Kind].expected_vertex_count = @ + added]
              /\ cursor' = [cursor EXCEPT ![Kind].scheduled = @ + TakeSome]
              /\ group_begin' = end
              /\ UNCHANGED <<args, counts, mode, bone_update_owners, at, status, updates>>
              /\ UNCHANGED <<group_counts, render_index, kind, bone_worker, offsets>>

\* Append returned: the next kind, or the next bone.
Appended ==
  /\ at = "append"
  /\ group_begin = Len(Source)
  /\ IF kind < 4
     THEN kind' = kind + 1 /\ UNCHANGED <<at, render_index>>
     ELSE at' = "bone" /\ render_index' = render_index + 1 /\ UNCHANGED kind
  /\ group_begin' = 0
  /\ UNCHANGED <<args, schedule, status, updates>>
  /\ UNCHANGED <<group_counts, cursor, bone_worker, offsets>>

StartFinish ==
  /\ at = "bone"
  /\ render_index = Len(render)
  /\ at' = "finish"
  /\ kind' = 1
  /\ opaque_vertex_count' = 0 /\ translucent_vertex_count64' = 0
  /\ UNCHANGED <<args, schedule, status, updates>>
  /\ UNCHANGED <<group_counts, cursor, render_index, group_begin, bone_worker>>

\* Finish: empty the tasks no group reached, then lay the ranges out one
\* after the other from the offset the kind starts at.
Finish ==
  /\ at = "finish"
  /\ LET base    == IF Kind \in Opaque THEN opaque_vertex_count ELSE translucent_vertex_count64
         moved   == [w \in 1 .. Len(tasks) |->
                       IF w - 1 > cursor[Kind].worker /\ w <= ScheduledTasks
                       THEN [tasks[w] EXCEPT ![Kind] = EmptyPartition] ELSE tasks[w]]
         Start(w) == base + SumUpTo([u \in 1 .. w - 1 |->
                                       moved[u][Kind].expected_vertex_count], w - 1)
         total   == Start(ScheduledTasks + 1)
         placed  == [w \in 1 .. Len(tasks) |->
                       IF w <= ScheduledTasks /\ Start(w) <= MaxUint32
                       THEN [moved[w] EXCEPT ![Kind].vertex_offset = Start(w)] ELSE moved[w]]
     IN  \/ /\ cursor[Kind].scheduled # group_counts[Kind] \/ total > MaxUint32
            /\ tasks' = IF cursor[Kind].scheduled # group_counts[Kind] THEN tasks ELSE placed
            /\ status' = "error" /\ at' = "idle"
            /\ UNCHANGED <<args, counts, mode, bone_update_owners, locals, updates>>
         \/ /\ cursor[Kind].scheduled = group_counts[Kind]
            /\ total <= MaxUint32
            /\ tasks' = placed
            /\ IF Kind \in Opaque
               THEN opaque_vertex_count' = total /\ UNCHANGED translucent_vertex_count64
               ELSE translucent_vertex_count64' = total /\ UNCHANGED opaque_vertex_count
            /\ IF kind < 4 THEN kind' = kind + 1 /\ UNCHANGED at
                           ELSE at' = "total" /\ UNCHANGED kind
            /\ UNCHANGED <<args, counts, mode, bone_update_owners, status, updates>>
            /\ UNCHANGED <<group_counts, cursor, render_index, group_begin, bone_worker>>

Complete ==
  /\ at = "total"
  /\ opaque_vertex_count + translucent_vertex_count64 <= MaxUint32
  /\ vertex_count' = opaque_vertex_count + translucent_vertex_count64
  /\ translucent_vertex_count' = translucent_vertex_count64
  /\ translucent_vertex_offset' = opaque_vertex_count
  /\ status' = "ok"
  /\ at' = "idle"
  /\ UNCHANGED <<args, mode, tasks, bone_update_owners, locals, updates>>

TooManyVertices ==
  /\ at = "total"
  /\ opaque_vertex_count + translucent_vertex_count64 > MaxUint32
  /\ Fail

Step ==
  \/ CountBone \/ Prepare \/ NextBoneWorker \/ StartBone \/ Move \/ AppendGroups
  \/ Appended \/ StartFinish \/ Finish \/ Complete \/ TooManyVertices

Next ==
  \/ \E m \in Models, r \in RenderLists, n \in WorkerCounts : Update(m, r, n)
  \/ Step

Spec == Init /\ [][Next]_vars /\ WF_vars(Step)

-----------------------------------------------------------------------------
(* Properties.                                                             *)

Completed == at = "idle" /\ status = "ok"

GroupsOf(k, b) == [p \in 1 .. Len(model[b + 1][k]) |-> <<b, p - 1>>]

\* The visible cube groups of a kind in drawing order.
AllGroups(k) ==
  LET names[i \in 0 .. Len(render)] ==
        IF i = 0 THEN <<>> ELSE names[i - 1] \o GroupsOf(k, render[i])
  IN  names[Len(render)]

VerticesOf(k, names) ==
  4 * SumUpTo([i \in 1 .. Len(names) |->
                 QuadsOf(k, model[names[i][1] + 1][k][names[i][2] + 1])], Len(names))

TasksMatchRanges ==
  \A k \in Kinds, w \in 1 .. ScheduledTasks :
    tasks[w][k].cube_indices =
      SubSeq(AllGroups(k), Split(w - 1, ScheduledTasks, Len(AllGroups(k))) + 1,
                           Split(w, ScheduledTasks, Len(AllGroups(k))))

\* Vertex ranges in buffer order: a kind after a kind, a task after a task.
Layout(k1, k2) ==
  [i \in 1 .. 2 * ScheduledTasks |->
     IF i <= ScheduledTasks THEN tasks[i][k1] ELSE tasks[i - ScheduledTasks][k2]]

Tiles(layout, total) ==
  \A i \in DOMAIN layout :
    /\ i = 1 => layout[i].vertex_offset = 0
    /\ layout[i].vertex_offset + layout[i].expected_vertex_count =
         IF i = Len(layout) THEN total ELSE layout[i + 1].vertex_offset

RangesTile ==
  /\ Tiles(Layout("cutout", "cutout_no_culling"), translucent_vertex_offset)
  /\ Tiles(Layout("translucent", "translucent_culling"), translucent_vertex_count)
  /\ vertex_count = translucent_vertex_offset + translucent_vertex_count
  /\ \A k \in Kinds, w \in 1 .. ScheduledTasks :
       tasks[w][k].expected_vertex_count = VerticesOf(k, tasks[w][k].cube_indices)

\* Each task gets exactly its range of the visible groups, in drawing order,
\* whatever the slots held from earlier updates: nothing drawn twice, nothing
\* left out, nothing stale.  The vertex ranges handed to the workers are
\* disjoint, leave no gap, hold what their groups can emit, and end at the
\* counts the buffer is sized by.
TasksTileTheFrame == Completed => TasksMatchRanges /\ RangesTile

\* A worker that needs a bone waits for the worker that updates it: the
\* table of owners names, for every visible bone, the worker whose own
\* DetermineTaskRange holds it, and nobody for the others.
OwnersMatchUpdate ==
  Completed /\ mode = "WorkerReadySpin" =>
    /\ \A w \in 0 .. workers - 1 : \A i \in TaskRange(w, workers, Len(render)) :
         bone_update_owners[render[i + 1] + 1] = w
    /\ \A b \in 1 .. Len(model) :
         bone_update_owners[b] = NoOwner <=> \A i \in 1 .. Len(render) : render[i] + 1 # b

\* An update fails for a bone that does not exist or a frame that does not
\* fit 32 bits, and for nothing else: the guards against a cursor running out
\* of room never trip.
FailsOnlyAtLimits ==
  at = "idle" /\ status # "none" =>
    (status = "error" <=>
       \/ \E i \in 1 .. Len(render) : render[i] >= Len(model)
       \/ VerticesOf("cutout", AllGroups("cutout"))
            + VerticesOf("cutout_no_culling", AllGroups("cutout_no_culling"))
            + VerticesOf("translucent", AllGroups("translucent"))
            + VerticesOf("translucent_culling", AllGroups("translucent_culling")) > MaxUint32)
=============================================================================
