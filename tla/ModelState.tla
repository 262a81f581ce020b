----------------------------- MODULE ModelState -----------------------------
(***************************************************************************)
(* One ModelState: the extractions Java asks for (nExtract and             *)
(* nExtractSubtree of modules/lib-jni/src/render/model_state.cc around     *)
(* ModelState::Extraction::Run of gfx/src/renderer/model_state_impl.inc),  *)
(* nInvalidate, and nRender up to the call of Render.                      *)
(*                                                                         *)
(* The state outlives the calls: the last model, its poses, the list of    *)
(* rendered bones and the schedule are kept, and the schedule is computed  *)
(* again only when the model or the list changed.  The traversal           *)
(* overwrites the kept list in place while it compares it.                 *)
(*                                                                         *)
(* A pose is the sequence of the bones it is composed from; the schedule   *)
(* is what it was computed for (the module Schedule has its contents).     *)
(***************************************************************************)
EXTENDS Naturals, Sequences

CONSTANTS
  Models,        \* the baked models
  Bones,         \* for each model its bones in preorder
  Attributes,    \* for each model the attribute arrays a call may pass
  Counts,        \* the vertex counts Java may pass to nRender
  MaxVertices    \* numeric_limits<uint32_t>::max()

\* fate: what the numbers of an attribute lead to, in the order of the checks.
Fates == {"bad_packed", "not_finite", "bad_locator", "pose_not_finite", "fine"}
BoneAttribute == [fate : Fates, cubes_hidden : BOOLEAN, children_hidden : BOOLEAN,
                  locator : BOOLEAN]
Bone == [depth : Nat, subtree_end : Nat, geometry : BOOLEAN, vertices : Nat]

BoneCount(m) == Len(Bones[m])

ASSUME BonesAssumption == Bones \in [Models -> Seq(Bone)]
ASSUME AttributesAssumption ==
  \A m \in Models : Attributes[m] \subseteq [1 .. BoneCount(m) -> BoneAttribute]
ASSUME MaxVerticesAssumption == MaxVertices \in Nat /\ Counts \subseteq Nat

\* The bones of a baked model are a forest in preorder.
ASSUME PreorderAssumption ==
  \A m \in Models : \A i \in 1 .. BoneCount(m) :
    LET b == Bones[m][i] IN
    /\ b.subtree_end \in i .. BoneCount(m)
    /\ \A j \in i + 1 .. b.subtree_end : Bones[m][j].depth > b.depth
    /\ b.subtree_end < BoneCount(m) => Bones[m][b.subtree_end + 1].depth <= b.depth
    /\ b.depth <= IF i = 1 THEN 0 ELSE Bones[m][i - 1].depth + 1

None == "none"       \* no model yet

VARIABLES
  \* the ModelState
  baked_model_, bone_poses_, render_bone_indices_, locator_bone_indices_scratch_,
  schedule_, schedule_valid_, valid_,
  \* the thread_local stack of poses, up to pose_index_
  pose_stack,
  \* the call: its arguments and the locals of Run
  at, model, attributes, kLocal, root, bone_index, reusable, unchanged, bone_index_count,
  previous_bone_index_count, locator_count,
  \* Java: the outcome of the last call, the arrays it filled, the last nRender
  status, locators, output, rendered

state  == <<baked_model_, bone_poses_, render_bone_indices_, locator_bone_indices_scratch_,
            schedule_, schedule_valid_, valid_>>
args   == <<model, attributes, kLocal, root>>
locals == <<bone_index, reusable, unchanged, bone_index_count, previous_bone_index_count,
            locator_count>>
java   == <<status, locators, output, rendered>>
vars   == <<state, pose_stack, at, args, locals, java>>

-----------------------------------------------------------------------------

VertexCountOf(m, bones) ==
  LET sum[i \in 0 .. Len(bones)] ==
        IF i = 0 THEN 0 ELSE sum[i - 1] + Bones[m][bones[i] + 1].vertices
  IN  sum[Len(bones)]

\* RenderSchedule::Update; one that fails leaves zero counts and no content to rely on.
Built(m, bones) == [model |-> m, bones |-> bones, vertex_count |-> VertexCountOf(m, bones)]
Broken == [model |-> None, bones |-> <<>>, vertex_count |-> 0]

\* PoseStack: its first pose is the identity, made of no bone.
Top(stack) == stack[Len(stack)]
PopPose(stack, depth) == IF depth + 1 > Len(stack) THEN stack ELSE SubSeq(stack, 1, depth + 1)
PushPose(stack) == Append(stack, Top(stack))
ApplyLocalState(stack, b) == [stack EXCEPT ![Len(stack)] = Append(@, b)]

Init ==
  /\ baked_model_ = None /\ bone_poses_ = <<>> /\ render_bone_indices_ = <<>>
  /\ locator_bone_indices_scratch_ = <<>>
  /\ schedule_ = Broken /\ schedule_valid_ = FALSE /\ valid_ = FALSE
  /\ pose_stack = << <<>> >>
  /\ at = "idle"
  /\ model = None /\ attributes = <<>> /\ kLocal = FALSE /\ root = 0
  /\ bone_index = 0 /\ reusable = FALSE /\ unchanged = TRUE
  /\ bone_index_count = 0 /\ previous_bone_index_count = 0 /\ locator_count = 0
  /\ status = "none" /\ locators = <<>> /\ output = <<>> /\ rendered = "none"

Stale == <<65536>>    \* a pose of an earlier extraction: no bone has this index

\* A call returns.  Of one that failed nobody reads the arguments, the arrays
\* or the poses again: they are forgotten, and what is left of the poses when
\* the next call resizes them is marked stale.
Return(s, stack) ==
  /\ at' = "idle" /\ status' = s
  /\ bone_index' = 0 /\ reusable' = FALSE /\ unchanged' = TRUE
  /\ bone_index_count' = 0 /\ previous_bone_index_count' = 0 /\ locator_count' = 0
  /\ pose_stack' = [i \in 1 .. Len(stack) |-> IF i = 1 THEN <<>> ELSE Stale]
  /\ IF s = "ok" THEN UNCHANGED <<args, locators, bone_poses_, locator_bone_indices_scratch_>>
     ELSE /\ model' = None /\ attributes' = <<>> /\ kLocal' = FALSE /\ root' = 0
          /\ locators' = <<>> /\ output' = <<>>
          /\ bone_poses_' = <<>> /\ locator_bone_indices_scratch_' = <<>>

\* A check of the JNI entry fails before Run: a null argument, an attribute
\* array that cannot be borrowed.  Invalidate() came first.
RejectArguments ==
  /\ at = "idle"
  /\ valid_' = FALSE
  /\ Return("error", pose_stack) /\ rendered' = "none"
  /\ UNCHANGED <<baked_model_, render_bone_indices_, schedule_, schedule_valid_>>

KeptScheduleValid == schedule_valid_                             \* mutant
DroppedSchedule == FALSE

\* Run up to its checks of the buffers: the old schedule is given up before
\* anything of it may be overwritten.
Extract(m, a, local, r) ==
  /\ at = "idle"
  /\ valid_' = FALSE
  /\ reusable' = (schedule_valid_ /\ baked_model_ = m)
  /\ schedule_valid_' = DroppedSchedule
  /\ baked_model_' = m
  /\ model' = m /\ attributes' = a /\ kLocal' = local /\ root' = r
  /\ status' = "none" /\ rendered' = "none"
  /\ at' = "checks"
  /\ locator_bone_indices_scratch_' = [i \in 1 .. BoneCount(m) |-> 65536]
  /\ UNCHANGED <<bone_poses_, render_bone_indices_, schedule_, pose_stack, locators, output>>
  /\ UNCHANGED <<bone_index, unchanged, bone_index_count, previous_bone_index_count,
                 locator_count>>

Fail(stack) ==
  /\ Return("error", stack)
  /\ valid_' = FALSE
  /\ UNCHANGED rendered

\* An attribute or locator array of the wrong size.
RejectBuffers ==
  /\ at = "checks"
  /\ Fail(pose_stack)
  /\ UNCHANGED <<baked_model_, render_bone_indices_, schedule_, schedule_valid_>>

RejectRoot ==
  /\ at = "checks"
  /\ kLocal /\ root >= BoneCount(model)
  /\ Fail(pose_stack)
  /\ UNCHANGED <<baked_model_, render_bone_indices_, schedule_, schedule_valid_>>

StartTraversal ==
  /\ at = "checks"
  /\ ~kLocal \/ root < BoneCount(model)
  /\ bone_poses_' = [i \in 1 .. BoneCount(model) |-> Stale]
  /\ previous_bone_index_count' = Len(render_bone_indices_)
  /\ bone_index_count' = 0 /\ unchanged' = TRUE /\ locator_count' = 0
  /\ pose_stack' = PopPose(pose_stack, 0)
  /\ bone_index' = IF kLocal THEN root ELSE 0
  /\ at' = "visit"
  /\ UNCHANGED <<baked_model_, render_bone_indices_, locator_bone_indices_scratch_,
                 schedule_, schedule_valid_, valid_, args, reusable, java>>

-----------------------------------------------------------------------------
(* One iteration of the traversal.                                         *)

TheBone   == Bones[model][bone_index + 1]
Attribute == attributes[bone_index + 1]
End       == IF kLocal THEN Bones[model][root + 1].subtree_end ELSE BoneCount(model)
RootDepth == IF kLocal THEN Bones[model][root + 1].depth ELSE 0
Visiting  == at = "visit" /\ bone_index < End

ParentedUnderLast == PushPose(pose_stack)                        \* mutant
Parented == PushPose(PopPose(pose_stack, TheBone.depth - RootDepth))
Applied  == ApplyLocalState(Parented, bone_index)

\* An attribute the traversal rejects; what it wrote so far stays.
VisitInvalid ==
  /\ Visiting
  /\ Attribute.fate \in {"bad_packed", "bad_locator"}
  /\ Fail(Parented)
  /\ UNCHANGED <<baked_model_, render_bone_indices_, schedule_, schedule_valid_>>

AfterPruned == TheBone.subtree_end
AfterHiddenSelf == bone_index + 1                                \* mutant
AfterHidden == TheBone.subtree_end

\* A zero scale, a number or a composed pose that is not finite: nothing of
\* the subtree is seen.
VisitPruned ==
  /\ Visiting
  /\ Attribute.fate \in {"not_finite", "pose_not_finite"}
  /\ pose_stack' = IF Attribute.fate = "not_finite" THEN Parented ELSE Applied
  /\ bone_index' = AfterPruned
  /\ UNCHANGED <<state, at, args, java>>
  /\ UNCHANGED <<reusable, unchanged, bone_index_count, previous_bone_index_count,
                 locator_count>>

\* A visible bone: its pose, its place in the list, its locator.
VisitVisible ==
  /\ Visiting
  /\ Attribute.fate = "fine"
  /\ pose_stack' = Applied
  /\ bone_poses_' = [bone_poses_ EXCEPT ![bone_index + 1] = Top(Applied)]
  /\ IF ~Attribute.cubes_hidden /\ TheBone.geometry
     THEN /\ bone_index_count' = bone_index_count + 1
          /\ IF bone_index_count = Len(render_bone_indices_)
             THEN /\ render_bone_indices_' = Append(render_bone_indices_, bone_index)
                  /\ unchanged' = FALSE
             ELSE /\ unchanged' = (/\ unchanged
                                   /\ render_bone_indices_[bone_index_count + 1] = bone_index)
                  /\ render_bone_indices_' =
                       [render_bone_indices_ EXCEPT ![bone_index_count + 1] = bone_index]
     ELSE UNCHANGED <<bone_index_count, render_bone_indices_, unchanged>>
  /\ IF ~Attribute.cubes_hidden /\ Attribute.locator
     THEN /\ locator_count' = locator_count + 1
          /\ locator_bone_indices_scratch_' =
               [locator_bone_indices_scratch_ EXCEPT ![locator_count + 1] = bone_index]
     ELSE UNCHANGED <<locator_count, locator_bone_indices_scratch_>>
  /\ bone_index' = IF Attribute.children_hidden THEN AfterHidden ELSE bone_index + 1
  /\ UNCHANGED <<baked_model_, schedule_, schedule_valid_, valid_, at, args, java>>
  /\ UNCHANGED <<reusable, previous_bone_index_count>>

SameCountUnchecked == TRUE                                       \* mutant
SameCount == bone_index_count = previous_bone_index_count

FinishTraversal ==
  /\ at = "visit"
  /\ bone_index >= End
  /\ unchanged' = (unchanged /\ SameCount)
  /\ render_bone_indices_' = SubSeq(render_bone_indices_, 1, bone_index_count)
  /\ at' = "schedule"
  /\ UNCHANGED <<baked_model_, bone_poses_, locator_bone_indices_scratch_, schedule_,
                 schedule_valid_, valid_, pose_stack, args, java>>
  /\ UNCHANGED <<bone_index, reusable, bone_index_count, previous_bone_index_count,
                 locator_count>>

-----------------------------------------------------------------------------

UpdateSchedule == ~reusable \/ ~unchanged
Fits == VertexCountOf(model, render_bone_indices_) <= MaxVertices

Extracted ==
  /\ schedule_valid_' = TRUE /\ valid_' = TRUE
  /\ at' = "publish_locators"
  /\ UNCHANGED <<baked_model_, bone_poses_, render_bone_indices_, locator_bone_indices_scratch_>>
  /\ UNCHANGED <<pose_stack, args, locals, java>>

ReuseSchedule ==
  /\ at = "schedule" /\ ~UpdateSchedule
  /\ Extracted
  /\ UNCHANGED schedule_

RebuildSchedule ==
  /\ at = "schedule" /\ UpdateSchedule /\ Fits
  /\ schedule_' = Built(model, render_bone_indices_)
  /\ Extracted

ScheduleFails ==
  /\ at = "schedule" /\ UpdateSchedule /\ ~Fits
  /\ schedule_' = Broken
  /\ Fail(pose_stack)
  /\ UNCHANGED <<baked_model_, render_bone_indices_, schedule_valid_>>

-----------------------------------------------------------------------------
(* The rest of the JNI entry: two arrays to fill, each of which may fail.  *)

PublishLocators ==
  /\ at = "publish_locators"
  /\ locators' = SubSeq(locator_bone_indices_scratch_, 1, locator_count)
  /\ at' = "publish_output"
  /\ UNCHANGED <<state, pose_stack, args, locals, status, output, rendered>>

PublishOutput ==
  /\ at = "publish_output"
  /\ output' = [bones |-> Len(render_bone_indices_), locators |-> locator_count,
                vertices |-> schedule_.vertex_count]
  /\ Return("ok", pose_stack)
  /\ UNCHANGED <<baked_model_, render_bone_indices_, schedule_, schedule_valid_, valid_, rendered>>

GuardReleased == valid_                                          \* mutant
GuardRuns == FALSE

\* The scope guard invalidates the state again; the schedule stays valid.
PublishFails ==
  /\ at \in {"publish_locators", "publish_output"}
  /\ Return("error", pose_stack)
  /\ valid_' = GuardRuns
  /\ UNCHANGED <<baked_model_, render_bone_indices_, schedule_, schedule_valid_, rendered>>

nInvalidate ==
  /\ at = "idle"
  /\ valid_' = FALSE
  /\ Return("invalidated", pose_stack) /\ rendered' = "none"
  /\ UNCHANGED <<baked_model_, render_bone_indices_, schedule_, schedule_valid_>>

MayRender(count) == valid_ /\ count = schedule_.vertex_count

\* Java passes the vertex count of a publication, maybe not the last.
nRender(count) ==
  /\ at = "idle"
  /\ rendered' = IF ~MayRender(count) THEN "rejected"
                 ELSE IF count = 0 THEN "nothing" ELSE "drawn"
  /\ UNCHANGED <<state, pose_stack, at, args, locals, status, locators, output>>

Run ==
  \/ RejectBuffers \/ RejectRoot \/ StartTraversal
  \/ VisitInvalid \/ VisitPruned \/ VisitVisible \/ FinishTraversal
  \/ ReuseSchedule \/ RebuildSchedule \/ ScheduleFails
  \/ PublishLocators \/ PublishOutput \/ PublishFails

Next ==
  \/ \E m \in Models : \E a \in Attributes[m] :
       \/ Extract(m, a, FALSE, 0)
       \/ \E r \in 0 .. BoneCount(m) : Extract(m, a, TRUE, r)
  \/ RejectArguments
  \/ nInvalidate
  \/ \E count \in Counts : nRender(count)
  \/ Run

Spec == Init /\ [][Next]_vars /\ WF_vars(Run)

-----------------------------------------------------------------------------
(* Properties.                                                             *)

\* The schedule of a state that claims to be valid, kept or computed again,
\* is the schedule of its model and of its list of rendered bones, whatever
\* calls failed in between and however far they had overwritten the list.
ScheduleIsFresh ==
  valid_ => schedule_ = Built(baked_model_, render_bone_indices_)

\* Between calls a state is valid exactly when the last call was an
\* extraction Java was told the success of: a call that fails at any point,
\* even after Run succeeded, leaves nothing to render.
ValidWhenPublished == at = "idle" => (valid_ <=> status = "ok")

\* What an extraction is asked for, without its traversal: the bones of the
\* model or of the subtree, each below its ancestors among them.
Begin        == IF kLocal THEN root ELSE 0
Scope        == Begin .. End - 1
Ancestors(b) == {a \in Scope : a <= b /\ b < Bones[model][a + 1].subtree_end}
Open(a)      == attributes[a + 1].fate = "fine" /\ ~attributes[a + 1].children_hidden
Reached(b)   == \A a \in Ancestors(b) \ {b} : Open(a)
Shown(b)     == /\ Reached(b) /\ attributes[b + 1].fate = "fine"
                /\ ~attributes[b + 1].cubes_hidden

\* The members of S below n, in order.
Listed(S, n) ==
  LET list[i \in 0 .. n] == IF i = 0 THEN <<>>
                            ELSE IF i - 1 \in S THEN Append(list[i - 1], i - 1) ELSE list[i - 1]
  IN  list[n]

ShownBones    == {b \in Scope : Shown(b) /\ Bones[model][b + 1].geometry}
ShownLocators == {b \in Scope : Shown(b) /\ attributes[b + 1].locator}
ComposedOf(b) == Listed(Ancestors(b), End)

\* An extraction lists exactly the shown bones with geometry and the
\* shown locators, in order, and saw no attribute it has to reject; each
\* listed bone has the pose composed from its own ancestors, below the
\* subtree root only, and none from an earlier call.
ListsTheShown ==
  status = "ok" =>
    /\ render_bone_indices_ = Listed(ShownBones, End)
    /\ locators = Listed(ShownLocators, End)
    /\ \A b \in Scope : Reached(b) => attributes[b + 1].fate \notin {"bad_packed", "bad_locator"}
    /\ \A b \in ShownBones : bone_poses_[b + 1] = ComposedOf(b)

\* A frame is only drawn from the last publication: not after a failed or
\* revoked one, and with the vertex count Java was given for it.
DrawsTheList ==
  rendered \in {"nothing", "drawn"} =>
    /\ status = "ok"
    /\ output = [bones |-> Len(render_bone_indices_), locators |-> Len(locators),
                 vertices |-> VertexCountOf(model, render_bone_indices_)]
    /\ rendered = "drawn" <=> output.vertices > 0

\* What Java is told of and what it draws are the model as the last attributes
\* show it, whatever calls failed or left poses behind before.
DrawsTheModel == ListsTheShown /\ DrawsTheList
=============================================================================
