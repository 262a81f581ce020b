------------------------------ MODULE BakedModel ------------------------------
(***************************************************************************)
(* Baking a geometry model and keeping it in a cache: BakeModel of         *)
(* gfx/bake/baked_model.cc, SerializeBakedModel and ReadBakedModel of      *)
(* gfx/bake/baked_serializer.cc.  What is baked or read here is what       *)
(* ModelState traverses and Schedule splits.                               *)
(*                                                                         *)
(* Bones are counted from 1, so that the parent 0 stands for UINT32_MAX    *)
(* and a subtree_end is the last bone of the subtree.  Floats are left     *)
(* out: a quad is named <<cube, face>> and comes with the type that        *)
(* QuadInspector gives it, a cube with the verdict of ValidateCube and of  *)
(* the test for inside-out cubes; in a group, inside says that the vertex  *)
(* indices of a cube's quads are those of its own eight vertices.          *)
(***************************************************************************)
EXTENDS Integers, FiniteSets, SequencesExt

CONSTANTS
  Sources,     \* geometry models that may be baked
  Options,     \* bake options
  Files,       \* cache files found on disk that no bake of this model wrote
  Widths,      \* the SIMD widths of the machines that bake and read
  MaxBones     \* 65536 in the code

KindOrder   == <<"cutout", "cutout_no_culling", "translucent", "translucent_culling">>
Kinds       == Range(KindOrder)
QuadTypes   == {"empty", "translucent", "cutout", "solid"}

ASSUME WidthsAssumption  == Widths \subseteq {"B128", "B256", "B512"}
ASSUME OptionsAssumption == Options \subseteq [force_culling : BOOLEAN, force_translucent : BOOLEAN]
BoneInSource == [name : STRING, parent : STRING, cubeCount : Nat, finite : BOOLEAN]
CubeInSource == [valid : BOOLEAN, inverted : BOOLEAN, quads : Seq(QuadTypes)]
ASSUME SourcesAssumption ==
  \A s \in Sources :
    /\ s \in [texture : BOOLEAN, bones : Seq(BoneInSource), cubes : Seq(CubeInSource)]
    /\ \A c \in Range(s.cubes) :
         c.valid => IF c.inverted THEN Len(c.quads) = 6 ELSE Len(c.quads) <= 6

\* What any sequence of bytes deserializes to, if to anything: numbers of any
\* size, and for each kind and bone a list of group numbers.
CubeInFile  == [quads : SUBSET (Nat \X Nat), culled : Nat, inside : BOOLEAN]
GroupInFile == [bone_index : Nat, cubes : Seq(CubeInFile)]
BoneInFile  == [parent_index : Nat, subtree_end : Nat, depth : Nat, solid : BOOLEAN, finite : BOOLEAN]
ASSUME FilesAssumption ==
  \A f \in Files :
    /\ f.list \in Seq(BoneInFile) /\ f.sorted \in Seq(Nat)
    /\ DOMAIN f.groups = Kinds /\ \A k \in Kinds : f.groups[k] \in Seq(GroupInFile)
    /\ DOMAIN f.indices = Kinds
    /\ \A k \in Kinds : f.indices[k] \in [1 .. Len(f.list) -> Seq(Nat)]

VARIABLES
  stage,                   \* where the run is
  source, options, width,  \* the arguments of the bake
  reader,                  \* the width of the machine that reads
  visit_state, stack, roots, list, sorted_bone_indices,  \* BuildBoneHierarchy
  next_bone, solid, groups, cube_indices,                    \* ModelBaker
  baked,                   \* the model that was baked
  file,                    \* the cache file
  loaded                   \* what ReadBakedModel made of it

arguments == <<source, options, width, reader>>
hierarchy == <<visit_state, stack, roots, list, sorted_bone_indices>>
baker     == <<next_bone, solid, groups, cube_indices>>
vars      == <<stage, arguments, hierarchy, baker, baked, file, loaded>>

None == [none |-> TRUE]

-----------------------------------------------------------------------------
(* The source.                                                             *)

BoneCount == Len(source.bones)
Bones     == 1 .. BoneCount
SumOf(s)  ==
  LET sum[i \in 0 .. Len(s)] == IF i = 0 THEN 0 ELSE sum[i - 1] + s[i]
  IN  sum[Len(s)]
Least(a, b) == IF a < b THEN a ELSE b

\* cube_offsets: the cubes of bone i follow those of the bones before it.
CubeOffset(i) == SumOf([j \in 1 .. i - 1 |-> source.bones[j].cubeCount])
CubesOf(i)    == CubeOffset(i) + 1 .. CubeOffset(i) + source.bones[i].cubeCount

\* Roots and children are collected and visited in the order of the source: a
\* list of them is a set that is taken from by the least.
IsRoot(i)   == source.bones[i].parent = ""
Roots       == {i \in Bones : IsRoot(i)}
Children(p) == {i \in Bones : ~IsRoot(i) /\ source.bones[i].parent = source.bones[p].name}

-----------------------------------------------------------------------------

Init ==
  /\ \/ /\ stage = "prepare" /\ file = None
        /\ source \in Sources /\ options \in Options /\ width \in Widths
     \/ /\ stage = "stored" /\ file \in Files
        /\ source = None /\ options = None /\ width = None
  /\ reader \in Widths
  /\ visit_state = <<>> /\ stack = <<>> /\ roots = {}
  /\ list = <<>> /\ sorted_bone_indices = <<>>
  /\ next_bone = 1 /\ solid = <<>>
  /\ groups = [k \in Kinds |-> <<>>]
  /\ cube_indices = [k \in Kinds |-> <<>>]
  /\ baked = None
  /\ loaded = None

\* ValidateTexture, and the cubes of PrepareBakeModel.
Prepared ==
  /\ source.texture
  /\ CubeOffset(BoneCount + 1) = Len(source.cubes)
  /\ \A c \in Range(source.cubes) : c.valid

\* The checks of BuildBoneHierarchy ahead of its traversal.
Named ==
  /\ BoneCount <= MaxBones
  /\ \A i, j \in Bones : i # j => source.bones[i].name # source.bones[j].name
  /\ \A i \in Bones : source.bones[i].finite
  /\ \A i \in Bones : IsRoot(i) \/ \E p \in Bones : source.bones[p].name = source.bones[i].parent

Prepare ==
  /\ stage = "prepare"
  /\ IF Prepared /\ Named
     THEN stage' = "walk" /\ visit_state' = [i \in Bones |-> 0] /\ roots' = Roots
     ELSE stage' = "refused" /\ UNCHANGED <<visit_state, roots>>
  /\ UNCHANGED <<arguments, stack, list, sorted_bone_indices, baker, baked, file, loaded>>

AppendBone(original, parent, frames) ==
  /\ sorted_bone_indices' = Append(sorted_bone_indices, original)
  /\ list' = Append(list, [parent_index |-> parent, subtree_end |-> 0,
                           depth |-> IF parent = 0 THEN 0 ELSE list[parent].depth + 1])
  /\ visit_state' = [visit_state EXCEPT ![original] = 1]
  /\ stack' = Append(frames, [original |-> original, sorted |-> Len(list) + 1,
                              rest |-> Children(original)])

\* The next root.  A bone has one parent, so that neither a root nor a child
\* can have been visited: the code refuses one that has, the model would stop.
EnterRoot ==
  /\ stage = "walk" /\ stack = <<>> /\ roots # {}
  /\ visit_state[Min(roots)] = 0
  /\ AppendBone(Min(roots), 0, <<>>)
  /\ roots' = roots \ {Min(roots)}
  /\ UNCHANGED <<stage, arguments, baker, baked, file, loaded>>

EnterChild ==
  /\ stage = "walk" /\ stack # <<>>
  /\ LET frame == Last(stack)
         child == Min(frame.rest)
     IN /\ frame.rest # {}
        /\ visit_state[child] = 0
        /\ AppendBone(child, frame.sorted,
                      [stack EXCEPT ![Len(stack)].rest = @ \ {child}])
  /\ UNCHANGED <<stage, roots, arguments, baker, baked, file, loaded>>

LeaveBone ==
  /\ stage = "walk" /\ stack # <<>>
  /\ LET frame == Last(stack)
     IN /\ frame.rest = {}
        /\ list' = [list EXCEPT ![frame.sorted].subtree_end = Len(list)]
        /\ visit_state' = [visit_state EXCEPT ![frame.original] = 2]
  /\ stack' = Front(stack)
  /\ UNCHANGED <<stage, roots, sorted_bone_indices, arguments, baker, baked, file, loaded>>

\* Bones on a cycle are not reached from any root.
AllReachedUnchecked == TRUE                                       \* mutant
AllReached == Len(list) = BoneCount

EndHierarchy ==
  /\ stage = "walk" /\ stack = <<>> /\ roots = {}
  /\ IF AllReached
     THEN /\ stage' = "bake"
          /\ solid' = [i \in 1 .. Len(list) |-> TRUE]
          /\ cube_indices' = [k \in Kinds |-> [i \in 1 .. Len(list) |-> <<>>]]
     ELSE stage' = "refused" /\ UNCHANGED <<solid, cube_indices>>
  /\ UNCHANGED <<arguments, hierarchy, next_bone, groups, baked, file, loaded>>

-----------------------------------------------------------------------------
(* ModelBaker.                                                             *)

Capacity(w) == IF w = "B256" THEN 1 ELSE 2      \* kCubeGroupCapacity

\* AddCube appends to the last group of its kind while that group is of the
\* same bone and has room.
HasRoomAnyBone(gs, bone) == gs # <<>> /\ Len(Last(gs).cubes) < Capacity(width)   \* mutant
HasRoom(gs, bone) ==
  gs # <<>> /\ Last(gs).bone_index = bone /\ Len(Last(gs).cubes) < Capacity(width)

\* What is added, and where: [kind, quads, culled].
AddCube(out, bone, part) ==
  LET gs   == out.groups[part.kind]
      cube == [quads |-> part.quads, culled |-> part.culled, inside |-> TRUE]
  IN IF HasRoom(gs, bone)
     THEN [out EXCEPT !.groups[part.kind][Len(gs)].cubes = Append(@, cube)]
     ELSE [out EXCEPT !.groups[part.kind] = Append(gs, [bone_index |-> bone, cubes |-> <<cube>>]),
                      !.indices[part.kind][bone] = Append(@, Len(gs) + 1)]

Faces(c) == {c} \X (1 .. Len(source.cubes[c].quads))
TypeOf(q) == source.cubes[q[1]].quads[q[2]]

Translucent(q) == options.force_translucent \/ TypeOf(q) \in {"translucent", "cutout"}
Cutout(q)      == ~options.force_translucent /\ TypeOf(q) = "solid"

\* AddProcessedCube: which partitions the quads of cube c go to, and how many
\* of them culling may leave.
CutoutQuads(c)      == {q \in Faces(c) : Cutout(q)}
TranslucentQuads(c) == {q \in Faces(c) : Translucent(q)}
IsCulling(c) ==
  (options.force_culling /\ Cardinality(Faces(c)) = 6) \/ source.cubes[c].inverted

Part(c, kind, quads) ==
  [kind |-> kind, quads |-> quads,
   culled |-> Least(IF source.cubes[c].inverted THEN 5 ELSE 3, Cardinality(quads))]
CutoutPart(c) ==
  Part(c, IF IsCulling(c) \/ Cardinality(CutoutQuads(c)) = 6 THEN "cutout" ELSE "cutout_no_culling",
       CutoutQuads(c))
TranslucentPart(c) ==
  Part(c, IF IsCulling(c) THEN "translucent_culling" ELSE "translucent", TranslucentQuads(c))

AddPart(out, bone, part) == IF part.quads = {} THEN out ELSE AddCube(out, bone, part)

AddProcessedCube(out, bone, c) ==
  AddPart(AddPart(out, bone, CutoutPart(c)), bone, TranslucentPart(c))

\* The cubes of a bone one after the other.
AddCubes(out, bone, first, count) ==
  LET added[k \in 0 .. count] ==
        IF k = 0 THEN out ELSE AddProcessedCube(added[k - 1], bone, first + k)
  IN  added[count]

AddBone ==
  /\ stage = "bake" /\ next_bone <= Len(list)
  /\ LET original == sorted_bone_indices[next_bone]
         out == AddCubes([groups |-> groups, indices |-> cube_indices], next_bone,
                         CubeOffset(original), source.bones[original].cubeCount)
     IN /\ groups' = out.groups
        /\ cube_indices' = out.indices
        /\ solid' = [solid EXCEPT ![next_bone] =
             \A c \in CubesOf(original) : \A q \in Faces(c) : TypeOf(q) = "solid"]
  /\ next_bone' = next_bone + 1
  /\ UNCHANGED <<stage, arguments, hierarchy, baked, file, loaded>>

\* The running sums of the groups of one bone and kind: cubes, quads, and
\* quads that culling may leave.
QuadCount(g)   == SumOf([i \in 1 .. Len(g.cubes) |-> Cardinality(g.cubes[i].quads)])
CulledCount(g) == SumOf([i \in 1 .. Len(g.cubes) |-> g.cubes[i].culled])
RunningSums(gs, indices) ==
  [k \in 1 .. Len(indices) |->
     [cube_count  |-> SumOf([i \in 1 .. k |-> Len(gs[indices[i]].cubes)]),
      quad_count  |-> SumOf([i \in 1 .. k |-> QuadCount(gs[indices[i]])]),
      culled      |-> SumOf([i \in 1 .. k |-> CulledCount(gs[indices[i]])])]]

\* The two caches hold the indices and the sums of all bones and kinds, one
\* after the other.  Finish goes through them kind by kind, the reader bone
\* by bone; spans are where each finds its own.
KindMajor(n) == [j \in 1 .. 4 * n |-> <<KindOrder[((j - 1) \div n) + 1], ((j - 1) % n) + 1>>]
BoneMajor(n) == [j \in 1 .. 4 * n |-> <<KindOrder[((j - 1) % 4) + 1], ((j - 1) \div 4) + 1>>]

Spans(slots, indices) ==
  [s \in Range(slots) |->
     LET j == CHOOSE j \in 1 .. Len(slots) : slots[j] = s
     IN [at   |-> SumOf([i \in 1 .. j - 1 |-> Len(indices[slots[i][1]][slots[i][2]])]),
         size |-> Len(indices[s[1]][s[2]])]]

Totals(sums) == IF sums = <<>> THEN [cube_count |-> 0, quad_count |-> 0, culled |-> 0] ELSE Last(sums)

\* A model in memory, its caches filled in the order of slots.
Model(w, bones, sorted, gs, indices, slots, filled) ==
  [width |-> w, list |-> bones, sorted |-> sorted, groups |-> gs,
   spans |-> Spans(slots, indices),
   cube_indices_cache |->
     FlattenSeq([j \in 1 .. Len(slots) |-> indices[slots[j][1]][slots[j][2]]]),
   cube_group_info_cache |->
     FlattenSeq([j \in 1 .. Len(slots) |-> RunningSums(gs[filled[j][1]], indices[filled[j][1]][filled[j][2]])]),
   totals |-> [s \in Range(slots) |-> Totals(RunningSums(gs[s[1]], indices[s[1]][s[2]]))]]

Finish ==
  /\ stage = "bake" /\ next_bone > Len(list)
  /\ LET slots == KindMajor(Len(list))
         bones == [i \in 1 .. Len(list) |->
                    [parent_index |-> list[i].parent_index, subtree_end |-> list[i].subtree_end,
                     depth |-> list[i].depth, solid |-> solid[i], finite |-> TRUE]]
     IN baked' = Model(width, bones, sorted_bone_indices, groups, cube_indices, slots, slots)
  /\ stage' = "baked"
  /\ UNCHANGED <<arguments, hierarchy, baker, file, loaded>>

-----------------------------------------------------------------------------
(* The cache file.                                                         *)

\* What a span of a model holds.
Held(m, cache, s) == SubSeq(cache, m.spans[s].at + 1, m.spans[s].at + m.spans[s].size)

\* IndexCount, bone by bone.
IndexCount(n, size) == SumOf([j \in 1 .. 4 * n |-> size[BoneMajor(n)[j]]])
Sizes(indices) == [s \in UNION {{k} \X DOMAIN indices[k] : k \in Kinds} |-> Len(indices[s[1]][s[2]])]

\* SerializeBakedModel: groups, bones, and the indices bone by bone.  The
\* running sums are not written.
Serialize ==
  /\ stage = "baked"
  /\ file' = [width |-> baked.width, groups |-> baked.groups, sorted |-> baked.sorted,
              list |-> baked.list,
              index_count |-> IndexCount(Len(baked.list), [s \in DOMAIN baked.spans |-> baked.spans[s].size]),
              indices |-> [k \in Kinds |-> [i \in 1 .. Len(baked.list) |->
                             Held(baked, baked.cube_indices_cache, <<k, i>>)]],
              end |-> "exact"]
  /\ stage' = "stored"
  /\ UNCHANGED <<arguments, hierarchy, baker, baked, loaded>>

\* sp_deserialize_to with the checks of ReadGroup, and ReadForWidth's test
\* that nothing is left over.
GroupsReadable(f, w) ==
  \A k \in Kinds : \A g \in Range(f.groups[k]) :
    /\ Len(g.cubes) \in 1 .. Capacity(w)
    /\ \A c \in Range(g.cubes) :
         /\ IsFiniteSet(c.quads) /\ Cardinality(c.quads) \in 1 .. 6
         /\ c.culled <= Cardinality(c.quads)
Deserializes(f, w) ==
  /\ f.width = w
  /\ f.end = "exact"
  /\ GroupsReadable(f, w)
  /\ f.index_count = IndexCount(Len(f.list), Sizes(f.indices))

\* ValidateHierarchy.  Its last pass keeps the path to the current bone:
\* before bone i, every bone above i's parent on the path must end here.
Closes(l, open, i) == \A j \in Range(open) : l[j].subtree_end = i - 1

OpenBone(l, s, i) ==
  LET parent == l[i].parent_index
      kept   == Max({0} \cup {k \in DOMAIN s.open : s.open[k] = parent})
  IN [ok   |-> /\ s.ok
               /\ Closes(l, SubSeq(s.open, kept + 1, Len(s.open)), i)
               /\ parent # 0 => kept > 0,
      open |-> Append(SubSeq(s.open, 1, kept), i)]

PathCloses(l) ==
  LET path[i \in 0 .. Len(l)] ==
        IF i = 0 THEN [ok |-> TRUE, open |-> <<>>] ELSE OpenBone(l, path[i - 1], i)
  IN  path[Len(l)].ok /\ Closes(l, path[Len(l)].open, Len(l) + 1)

ValidHierarchy(f) ==
  LET n == Len(f.list) IN
  /\ Len(f.sorted) = n /\ Range(f.sorted) \subseteq 1 .. n /\ IsInjective(f.sorted)
  /\ \A i \in 1 .. n :
       LET b == f.list[i] IN
       /\ b.subtree_end \in i .. n
       /\ b.parent_index < i
       /\ b.depth = IF b.parent_index = 0 THEN 0 ELSE f.list[b.parent_index].depth + 1
       /\ b.finite
  /\ PathCloses(f.list)

\* ValidateGroups and ValidatePartition.
Ascending(indices) == \A k \in 2 .. Len(indices) : indices[k - 1] < indices[k]
ValidPartition(f, k, i) ==
  LET indices == f.indices[k][i] IN
  /\ \A j \in Range(indices) : j \in 1 .. Len(f.groups[k]) /\ f.groups[k][j].bone_index = i
  /\ Ascending(indices)
ValidGroup(f, g) == g.bone_index \in 1 .. Len(f.list) /\ \A c \in Range(g.cubes) : c.inside
ValidPartitions(f) ==
  /\ \A k \in Kinds : \A g \in Range(f.groups[k]) : ValidGroup(f, g)
  /\ \A k \in Kinds : \A i \in 1 .. Len(f.list) : ValidPartition(f, k, i)

\* The order in which ValidateModel fills the sums.
FillOrderKindMajor(n) == KindMajor(n)                             \* mutant
FillOrder(n) == BoneMajor(n)

ReadBakedModel ==
  /\ stage = "stored"
  /\ loaded' = IF Deserializes(file, reader) /\ ValidHierarchy(file) /\ ValidPartitions(file)
               THEN Model(reader, file.list, file.sorted, file.groups, file.indices,
                          BoneMajor(Len(file.list)), FillOrder(Len(file.list)))
               ELSE None
  /\ stage' = IF loaded' = None THEN "corrupt" ELSE "loaded"
  /\ UNCHANGED <<arguments, hierarchy, baker, baked, file>>

Done == stage \in {"refused", "corrupt", "loaded"} /\ UNCHANGED vars

Next ==
  \/ Prepare \/ EnterRoot \/ EnterChild \/ LeaveBone \/ EndHierarchy
  \/ AddBone \/ Finish
  \/ Serialize
  \/ ReadBakedModel
  \/ Done

Spec == Init /\ [][Next]_vars

-----------------------------------------------------------------------------
(* Properties.                                                             *)

\* Above(parent)[i]: the bones met on the way up from i, which are in every set
\* that holds i's parent and with a bone the parent of that bone.
Upwards(parent, S) == \A j \in S : parent[j] \in S \cup {0}
Above(parent) ==
  [i \in DOMAIN parent |->
     {a \in DOMAIN parent :
        \A S \in SUBSET DOMAIN parent :
          parent[i] \in S \cup {0} /\ Upwards(parent, S) => a \in S}]

SourceParent == [i \in Bones |->
  IF IsRoot(i) THEN 0 ELSE CHOOSE p \in Bones : source.bones[p].name = source.bones[i].parent]

Permutation(s, n) == Len(s) = n /\ Range(s) = 1 .. n

\* l lists a forest in preorder: a bone and the bones below it are those from
\* its own place up to its subtree_end.
Preorder(l) ==
  LET above == Above([i \in 1 .. Len(l) |-> l[i].parent_index])
  IN \A i \in 1 .. Len(l) :
       /\ i \notin above[i]
       /\ {j \in 1 .. Len(l) : j = i \/ i \in above[j]} = i .. l[i].subtree_end
       /\ l[i].depth = Cardinality(above[i])

\* BakeModel accepts a geometry model exactly when its parents make a forest
\* over uniquely named bones, and then lists that forest in preorder, brothers
\* in the order of the source: bones on a cycle are neither dropped nor looped
\* over, and no subtree is cut short.
HierarchyIsPreorder ==
  source # None /\ stage \notin {"prepare", "walk"} =>
    /\ stage # "refused" <=>
         Prepared /\ Named /\ \A i \in Bones : i \notin Above(SourceParent)[i]
    /\ stage # "refused" =>
         /\ Permutation(sorted_bone_indices, BoneCount)
         /\ Preorder(list)
         /\ \A i \in Bones :
              SourceParent[sorted_bone_indices[i]] =
                IF list[i].parent_index = 0 THEN 0 ELSE sorted_bone_indices[list[i].parent_index]
         /\ \A i \in Bones : \A j \in 1 .. i - 1 :
              list[i].parent_index = list[j].parent_index =>
                sorted_bone_indices[j] < sorted_bone_indices[i]

\* Where the baked model m holds quad q: kind, group, and cube of the group.
PlacesOf(m, q) ==
  {p \in UNION {{k} \X (1 .. Len(m.groups[k])) \X {1, 2} : k \in Kinds} :
     p[3] <= Len(m.groups[p[1]][p[2]].cubes) /\ q \in m.groups[p[1]][p[2]].cubes[p[3]].quads}

\* The sums and totals of a bone and kind are those of the groups it holds,
\* each of which is its own and held once.
SumsHold(m) ==
  \A s \in DOMAIN m.spans :
    LET held == Held(m, m.cube_indices_cache, s)
        sums == RunningSums(m.groups[s[1]], held)
    IN /\ \A g \in 1 .. Len(m.groups[s[1]]) :
            g \in Range(held) <=> m.groups[s[1]][g].bone_index = s[2]
       /\ IsInjective(held)
       /\ Held(m, m.cube_group_info_cache, s) = sums
       /\ m.totals[s] = Totals(sums)

\* Every visible quad of the source ends in exactly one cube of one group, of
\* the bone it belongs to and of a kind that draws it as it must be drawn; an
\* invisible one ends nowhere; and the sums the schedule will split by agree
\* with the groups.  A group left open by one bone must not take the next
\* bone's cube.
EveryQuadOnce ==
  baked # None =>
    /\ SumsHold(baked)
    /\ \A i \in Bones : \A c \in CubesOf(sorted_bone_indices[i]) : \A q \in Faces(c) :
         /\ Cardinality(PlacesOf(baked, q)) = IF Translucent(q) \/ Cutout(q) THEN 1 ELSE 0
         /\ \A p \in PlacesOf(baked, q) :
              /\ baked.groups[p[1]][p[2]].bone_index = i
              /\ p[1] \in {"translucent", "translucent_culling"} <=> Translucent(q)

CacheReadsBack ==
  /\ stage = "loaded" <=> reader = width
  /\ stage = "loaded" =>
       /\ loaded.list = baked.list /\ loaded.sorted = baked.sorted
       /\ loaded.groups = baked.groups /\ loaded.totals = baked.totals
       /\ \A s \in DOMAIN baked.spans :
            /\ Held(loaded, loaded.cube_indices_cache, s) = Held(baked, baked.cube_indices_cache, s)
            /\ Held(loaded, loaded.cube_group_info_cache, s) =
                 Held(baked, baked.cube_group_info_cache, s)

\* What a cache file must be for the renderer to rely on it.
WellFormed(f) ==
  /\ f.width = reader /\ f.end = "exact"
  /\ Permutation(f.sorted, Len(f.list))
  /\ Preorder(f.list) /\ \A b \in Range(f.list) : b.finite
  /\ GroupsReadable(f, reader)
  /\ \A k \in Kinds : \A g \in Range(f.groups[k]) : ValidGroup(f, g)
  /\ f.index_count = IndexCount(Len(f.list), Sizes(f.indices))
  /\ \A k \in Kinds : \A i \in 1 .. Len(f.list) :
       LET held == f.indices[k][i] IN
       /\ \A g \in Range(held) : g \in 1 .. Len(f.groups[k]) /\ f.groups[k][g].bone_index = i
       /\ \A a, b \in 1 .. Len(held) : a < b => held[a] < held[b]

\* Whatever file is found, ReadBakedModel accepts it exactly when it is well
\* formed: the one pass of ValidateHierarchy over the path of open bones tells
\* preorder forests from everything else.  A machine of the same width reads
\* back the model that was baked, and any other machine refuses it; the two
\* lay the caches out in different orders, and what each bone finds through
\* its spans is the same.
CacheReadIsExact ==
  stage \in {"loaded", "corrupt"} =>
    /\ stage = "loaded" <=> WellFormed(file)
    /\ baked # None => CacheReadsBack
=============================================================================
