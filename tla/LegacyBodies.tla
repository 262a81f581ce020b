---------------------------- MODULE LegacyBodies ----------------------------
(***************************************************************************)
(* Geometry, animations and controllers of a historical model: what reading *)
(* them charges and refuses (legacy/src/v3/container/decoder.cc), and what   *)
(* projecting them refuses and produces (legacy/src/v3/conversion/           *)
(* projector.cc).                                                            *)
(*                                                                          *)
(* Coordinates, ticks and texts are numbers without structure; of a name     *)
(* only its rank in unsigned UTF-8 order is kept, and 0 is the empty text.   *)
(* An optional value is a sequence of at most one.                           *)
(*                                                                          *)
(*   geometry    [bones, extra, scale, variables], bones <<[name, parent,   *)
(*               body]>>: a body is a list of cubes, a cube a list of faces,*)
(*               a face a list of vertices <<position, uv>>; in version 5 a *)
(*               body is a list of faces.  extra is optional, [authors,     *)
(*               wheel]; variables are the names its script declares.       *)
(*   animations  <<[name, loop, delays, weight, bones, programs, sounds]>>   *)
(*               weight and each of the delays optional, a program a list    *)
(*               of statements, bones <<[name, channels]>>, the channels     *)
(*               lists of key frames                                        *)
(*               [tick, easing, pre, post] for rotation, position and scale  *)
(*   controllers <<[name, initial, states]>>, states <<[name, animations,    *)
(*               transitions, length, points, effects]>>, the effects lists  *)
(*               for entry, exit and sound                                   *)
(*   settings    [wheel, buttons, classify, scale, texture], the wheel a     *)
(*               list <<[name, text]>>, buttons <<[id, forms]>>, forms        *)
(*               <<[value, labels]>>, labels <<[name, text]>>, classify       *)
(*               <<[id, wheel]>>                                             *)
(* The variables have no place in the target, but count and may be refused.  *)
(* What a geometry, a bone or an animation has besides has no place there    *)
(* either, and is left out with what it charges.                             *)
(***************************************************************************)
EXTENDS Naturals, Sequences, FiniteSets, SequencesExt

CONSTANTS
    BoneLimit,      \* kBoneLimit
    CubeFaceLimit,  \* kCubeFaceLimit
    EnumLimit       \* the largest int32

ASSUME BodyLimitsAssumption == {BoneLimit, CubeFaceLimit, EnumLimit} \subseteq Nat

SumOver(s, Size(_)) == FoldSeq(LAMBDA x, n : n + Size(x), 0, s)

Has(option) == option /= <<>>

HasDuplicate(s) == ~IsInjective(s)

Names(s) == [i \in DOMAIN s |-> s[i].name]
Keys(s)  == [i \in DOMAIN s |-> s[i].key]

ByName(s) == SortSeq(s, LAMBDA a, b : a.name < b.name)
ByKey(s)  == SortSeq(s, LAMBDA a, b : a.key < b.key)

-----------------------------------------------------------------------------
(* Geometry. *)

FacesInOneCube(version, body) == IF version = 5 THEN <<body>> ELSE body   \* mutant
CubesOf(version, body) ==
    IF version = 5 THEN [i \in DOMAIN body |-> <<body[i]>>] ELSE body

DecodedGeo(version, geo) ==
    [geo EXCEPT !.bones = [i \in DOMAIN @ |->
        [name |-> @[i].name, parent |-> @[i].parent,
         cubes |-> CubesOf(version, @[i].body)]]]

\* The faces of version 5 are no collection of a cube, and have no limit.
GeoRefused(version, geo) ==
    \/ Len(geo.bones) > BoneLimit
    \/ /\ version /= 5
       /\ \E bone \in Range(geo.bones) : \E cube \in Range(bone.body) :
              Len(cube) > CubeFaceLimit

GeoEntries(version, geo) ==
    Len(geo.bones) + Len(geo.variables)
      + SumOver(geo.bones, LAMBDA bone :
            Len(bone.body) + (IF version = 5 THEN 0 ELSE SumOver(bone.body, Len)))
      + SumOver(geo.extra, LAMBDA extra : Len(extra.authors) + Len(extra.wheel))

\* The distinct values of a cube in the order of their first use, and the
\* index of each use, from 0.  The maps are cleared for every cube.
FirstUses(s) == FoldLeft(LAMBDA seen, x : IF x \in Range(seen) THEN seen ELSE Append(seen, x),
                         <<>>, s)

IndexIn(table, x) == (CHOOSE i \in DOMAIN table : table[i] = x) - 1

Indices(s) == [i \in DOMAIN s |-> IndexIn(FirstUses(s), s[i])]

PackedCube(cube) ==
    LET vertices  == FlattenSeq(cube)
        positions == [i \in DOMAIN vertices |-> vertices[i][1]]
        uvs       == [i \in DOMAIN vertices |-> vertices[i][2]]
    IN  [faceCount |-> Len(cube),
         pos |-> FirstUses(positions), pos_indices |-> Indices(positions),
         uv |-> FirstUses(uvs), uv_indices |-> Indices(uvs)]

AllCubes(geo) == FlattenSeq([i \in DOMAIN geo.bones |-> geo.bones[i].cubes])

\* The cubes of all bones are one list; a bone has their number.
ProjectGeo(geo) ==
    [bones |-> [i \in DOMAIN geo.bones |->
                   [name |-> geo.bones[i].name, parent |-> geo.bones[i].parent,
                    cubeCount |-> Len(geo.bones[i].cubes)]],
     cubes |-> [i \in DOMAIN AllCubes(geo) |-> PackedCube(AllCubes(geo)[i])]]

GeoStats(geo) ==
    [bones |-> Len(geo.bones), cubes |-> Len(AllCubes(geo)),
     faces |-> SumOver(AllCubes(geo), Len)]

NoStats == [bones |-> 0, cubes |-> 0, faces |-> 0]

-----------------------------------------------------------------------------
(* Animations. *)

\* A Molang value is [kind, value]; the kind may be one no version knows.
MolangKinds == {"none", "number", "string"}

KeyFrames(bone) == FlattenSeq(bone.channels)

FrameValues(frame) == Range(frame.pre \o FlattenSeq(frame.post))

AnimationFrames(animation) ==
    UNION {Range(KeyFrames(bone)) : bone \in Range(animation.bones)}

\* The values that have a place in the target, and those that have none.
ProjectedValues(animation) ==
    Range(animation.weight) \cup UNION {FrameValues(f) : f \in AnimationFrames(animation)}

AnimationRefused(animation) ==
    \E value \in ProjectedValues(animation) \cup Range(FlattenSeq(animation.delays)) :
        value.kind \notin MolangKinds

AnimationEntries(animation) ==
    Len(animation.bones) + SumOver(animation.bones, LAMBDA bone : Len(KeyFrames(bone)))
      + Len(animation.programs) + SumOver(animation.programs, Len)
      + Len(animation.sounds)

FileRefused(file)  == \E animation \in Range(file) : AnimationRefused(animation)
FileEntries(file)  == Len(file) + SumOver(file, AnimationEntries)

\* ProjectMolang and ProjectEnum: a number is a float in the source already.
AnimationUnprojectable(animation) ==
    \/ animation.loop > EnumLimit
    \/ \E value \in ProjectedValues(animation) : value.kind = "none"
    \/ \E frame \in AnimationFrames(animation) : frame.easing > EnumLimit

\* The delays have no place in the target.
ProjectAnimation(animation) ==
    [name |-> animation.name, loop |-> animation.loop, weight |-> animation.weight,
     bones |-> animation.bones, programs |-> animation.programs,
     sounds |-> animation.sounds]

FileUnprojectable(file) == \E animation \in Range(file) : AnimationUnprojectable(animation)
ProjectFile(file) == [i \in DOMAIN file |-> ProjectAnimation(file[i])]

-----------------------------------------------------------------------------
(* Controllers. *)

PointKeys(state) == [i \in DOMAIN state.points |-> state.points[i][1]]

ControllersRefused(file) ==
    \/ HasDuplicate(Names(file))
    \/ \E controller \in Range(file) :
           \/ HasDuplicate(Names(controller.states))
           \/ \E state \in Range(controller.states) : HasDuplicate(PointKeys(state))

StateEntries(state) ==
    Len(state.animations) + Len(state.transitions) + Len(state.points)
      + SumOver(state.effects, Len)

ControllersEntries(file) ==
    Len(file) + SumOver(file, LAMBDA controller :
                    Len(controller.states) + SumOver(controller.states, StateEntries))

\* An animation without a condition always plays; a transition without one is
\* left as it is.
Always == 1   \* "true"

ConditionOf(entry) == IF entry.condition = 0 THEN [entry EXCEPT !.condition = Always] ELSE entry

ProjectState(state) ==
    [name |-> state.name,
     animations |-> [i \in DOMAIN state.animations |-> ConditionOf(state.animations[i])],
     transitions |-> state.transitions, effects |-> state.effects,
     blend |-> IF Has(state.length) \/ Has(state.points)
               THEN <<[length |-> state.length, points |-> state.points]>> ELSE <<>>]

ProjectController(controller) ==
    LET states == ByName(controller.states)
    IN  [name |-> controller.name, initial |-> controller.initial,
         states |-> [i \in DOMAIN states |-> ProjectState(states[i])]]

ProjectControllers(file) ==
    [i \in DOMAIN file |-> ProjectController(ByName(file)[i])]

-----------------------------------------------------------------------------
(* Settings. *)

Forms(settings) ==
    FlattenSeq([i \in DOMAIN settings.buttons |-> settings.buttons[i].forms])

\* The lists of names and texts of the settings, each of which is a map.
TextMaps(settings) ==
    {settings.wheel} \cup {form.labels : form \in Range(Forms(settings))}
    \cup {class.wheel : class \in Range(settings.classify)}

SettingsRefused(settings) == \E map \in TextMaps(settings) : HasDuplicate(Names(map))

SettingsEntries(settings) ==
    Len(settings.wheel) + Len(settings.buttons)
      + SumOver(settings.buttons, LAMBDA button : Len(button.forms))
      + SumOver(Forms(settings), LAMBDA form : Len(form.labels))
      + Len(settings.classify) + SumOver(settings.classify, LAMBDA class : Len(class.wheel))

\* The program of a form reads a value and the other writes it; a blank value
\* reads as zero and is never written.
ProjectForm(form) ==
    [read |-> IF form.value = 0 THEN <<"zero">> ELSE <<"value", form.value>>,
     write |-> IF form.value = 0 THEN <<"return">> ELSE <<"assign", form.value>>,
     labels |-> ByName(form.labels)]

\* "extra0", "extra1", ...; these names keep their order up to ten of them.
Extras(texts) == [i \in DOMAIN texts |-> [name |-> i, text |-> texts[i]]]
EmptyWheel    == Extras([i \in 1 .. 8 |-> 0])

ProjectSettings(settings) ==
    [wheel |-> IF settings.wheel = <<>> THEN EmptyWheel ELSE ByName(settings.wheel),
     buttons |-> [i \in DOMAIN settings.buttons |->
                     [id |-> settings.buttons[i].id,
                      forms |-> [j \in DOMAIN settings.buttons[i].forms |->
                                    ProjectForm(settings.buttons[i].forms[j])]]],
     classify |-> [i \in DOMAIN settings.classify |->
                      [settings.classify[i] EXCEPT !.wheel = ByName(@)]],
     texture |-> settings.texture]
=============================================================================
