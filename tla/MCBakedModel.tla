----------------------------- MODULE MCBakedModel -----------------------------
(***************************************************************************)
(* Geometry models: every choice of parents for three bones, a few larger  *)
(* trees, models that are refused, and models with cubes of every kind.    *)
(* Cache files: every combination of parents and subtree ends for up to    *)
(* four bones, and files with one other thing wrong.                       *)
(***************************************************************************)
EXTENDS BakedModel

B(name, parent, n) == [name |-> name, parent |-> parent, cubeCount |-> n, finite |-> TRUE]
S(bones, cubes)    == [texture |-> TRUE, bones |-> bones, cubes |-> cubes]
C(quads)           == [valid |-> TRUE, inverted |-> FALSE, quads |-> quads]

Solid6 == C(<<"solid", "solid", "solid", "solid", "solid", "solid">>)
Mixed6 == C(<<"solid", "cutout", "solid", "empty", "translucent", "solid">>)
InsideOut == [Solid6 EXCEPT !.inverted = TRUE, !.quads[2] = "translucent"]
Plane  == C(<<"solid">>)
Glass  == C(<<"translucent", "cutout">>)
Void   == C(<<"empty", "empty">>)

Names   == <<"a", "b", "c">>
Shapes  == {S([i \in 1 .. 3 |-> B(Names[i], p[i], 0)], <<>>) :
              p \in [1 .. 3 -> {"", "a", "b", "c"}]}
Shape(s) == S([i \in 1 .. Len(s) |-> B(s[i][1], s[i][2], 0)], <<>>)
Trees   == {Shape(<<<<"a", "d">>, <<"b", "">>, <<"c", "d">>, <<"d", "b">>>>),
            Shape(<<<<"a", "">>, <<"b", "a">>, <<"c", "a">>, <<"d", "b">>>>),
            Shape(<<<<"a", "">>, <<"b", "a">>, <<"c", "d">>, <<"d", "c">>>>)}

Furnished == S(<<B("leg", "hip", 3), B("hip", "", 2), B("eye", "", 2)>>,
               <<Solid6, Solid6, Plane, Solid6, Mixed6, InsideOut, Glass>>)
Sparse    == S(<<B("a", "", 1), B("b", "a", 0), B("c", "b", 3)>>, <<Void, Plane, Glass, Mixed6>>)
Same      == S(<<B("a", "", 1), B("b", "a", 1), B("c", "b", 1)>>, <<Plane, Plane, Plane>>)

Refused ==
  {[Furnished EXCEPT !.texture = FALSE], [Furnished EXCEPT !.cubes[2].valid = FALSE],
   [Furnished EXCEPT !.bones[1].cubeCount = 2], [Furnished EXCEPT !.bones[1].cubeCount = 4],
   [Furnished EXCEPT !.bones[3].finite = FALSE], [Furnished EXCEPT !.bones[3].name = "leg"],
   [Furnished EXCEPT !.bones[1].parent = "nobody"],
   Shape(<<<<"a", "">>, <<"b", "a">>, <<"c", "a">>, <<"d", "a">>, <<"e", "a">>>>)}

MCSources == Shapes \cup Trees \cup {Furnished, Sparse, Same} \cup Refused
MCOptions == [force_culling : BOOLEAN, force_translucent : BOOLEAN]

-----------------------------------------------------------------------------

Empty(n) == [k \in Kinds |-> [i \in 1 .. n |-> <<>>]]
Bone(p, e, d) == [parent_index |-> p, subtree_end |-> e, depth |-> d, solid |-> TRUE, finite |-> TRUE]
F(l)     == [width |-> "B128", groups |-> [k \in Kinds |-> <<>>], sorted |-> [i \in 1 .. Len(l) |-> i],
             list |-> l, index_count |-> 0, indices |-> Empty(Len(l)), end |-> "exact"]

\* Depths that agree with the parents, as far as parents come first.
DepthOf(p) ==
  LET d[i \in 0 .. Len(p)] == IF i = 0 THEN 0 ELSE IF p[i] = 0 \/ p[i] >= i THEN 0 ELSE d[p[i]] + 1
  IN d
Trees4 == {F([i \in 1 .. 4 |-> Bone(p[i], e[i], DepthOf(p)[i])]) :
             p \in {<<0>> \o q : q \in [1 .. 3 -> 0 .. 3]}, e \in [1 .. 4 -> 2 .. 4] \cup {<<1, 2, 3, 4>>, <<4, 3, 3, 4>>}}
Trees2 == {F(<<Bone(p[1], e[1], d[1]), Bone(p[2], e[2], d[2])>>) :
             p \in [1 .. 2 -> 0 .. 2], e \in [1 .. 2 -> 0 .. 3], d \in [1 .. 2 -> 0 .. 2]}

Q(culled, n) == [quads |-> {0} \X (1 .. n), culled |-> culled, inside |-> TRUE]
G(bone, cubes) == [bone_index |-> bone, cubes |-> cubes]

\* Two bones; three groups of one kind, the first and the last of bone 1.
Held2 == [F(<<Bone(0, 2, 0), Bone(1, 2, 1)>>) EXCEPT
           !.groups["cutout"] = <<G(1, <<Q(3, 6), Q(3, 6)>>), G(2, <<Q(1, 1)>>), G(1, <<Q(2, 2)>>)>>,
           !.indices["cutout"] = <<<<1, 3>>, <<2>>>>,
           !.index_count = 3]
Damaged ==
  {[Held2 EXCEPT !.width = "B256"], [Held2 EXCEPT !.end = "short"], [Held2 EXCEPT !.end = "long"],
   [Held2 EXCEPT !.index_count = 2], [Held2 EXCEPT !.index_count = 4],
   [Held2 EXCEPT !.sorted = <<1, 1>>], [Held2 EXCEPT !.sorted = <<2, 1>>], [Held2 EXCEPT !.sorted = <<2>>],
   [Held2 EXCEPT !.list[2].finite = FALSE],
   [Held2 EXCEPT !.groups["cutout"][2].bone_index = 1], [Held2 EXCEPT !.groups["cutout"][2].bone_index = 3],
   [Held2 EXCEPT !.groups["cutout"][3].cubes[1].inside = FALSE],
   [Held2 EXCEPT !.groups["cutout"][2].cubes = <<>>],
   [Held2 EXCEPT !.groups["cutout"][2].cubes = <<Q(1, 1), Q(1, 1), Q(1, 1)>>],
   [Held2 EXCEPT !.groups["cutout"][2].cubes = <<Q(0, 0)>>],
   [Held2 EXCEPT !.groups["cutout"][2].cubes = <<Q(3, 7)>>],
   [Held2 EXCEPT !.groups["cutout"][2].cubes = <<Q(2, 1)>>],
   [Held2 EXCEPT !.indices["cutout"] = <<<<3, 1>>, <<2>>>>],
   [Held2 EXCEPT !.indices["cutout"] = <<<<1, 1>>, <<2>>>>],
   [Held2 EXCEPT !.indices["cutout"] = <<<<1, 2>>, <<3>>>>],
   [Held2 EXCEPT !.indices["cutout"] = <<<<1, 4>>, <<2>>>>],
   [Held2 EXCEPT !.indices["cutout"] = <<<<1>>, <<2>>>>, !.index_count = 2]}

MCFiles == Trees4 \cup Trees2 \cup {Held2} \cup Damaged
=============================================================================
