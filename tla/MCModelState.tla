---------------------------- MODULE MCModelState ----------------------------
(***************************************************************************)
(* A body with an arm and a hand, and a pair of roots whose vertices are   *)
(* too many together.                                                      *)
(***************************************************************************)
EXTENDS ModelState

CONSTANTS body, pair

B(d, e, g, v) == [depth |-> d, subtree_end |-> e, geometry |-> g, vertices |-> v]
A(f, c, ch, l) == [fate |-> f, cubes_hidden |-> c, children_hidden |-> ch, locator |-> l]

Plain   == A("fine", FALSE, FALSE, FALSE)
Located == A("fine", FALSE, FALSE, TRUE)
Hidden  == A("fine", TRUE, FALSE, TRUE)

MCBones == [m \in Models |->
  IF m = body THEN <<B(0, 4, FALSE, 0), B(1, 3, TRUE, 4), B(2, 3, TRUE, 4), B(1, 4, TRUE, 0)>>
              ELSE <<B(0, 1, TRUE, 4), B(0, 2, TRUE, 8)>>]

MCAttributes == [m \in Models |->
  IF m = body
  THEN {<<Plain, Plain, Plain, Plain>>,
        <<Plain, Plain, Plain, Hidden>>,
        <<Plain, Hidden, Located, Plain>>,
        <<Plain, A("fine", FALSE, TRUE, TRUE), A("bad_packed", FALSE, FALSE, FALSE), Plain>>,
        <<Plain, A("pose_not_finite", FALSE, FALSE, FALSE), Plain, Located>>,
        <<A("fine", FALSE, TRUE, TRUE), Plain, Plain, Plain>>,
        <<Plain, A("not_finite", FALSE, FALSE, TRUE), Plain, A("bad_locator", FALSE, FALSE, FALSE)>>,
        <<Plain, Plain, A("bad_packed", FALSE, FALSE, FALSE), Plain>>}
  ELSE {<<Plain, Plain>>, <<Hidden, Plain>>, <<Plain, Hidden>>}]
=============================================================================
