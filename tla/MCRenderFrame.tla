---------------------------- MODULE MCRenderFrame ----------------------------
(***************************************************************************)
(* Two visible bones whose groups are crossed with the tasks, so that each *)
(* worker draws a bone the other one updates.                              *)
(***************************************************************************)
EXTENDS RenderFrame

G(b, q, c) == [bone |-> b, quads |-> q, culled |-> c]

MCGroups == [k \in Kinds |->
  CASE k = "cutout"              -> <<G(1, 2, 1), G(0, 1, 1)>>
    [] k = "cutout_no_culling"   -> <<>>
    [] k = "translucent"         -> <<G(1, 1, 1)>>
    [] k = "translucent_culling" -> <<G(0, 2, 1)>>]
=============================================================================
