----------------------------- MODULE MCSchedule -----------------------------
(***************************************************************************)
(* Three models and four lists of visible bones that reach every mode, an  *)
(* empty frame, a bone that does not exist and a frame that overflows.     *)
(***************************************************************************)
EXTENDS Schedule

G(q, c) == [quads |-> q, culled |-> c]

Torso == [k \in Kinds |-> IF k = "cutout" THEN <<G(2, 1), G(1, 1), G(1, 0), G(2, 2), G(1, 1)>>
                                          ELSE <<>>]
Glass == [k \in Kinds |-> IF k = "translucent" THEN <<G(1, 1), G(2, 1)>>
                          ELSE IF k = "cutout" THEN <<>> ELSE <<G(1, 1)>>]
Pivot == [k \in Kinds |-> <<>>]
Cape  == [k \in Kinds |-> IF k = "cutout_no_culling" THEN <<G(3, 1), G(3, 1), G(2, 1)>>
                                                     ELSE <<G(1, 1)>>]
Pane  == [k \in Kinds |-> IF k = "translucent" THEN <<G(6, 3), G(6, 3)>> ELSE <<>>]

MCModels      == {<<Torso, Glass, Pivot>>, <<Torso, Cape, Torso>>, <<Torso, Pane, Pane>>}
MCRenderLists == {<<>>, <<0, 1, 2>>, <<2, 0>>, <<1, 3>>}
=============================================================================
