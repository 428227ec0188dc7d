------------------------------ MODULE MCShapes ------------------------------
(***************************************************************************)
(* Calls with coordinates at the edges of the screen in both orientations  *)
(* and with the extreme sizes.                                             *)
(***************************************************************************)
EXTENDS Shapes

MCCoords     == {0, 1, 35, 63, 255}
MCSizes      == {0, 1, 2, 3, 36, 64, 255}
MCLineCoords == {0, 1, 5, 20, 35, 63}
=============================================================================
