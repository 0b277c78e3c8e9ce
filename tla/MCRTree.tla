------------------------------- MODULE MCRTree -------------------------------
(* Small boxes for the indexes, on both sides of the origin: two rows of   *)
(* unit cells, a long box and a point.                                     *)
EXTENDS SpatialIndexes

Unit(x, y) == <<x - 3, y - 1, x - 2, y>>
Spot == <<2, 0, 2, 0>>

MCBox == {Unit(0, 0), Unit(2, 0), Spot, Unit(7, 0), <<-2, 0, 3, 1>>}
MCQueries == {Unit(0, 0), Spot, <<-2, 0, 0, 1>>, Empty}
MCBatches ==
  { <<Unit(7, 0), Unit(0, 0)>>,
    <<Unit(0, 0), Spot, Unit(2, 0)>>,
    <<Unit(2, 0), Unit(2, 0), Spot, Spot, Unit(0, 0)>> }
=============================================================================
