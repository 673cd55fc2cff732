------------------------------ MODULE MCTracker ------------------------------
(* Tracker on a line of points; the jump limit and the smoother's reset are one  *)
(* step: 0 and 1 are neighbours, every other move is a leap.                   *)
EXTENDS Tracker, Integers

MCPoints  == {0, 1, 3, 5}
MCNear    == {r \in MCPoints \X MCPoints : r[1] - r[2] \in {-1, 0, 1}}
MCSupports == {[sides |-> 4, tabs |-> 20], [sides |-> 3, tabs |-> 6],
               [sides |-> 3, tabs |-> 2]}
MCButtons == <<"left", "right">>
=============================================================================
