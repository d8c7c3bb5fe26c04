--------------------------- MODULE MCTaskManager ---------------------------
(***************************************************************************)
(* A small mission for TLC: two tasks, a condition that is switched from   *)
(* the GUI and one of another kind.                                        *)
(***************************************************************************)
EXTENDS TaskManager, TLC

CONSTANTS t1, t2, switch, other

Names == t1 :> 1 @@ t2 :> 2
WithDetector == switch :> "State" @@ other :> "Detector"
TwoEach == {<<t1, 1, {switch}>>, <<t1, 1, {switch, other}>>, <<t2, 1, {other}>>, <<t2, 3, {other}>>}
=============================================================================
