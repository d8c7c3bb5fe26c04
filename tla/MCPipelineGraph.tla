-------------------------- MODULE MCPipelineGraph --------------------------
(***************************************************************************)
(* Nodes for TLC: a camera, a filter that gives an image and a number,     *)
(* and a display of both.                                                  *)
(***************************************************************************)
EXTENDS PipelineGraph

ThreeNodes == {"cam", "flt", "out"}
ThreeInputs == {"flt.in", "out.in", "out.par"}
ThreeOutputs == {"cam.img", "flt.img", "flt.par"}
ThreeInputOf == [i \in ThreeInputs |-> IF i = "flt.in" THEN "flt" ELSE "out"]
ThreeOutputOf == [o \in ThreeOutputs |-> IF o = "cam.img" THEN "cam" ELSE "flt"]
OfOneType ==
    {<<"cam.img", "flt.in">>, <<"cam.img", "out.in">>, <<"flt.img", "out.in">>, <<"flt.par", "out.par">>}
=============================================================================
