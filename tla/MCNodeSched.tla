---------------------------- MODULE MCNodeSched ----------------------------
(***************************************************************************)
(* Pipelines for TLC to run: chain, pair, dial, fork, twin arcs and a loop. *)
(***************************************************************************)
EXTENDS NodeSched, TLC

\* The workers are alike: runs that check safety only may exchange them.
Symmetry == Permutations(Worker)

\* camera -> filter -> display.
ChainNode == {"cam", "flt", "out"}
ChainInput == {"flt.in", "out.in"}
ChainOutput == {"cam.img", "flt.img"}
ChainInputOf == [i \in ChainInput |-> IF i = "flt.in" THEN "flt" ELSE "out"]
ChainOutputOf == [o \in ChainOutput |-> IF o = "cam.img" THEN "cam" ELSE "flt"]
ChainWire == [i \in ChainInput |-> IF i = "flt.in" THEN "cam.img" ELSE "flt.img"]

\* source -> display.
PairNode == {"src", "out"}
PairInput == {"out.in"}
PairOutput == {"src.img"}
PairInputOf == [i \in PairInput |-> "out"]
PairOutputOf == [o \in PairOutput |-> "src"]
PairWire == [i \in PairInput |-> "src.img"]

\* The pair, with a parameter of the display.
DialInput == PairInput \cup {"out.par"}
DialInputOf == [i \in DialInput |-> "out"]
DialWire == [i \in DialInput |-> IF i \in PairInput THEN PairWire[i] ELSE NoOutput]

\* source -> display a, source -> display b.
ForkNode == {"src", "a", "b"}
ForkInput == {"a.in", "b.in"}
ForkOutput == {"src.img"}
ForkInputOf == [i \in ForkInput |-> IF i = "a.in" THEN "a" ELSE "b"]
ForkOutputOf == [o \in ForkOutput |-> "src"]
ForkWire == [i \in ForkInput |-> "src.img"]

\* source -> display, by two arcs.
TwinNode == {"src", "out"}
TwinInput == {"out.1", "out.2"}
TwinOutput == {"src.1", "src.2"}
TwinInputOf == [i \in TwinInput |-> "out"]
TwinOutputOf == [o \in TwinOutput |-> "src"]
TwinWire == [i \in TwinInput |-> IF i = "out.1" THEN "src.1" ELSE "src.2"]

\* Two nodes, each the parent of the other.
LoopNode == {"a", "b"}
LoopInput == {"a.in", "b.in"}
LoopOutput == {"a.img", "b.img"}
LoopInputOf == [i \in LoopInput |-> IF i = "a.in" THEN "a" ELSE "b"]
LoopOutputOf == [o \in LoopOutput |-> IF o = "a.img" THEN "a" ELSE "b"]
LoopWire == [i \in LoopInput |-> IF i = "a.in" THEN "b.img" ELSE "a.img"]
=============================================================================
