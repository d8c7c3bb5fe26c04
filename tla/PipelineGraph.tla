--------------------------- MODULE PipelineGraph ---------------------------
(***************************************************************************)
(* The graph of the image pipeline, as messages to the ImageProcessor edit *)
(* it (auv/img-pipeline/imageProcessor.cpp, with the linking functions of  *)
(* node.cpp).                                                              *)
(*                                                                         *)
(* An arc is kept twice: as the target of the child's input, from which    *)
(* the child reads, and in the list of the parent's output, by which the   *)
(* parent tells its children of new images.  The handlers change one side, *)
(* then the other, and stop at the first exception.  Clients know of the   *)
(* graph what the handlers announce.                                       *)
(*                                                                         *)
(* All messages are handled by one thread, and no other changes the graph, *)
(* so a handler is one action; what workers see of a graph that is just    *)
(* being linked is the subject of NodeSched.  The code never uses a node   *)
(* id again: here a node that nothing refers to any more stands for the    *)
(* next new one.                                                           *)
(*                                                                         *)
(* A definition named Defect... is not the code: it is what a bug would    *)
(* make of the definition after it, to show that a property can fail.      *)
(***************************************************************************)
EXTENDS Naturals, FiniteSets

CONSTANTS
    Node, Input, Output,    \* the nodes, and the ids of their inputs and outputs
    InputOf, OutputOf,      \* the node each of them belongs to
    Compatible,             \* <<output, input>>: both images, or parameters of one type
    NoOutput,
    MaxLinks                \* a bound: how often one arc is put into a list

ASSUME GraphAssumption ==
    /\ InputOf \in [Input -> Node]
    /\ OutputOf \in [Output -> Node]
    /\ Compatible \subseteq {a \in Output \X Input : OutputOf[a[1]] # InputOf[a[2]]}
    /\ NoOutput \notin Output
    /\ MaxLinks \in Nat \ {0}

VARIABLES
    nodes,      \* m_nodes
    target,     \* Input::target
    links,      \* Output::targets: how often each input is in the list
    announced,  \* history: the arcs there are, as the messages sent tell it
    misused     \* history: a message has named an arc that did not exist, or
                \* one that cannot be made

vars == <<nodes, target, links, announced, misused>>

InputsOf(n) == {i \in Input : InputOf[i] = n}
OutputsOf(n) == {o \in Output : OutputOf[o] = n}

Parents(n) == {OutputOf[target[i]] : i \in {j \in InputsOf(n) : target[j] # NoOutput}}
Children(n) == {InputOf[i] : i \in {j \in Input : \E o \in OutputsOf(n) : links[o][j] > 0}}

\* In the graph of targets t and lists l, nothing of node n is linked to anything.
Unlinked(n, t, l) ==
    /\ \A i \in Input : t[i] # NoOutput => n # InputOf[i] /\ n # OutputOf[t[i]]
    /\ \A o \in Output, i \in Input : l[o][i] > 0 => n # InputOf[i] /\ n # OutputOf[o]

-----------------------------------------------------------------------------
(* The linking functions of Node, on a graph g: g.ok tells that none of them *)
(* has thrown an exception yet.                                              *)

Linked(t, l) == [target |-> t, links |-> l, ok |-> TRUE]
Thrown(t, l) == [target |-> t, links |-> l, ok |-> FALSE]

OneMore(l, o, i) == [l EXCEPT ![o][i] = @ + 1]
OneLess(l, o, i) == [l EXCEPT ![o][i] = @ - 1]

DefectUntyped(g, o, i) ==
    IF g.ok
    THEN Linked(g.target, OneMore(g.links, o, i))
    ELSE Thrown(g.target, g.links)

SetOutput(g, o, i) ==
    IF g.ok /\ <<o, i>> \in Compatible
    THEN Linked(g.target, OneMore(g.links, o, i))
    ELSE Thrown(g.target, g.links)

SetInput(g, i, o) ==
    IF g.ok /\ <<o, i>> \in Compatible /\ g.target[i] \in {NoOutput, o}
    THEN Linked([g.target EXCEPT ![i] = o], g.links)
    ELSE Thrown(g.target, g.links)

ClearOutput(g, o, i) ==
    IF g.ok /\ g.links[o][i] > 0
    THEN Linked(g.target, OneLess(g.links, o, i))
    ELSE Thrown(g.target, g.links)

ClearInput(g, i) ==
    IF g.ok
    THEN Linked([g.target EXCEPT ![i] = NoOutput], g.links)
    ELSE Thrown(g.target, g.links)

\* What lookup finds of the parent of an input.
KnownParent(i) == target[i] # NoOutput /\ OutputOf[target[i]] \in nodes

Becomes(g) == target' = g.target /\ links' = g.links

-----------------------------------------------------------------------------
(* Messages about arcs *)

DefectKeepsOldLink(o, i) ==
    /\ OutputOf[o] \in nodes /\ InputOf[i] \in nodes
    /\ links[o][i] < MaxLinks
    /\ LET after == SetInput(SetOutput(ClearInput(Linked(target, links), i), o, i), i, o)
       IN  /\ Becomes(after)
           /\ announced' = IF after.ok THEN (announced \ {<<target[i], i>>}) \cup {<<o, i>>} ELSE announced
           /\ misused' = (misused \/ ~after.ok)
    /\ UNCHANGED nodes

\* An arc to an input that has one takes its place: the old one goes first.
AddArc(o, i) ==
    /\ OutputOf[o] \in nodes /\ InputOf[i] \in nodes
    /\ links[o][i] < MaxLinks
    /\ LET freed == IF KnownParent(i) THEN ClearOutput(Linked(target, links), target[i], i) ELSE Linked(target, links)
           after == SetInput(SetOutput(ClearInput(freed, i), o, i), i, o)
       IN  /\ Becomes(after)
           /\ announced' = IF after.ok THEN (announced \ {<<target[i], i>>}) \cup {<<o, i>>} ELSE announced
           /\ misused' = (misused \/ ~after.ok)
    /\ UNCHANGED nodes

\* The input is cleared whatever it is linked to, the output only if it is one
\* of the node that the message names.
RemoveArc(o, i) ==
    /\ OutputOf[o] \in nodes /\ InputOf[i] \in nodes
    /\ LET named == KnownParent(i) /\ OutputOf[target[i]] = OutputOf[o]
           after == ClearInput(IF named THEN ClearOutput(Linked(target, links), target[i], i) ELSE Linked(target, links), i)
       IN  /\ Becomes(after)
           /\ announced' = IF after.ok THEN announced \ {<<o, i>>} ELSE announced
    /\ misused' = (misused \/ target[i] # o)
    /\ UNCHANGED nodes

-----------------------------------------------------------------------------
(* Messages about nodes *)

\* The targets t and lists l with these arcs.
Target(t, arcs) ==
    [i \in Input |-> IF \E o \in Output : <<o, i>> \in arcs
                     THEN CHOOSE o \in Output : <<o, i>> \in arcs
                     ELSE t[i]]
Links(l, arcs) ==
    [o \in Output |-> [i \in Input |-> IF <<o, i>> \in arcs THEN l[o][i] + 1 ELSE l[o][i]]]

\* The arcs that a message about node n, or about all nodes of S, can name.
ArcsAt(n) == {a \in Compatible : OutputOf[a[1]] = n \/ InputOf[a[2]] = n}
ArcsAmong(S) == {a \in Output \X Input : OutputOf[a[1]] \in S /\ InputOf[a[2]] \in S}

\* No two of the arcs go to one input.
OneToAnInput(arcs) == \A a, b \in arcs : a[2] = b[2] => a = b

\* Arcs between a new node n and nodes that exist, all of which can be made.
Linkable(n, arcs) ==
    /\ n \notin nodes
    /\ Unlinked(n, target, links)
    /\ \A a \in announced : n # OutputOf[a[1]] /\ n # InputOf[a[2]]
    /\ \A a \in arcs : {OutputOf[a[1]], InputOf[a[2]]} \subseteq nodes \cup {n}
    /\ \A a \in arcs : target[a[2]] = NoOutput
    /\ OneToAnInput(arcs)

AddNode(n, arcs) ==
    /\ Linkable(n, arcs)
    /\ nodes' = nodes \cup {n}
    /\ target' = Target(target, arcs)
    /\ links' = Links(links, arcs)
    /\ announced' = announced \cup arcs
    /\ UNCHANGED misused

Taken(i, arcs) == target[i] # NoOutput \/ \E a \in arcs : a[2] = i

\* An arc of the message, to a parent or after those to a child, cannot be made:
\* the arcs before it have been, the node is not registered, and clients are
\* told of none.  A parent is linked after its child; an arc to a child that
\* exists but whose input is taken has been made on the side of the new node.
AddNodeFails(n, arcs, o, i) ==
    /\ Linkable(n, arcs)
    /\ <<o, i>> \notin arcs
    /\ LET exists == IF OutputOf[o] = n THEN InputOf[i] \in nodes ELSE OutputOf[o] \in nodes
       IN  /\ \/ OutputOf[o] = n
              \/ InputOf[i] = n /\ \A a \in arcs : InputOf[a[2]] = n
           /\ exists /\ <<o, i>> \in Compatible => Taken(i, arcs)
           /\ target' = Target(target, arcs)
           /\ links' = Links(links, IF OutputOf[o] = n /\ exists
                                    THEN arcs \cup ({<<o, i>>} \cap Compatible)
                                    ELSE arcs)
    /\ misused' = TRUE
    /\ UNCHANGED <<nodes, announced>>

\* The nodes of S are unlinked from their neighbours, and the neighbours that
\* they know of from them.
Keeps(S, o, i) ==
    /\ OutputOf[o] \notin S
    /\ InputOf[i] \in S => OutputOf[o] \notin Parents(InputOf[i])
ReadsOn(S, i) ==
    /\ InputOf[i] \notin S
    /\ target[i] # NoOutput /\ OutputOf[target[i]] \in S
        => InputOf[i] \notin Children(OutputOf[target[i]])
TargetWithout(S) == [i \in Input |-> IF ReadsOn(S, i) THEN target[i] ELSE NoOutput]
LinksWithout(S) == [o \in Output |-> [i \in Input |-> IF Keeps(S, o, i) THEN links[o][i] ELSE 0]]

\* The ArcRemoved messages: what the nodes of S are linked to, from their side.
ArcsOf(S) ==
    {a \in Output \X Input : \/ InputOf[a[2]] \in S /\ target[a[2]] = a[1]
                             \/ OutputOf[a[1]] \in S /\ links[a[1]][a[2]] > 0}

DefectForgetsChildren(n) ==
    /\ n \in nodes
    /\ nodes' = nodes \ {n}
    /\ target' = [i \in Input |-> IF InputOf[i] = n THEN NoOutput ELSE target[i]]
    /\ links' = LinksWithout({n})
    /\ announced' = announced \ ArcsOf({n})
    /\ UNCHANGED misused

DefectTellsOfInputs(n) ==
    /\ n \in nodes
    /\ nodes' = nodes \ {n}
    /\ target' = TargetWithout({n})
    /\ links' = LinksWithout({n})
    /\ announced' = {a \in announced : InputOf[a[2]] # n}
    /\ UNCHANGED misused

RemoveNode(n) ==
    /\ n \in nodes
    /\ nodes' = nodes \ {n}
    /\ target' = TargetWithout({n})
    /\ links' = LinksWithout({n})
    /\ announced' = announced \ ArcsOf({n})
    /\ UNCHANGED misused

DefectJustForgets ==
    /\ nodes # {}
    /\ nodes' = {}
    /\ UNCHANGED <<target, links, announced, misused>>

ClearPipeline ==
    /\ nodes # {}
    /\ nodes' = {}
    /\ target' = TargetWithout(nodes)
    /\ links' = LinksWithout(nodes)
    /\ announced' = announced \ ArcsOf(nodes)
    /\ UNCHANGED misused

\* All nodes are removed, new ones made and linked, and the whole graph is
\* announced.  Arcs that cannot be made are left out, one by one.
SetPipeline(S, arcs) ==
    /\ \A n \in S : Unlinked(n, TargetWithout(nodes), LinksWithout(nodes))
    /\ OneToAnInput(arcs)
    /\ nodes' = S
    /\ target' = Target(TargetWithout(nodes), arcs \cap Compatible)
    /\ links' = Links(LinksWithout(nodes), arcs \cap Compatible)
    /\ announced' = arcs \cap Compatible
    /\ UNCHANGED misused

-----------------------------------------------------------------------------
Init ==
    /\ nodes = {}
    /\ target = [i \in Input |-> NoOutput]
    /\ links = [o \in Output |-> [i \in Input |-> 0]]
    /\ announced = {}
    /\ misused = FALSE

Next ==
    \/ \E o \in Output, i \in Input : AddArc(o, i) \/ RemoveArc(o, i)
    \/ \E n \in Node : \E arcs \in SUBSET ArcsAt(n) :
            \/ AddNode(n, arcs)
            \/ \E o \in Output, i \in Input : AddNodeFails(n, arcs, o, i)
    \/ \E n \in Node : RemoveNode(n)
    \/ ClearPipeline
    \/ \E S \in SUBSET Node : \E arcs \in SUBSET ArcsAmong(S) : SetPipeline(S, arcs)

Spec == Init /\ [][Next]_vars

-----------------------------------------------------------------------------
(* Properties *)

\* The type invariant; only an output and an input of one type
\* are linked.
TypeOK ==
    /\ nodes \subseteq Node
    /\ target \in [Input -> Output \cup {NoOutput}]
    /\ \A i \in Input : target[i] # NoOutput => <<target[i], i>> \in Compatible
    /\ links \in [Output -> [Input -> Nat]]
    /\ \A o \in Output, i \in Input : links[o][i] > 0 => <<o, i>> \in Compatible
    /\ announced \subseteq Output \X Input
    /\ misused \in BOOLEAN

\* Whatever the messages were, a parent tells every child that reads from it: a
\* child that is not told keeps its old image and never runs again.
ReadersAreTold == \A i \in Input : target[i] # NoOutput => links[target[i]][i] > 0

\* imageProcessor.cpp:163: "the graph is linked both ways".  While messages name
\* arcs that exist and arcs that can be made, it is, through any sequence of
\* replacing arcs and removing nodes.  An arc left on the parent's side would
\* keep the removed child alive and told for ever.
LinkedBothWays ==
    ~misused => \A o \in Output, i \in Input : links[o][i] = IF target[i] = o THEN 1 ELSE 0

\* Then also the arcs are exactly those that the messages have told of: clients
\* draw the graph from them and name arcs by them.
ClientsKnowTheArcs ==
    ~misused => announced = {a \in Output \X Input : target[a[2]] = a[1]}

\* Then also no node reads from one that is not registered, which no message
\* can reach any more, nor is such a node left linked.
LinkedNodesAreRegistered ==
    ~misused => \A i \in Input : target[i] # NoOutput =>
        InputOf[i] \in nodes /\ OutputOf[target[i]] \in nodes
=============================================================================
