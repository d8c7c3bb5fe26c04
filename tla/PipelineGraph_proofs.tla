------------------------ MODULE PipelineGraph_proofs ------------------------
(***************************************************************************)
(* Proofs about the graph of the image pipeline, for any nodes with any    *)
(* inputs and outputs.  The invariants are proved together: that an arc to *)
(* be replaced is cut on both sides needs that the parent lists it         *)
(* (ReadersAreTold) and can be looked up (LinkedNodesAreRegistered), and   *)
(* they need in turn that nothing else is left in its list.                *)
(***************************************************************************)
EXTENDS PipelineGraph, TLAPS



\* What a list becomes when it gets an arc, or loses one, point by point.
LEMMA OneMoreIs ==
    ASSUME NEW l \in [Output -> [Input -> Nat]], NEW o \in Output, NEW i \in Input
    PROVE  /\ OneMore(l, o, i) \in [Output -> [Input -> Nat]]
           /\ \A p \in Output, j \in Input :
                OneMore(l, o, i)[p][j] = IF p = o /\ j = i THEN l[p][j] + 1 ELSE l[p][j]
  BY DEF OneMore

LEMMA OneLessIs ==
    ASSUME NEW l \in [Output -> [Input -> Nat]], NEW o \in Output, NEW i \in Input, l[o][i] > 0
    PROVE  /\ OneLess(l, o, i) \in [Output -> [Input -> Nat]]
           /\ \A p \in Output, j \in Input :
                OneLess(l, o, i)[p][j] = IF p = o /\ j = i THEN l[p][j] - 1 ELSE l[p][j]
  BY DEF OneLess

\* What the linking functions make of a graph.
LEMMA ClearInputIs ==
    \A t, l, i : ClearInput(Linked(t, l), i) = Linked([t EXCEPT ![i] = NoOutput], l)
  BY DEF Linked, ClearInput

LEMMA ClearOutputIs ==
    \A t, l, o, i : l[o][i] > 0 => ClearOutput(Linked(t, l), o, i) = Linked(t, OneLess(l, o, i))
  BY DEF Linked, ClearOutput

LEMMA SetOutputIs ==
    \A t, l, o, i :
        /\ <<o, i>> \in Compatible => SetOutput(Linked(t, l), o, i) = Linked(t, OneMore(l, o, i))
        /\ <<o, i>> \notin Compatible => SetOutput(Linked(t, l), o, i) = Thrown(t, l)
  BY DEF Linked, Thrown, SetOutput

LEMMA SetInputIs ==
    \A t, l, o, i :
        /\ <<o, i>> \in Compatible /\ t[i] = NoOutput
            => SetInput(Linked(t, l), i, o) = Linked([t EXCEPT ![i] = o], l)
        /\ SetInput(Thrown(t, l), i, o) = Thrown(t, l)
  BY DEF Linked, Thrown, SetInput

\* The lists without the arc that the input i has, if its parent is found.
Freed(i) == IF KnownParent(i) THEN OneLess(links, target[i], i) ELSE links

LEMMA FreedIs ==
    ASSUME TypeOK, ReadersAreTold, NEW i \in Input
    PROVE  /\ Freed(i) \in [Output -> [Input -> Nat]]
           /\ \A p \in Output, j \in Input :
                Freed(i)[p][j] = IF KnownParent(i) /\ p = target[i] /\ j = i
                                 THEN links[p][j] - 1 ELSE links[p][j]
  BY OneLessIs DEF Freed, TypeOK, ReadersAreTold, KnownParent

\* AddArc either replaces the arc of the input or, when the new one cannot be
\* made, leaves the input without.
LEMMA AddArcIs ==
    ASSUME TypeOK, ReadersAreTold, NEW o \in Output, NEW i \in Input, AddArc(o, i)
    PROVE  /\ <<o, i>> \in Compatible =>
                /\ target' = [target EXCEPT ![i] = o]
                /\ links' = OneMore(Freed(i), o, i)
                /\ announced' = (announced \ {<<target[i], i>>}) \cup {<<o, i>>}
                /\ misused' = misused
           /\ <<o, i>> \notin Compatible =>
                /\ target' = [target EXCEPT ![i] = NoOutput]
                /\ links' = Freed(i)
                /\ announced' = announced
                /\ misused' = TRUE
           /\ nodes' = nodes
<1> DEFINE cleared == [target EXCEPT ![i] = NoOutput]
           freed == IF KnownParent(i) THEN ClearOutput(Linked(target, links), target[i], i) ELSE Linked(target, links)
           given == SetOutput(ClearInput(freed, i), o, i)
           after == SetInput(given, i, o)
<1>1. Becomes(after) /\ misused' = (misused \/ ~after.ok) /\ nodes' = nodes
      /\ announced' = IF after.ok THEN (announced \ {<<target[i], i>>}) \cup {<<o, i>>} ELSE announced
  BY DEF AddArc
<1>2. freed = Linked(target, Freed(i))
  <2>2. CASE KnownParent(i)
    <3>1. links[target[i]][i] > 0
      BY <2>2 DEF KnownParent, ReadersAreTold
    <3>2. ClearOutput(Linked(target, links), target[i], i) = Linked(target, OneLess(links, target[i], i))
      BY <3>1, ClearOutputIs
    <3>. QED  BY <2>2, <3>2 DEF Freed
  <2>3. CASE ~KnownParent(i)
    BY <2>3 DEF Freed
  <2>. QED  BY <2>2, <2>3
<1>. HIDE DEF freed
<1>3. ClearInput(freed, i) = Linked(cleared, Freed(i))
  BY <1>2, ClearInputIs
<1>4. cleared[i] = NoOutput /\ [cleared EXCEPT ![i] = o] = [target EXCEPT ![i] = o]
  BY DEF TypeOK
<1>. HIDE DEF cleared
<1>5. CASE <<o, i>> \in Compatible
  <2>1. given = Linked(cleared, OneMore(Freed(i), o, i))
    BY <1>3, <1>5, SetOutputIs
  <2>. HIDE DEF given
  <2>2. after = Linked([target EXCEPT ![i] = o], OneMore(Freed(i), o, i))
    BY <2>1, <1>4, <1>5, SetInputIs
  <2>. HIDE DEF after
  <2>. QED  BY <1>1, <1>5, <2>2 DEF Becomes, Linked, TypeOK
<1>6. CASE <<o, i>> \notin Compatible
  <2>1. given = Thrown(cleared, Freed(i))
    BY <1>3, <1>6, SetOutputIs
  <2>. HIDE DEF given
  <2>2. after = Thrown(cleared, Freed(i))
    BY <2>1, SetInputIs
  <2>. HIDE DEF after
  <2>. QED  BY <1>1, <1>6, <2>2 DEF Becomes, Thrown, cleared, TypeOK
<1>. QED  BY <1>5, <1>6

\* RemoveArc takes the arc out of the list only of the node it names.
LEMMA RemoveArcIs ==
    ASSUME TypeOK, ReadersAreTold, NEW o \in Output, NEW i \in Input, RemoveArc(o, i)
    PROVE  /\ target' = [target EXCEPT ![i] = NoOutput]
           /\ links' = IF KnownParent(i) /\ OutputOf[target[i]] = OutputOf[o] THEN Freed(i) ELSE links
           /\ announced' = announced \ {<<o, i>>}
           /\ misused' = (misused \/ target[i] # o)
           /\ nodes' = nodes
<1> DEFINE named == KnownParent(i) /\ OutputOf[target[i]] = OutputOf[o]
           cut == IF named THEN ClearOutput(Linked(target, links), target[i], i) ELSE Linked(target, links)
           left == IF named THEN Freed(i) ELSE links
           after == ClearInput(cut, i)
<1>1. cut = Linked(target, left)
  <2>2. CASE named
    <3>1. links[target[i]][i] > 0
      BY <2>2 DEF KnownParent, ReadersAreTold
    <3>2. ClearOutput(Linked(target, links), target[i], i) = Linked(target, OneLess(links, target[i], i))
      BY <3>1, ClearOutputIs
    <3>. QED  BY <2>2, <3>2 DEF Freed
  <2>3. CASE ~named
    BY <2>3
  <2>. QED  BY <2>2, <2>3
<1>2. Becomes(after) /\ misused' = (misused \/ target[i] # o) /\ nodes' = nodes
      /\ announced' = IF after.ok THEN announced \ {<<o, i>>} ELSE announced
  BY DEF RemoveArc
<1>. HIDE DEF cut, left
<1>3. after = Linked([target EXCEPT ![i] = NoOutput], left)
  BY <1>1, ClearInputIs
<1>. HIDE DEF after
<1>. QED  BY <1>2, <1>3 DEF Becomes, Linked, left

-----------------------------------------------------------------------------
(* Arcs that are added to, and nodes that are taken out of a graph *)

LEMMA TargetIs ==
    ASSUME NEW t \in [Input -> Output \cup {NoOutput}], NEW arcs \in SUBSET (Output \X Input)
    PROVE  /\ Target(t, arcs) \in [Input -> Output \cup {NoOutput}]
           /\ \A i \in Input :
                \/ Target(t, arcs)[i] \in Output /\ <<Target(t, arcs)[i], i>> \in arcs
                \/ Target(t, arcs)[i] = t[i] /\ \A o \in Output : <<o, i>> \notin arcs
<1>1. ASSUME NEW i \in Input
      PROVE  \/ Target(t, arcs)[i] \in Output /\ <<Target(t, arcs)[i], i>> \in arcs
             \/ Target(t, arcs)[i] = t[i] /\ \A o \in Output : <<o, i>> \notin arcs
  <2>1. CASE \E o \in Output : <<o, i>> \in arcs
    BY <2>1 DEF Target
  <2>2. CASE ~\E o \in Output : <<o, i>> \in arcs
    BY <2>2 DEF Target
  <2>. QED  BY <2>1, <2>2
<1>2. Target(t, arcs) = [i \in Input |-> Target(t, arcs)[i]]
  BY DEF Target
<1>3. \A i \in Input : Target(t, arcs)[i] \in Output \cup {NoOutput}
  BY <1>1
<1>. QED  BY <1>1, <1>2, <1>3

LEMMA LinksIs ==
    ASSUME NEW l \in [Output -> [Input -> Nat]], NEW arcs \in SUBSET (Output \X Input)
    PROVE  /\ Links(l, arcs) \in [Output -> [Input -> Nat]]
           /\ \A o \in Output, i \in Input :
                Links(l, arcs)[o][i] = IF <<o, i>> \in arcs THEN l[o][i] + 1 ELSE l[o][i]
  BY DEF Links

\* Whoever gets an arc is told by its parent, too.
LEMMA AddedAreTold ==
    ASSUME NEW t \in [Input -> Output \cup {NoOutput}], NEW l \in [Output -> [Input -> Nat]],
           NEW arcs \in SUBSET (Output \X Input), NEW made \in SUBSET (Output \X Input), arcs \subseteq made,
           \A i \in Input : t[i] # NoOutput => l[t[i]][i] > 0
    PROVE  \A i \in Input : Target(t, arcs)[i] # NoOutput => Links(l, made)[Target(t, arcs)[i]][i] > 0
<1>. SUFFICES ASSUME NEW i \in Input, Target(t, arcs)[i] # NoOutput
              PROVE  Links(l, made)[Target(t, arcs)[i]][i] > 0
  OBVIOUS
<1>. DEFINE o == Target(t, arcs)[i]
<1>1. o \in Output
  BY TargetIs
<1>2. Links(l, made)[o][i] = IF <<o, i>> \in made THEN l[o][i] + 1 ELSE l[o][i]
  BY <1>1, LinksIs
<1>3. l[o][i] \in Nat
  BY <1>1
<1>4. CASE <<o, i>> \in arcs
  BY <1>2, <1>3, <1>4
<1>5. CASE <<o, i>> \notin arcs
  <2>1. o = t[i]
    BY <1>5, TargetIs
  <2>. QED  BY <1>2, <1>3, <2>1
<1>. QED  BY <1>4, <1>5

\* Lists l and targets t say the same, and arcs go to inputs that have none.
Both(t, l) == \A o \in Output, i \in Input : l[o][i] = IF t[i] = o THEN 1 ELSE 0
ToFree(t, arcs) ==
    \A o \in Output, i \in Input : <<o, i>> \in arcs =>
        t[i] = NoOutput /\ \A p \in Output : <<p, i>> \in arcs => p = o

\* Such arcs keep a graph linked both ways.
LEMMA AddedAreLinked ==
    ASSUME NEW t \in [Input -> Output \cup {NoOutput}], NEW l \in [Output -> [Input -> Nat]],
           NEW arcs \in SUBSET (Output \X Input), NoOutput \notin Output,
           Both(t, l), ToFree(t, arcs)
    PROVE  /\ Both(Target(t, arcs), Links(l, arcs))
           /\ \A o \in Output, i \in Input :
                Target(t, arcs)[i] = o <=> <<o, i>> \in arcs \/ t[i] = o
<1>. USE DEF Both, ToFree
<1>. SUFFICES ASSUME NEW o \in Output, NEW i \in Input
              PROVE  /\ Target(t, arcs)[i] = o <=> <<o, i>> \in arcs \/ t[i] = o
                     /\ Links(l, arcs)[o][i] = IF Target(t, arcs)[i] = o THEN 1 ELSE 0
  OBVIOUS
<1>1. Links(l, arcs)[o][i] = IF <<o, i>> \in arcs THEN l[o][i] + 1 ELSE l[o][i]
  BY LinksIs
<1>2. Target(t, arcs)[i] = o <=> <<o, i>> \in arcs \/ t[i] = o
  <2>1. \/ Target(t, arcs)[i] \in Output /\ <<Target(t, arcs)[i], i>> \in arcs
        \/ Target(t, arcs)[i] = t[i] /\ \A p \in Output : <<p, i>> \notin arcs
    BY TargetIs
  <2>. QED  BY <2>1
<1>3. l[o][i] = IF t[i] = o THEN 1 ELSE 0
  OBVIOUS
<1>. QED  BY <1>1, <1>2, <1>3

\* Nobody reads any more from a node that is taken out, and who reads on is told.
LEMMA WithoutIs ==
    ASSUME TypeOK, ReadersAreTold, NEW S
    PROVE  /\ TargetWithout(S) \in [Input -> Output \cup {NoOutput}]
           /\ LinksWithout(S) \in [Output -> [Input -> Nat]]
           /\ \A o \in Output, i \in Input : LinksWithout(S)[o][i] \in {links[o][i], 0}
           /\ \A i \in Input : TargetWithout(S)[i] # NoOutput =>
                /\ TargetWithout(S)[i] = target[i]
                /\ InputOf[i] \notin S /\ OutputOf[target[i]] \notin S
                /\ LinksWithout(S)[target[i]][i] > 0
<1>1. \A i \in Input : TargetWithout(S)[i] = IF ReadsOn(S, i) THEN target[i] ELSE NoOutput
  BY DEF TargetWithout
<1>2. \A o \in Output, i \in Input :
        LinksWithout(S)[o][i] = IF Keeps(S, o, i) THEN links[o][i] ELSE 0
  BY DEF LinksWithout
<1>3. TargetWithout(S) \in [Input -> Output \cup {NoOutput}]
  BY DEF TargetWithout, TypeOK
<1>4. LinksWithout(S) \in [Output -> [Input -> Nat]]
  BY DEF LinksWithout, TypeOK
<1>5. ASSUME NEW i \in Input, ReadsOn(S, i), target[i] # NoOutput
      PROVE  OutputOf[target[i]] \notin S /\ Keeps(S, target[i], i) /\ links[target[i]][i] > 0
  <2>1. target[i] \in Output /\ links[target[i]][i] > 0
    BY <1>5 DEF TypeOK, ReadersAreTold
  <2>2. InputOf[i] \in Children(OutputOf[target[i]])
    BY <2>1 DEF Children, OutputsOf
  <2>. QED  BY <1>5, <2>1, <2>2 DEF ReadsOn, Keeps
<1>6. \A i \in Input : ReadsOn(S, i) => InputOf[i] \notin S
  BY DEF ReadsOn
<1>7. \A i \in Input : target[i] # NoOutput => target[i] \in Output
  BY DEF TypeOK
<1>8. \A o \in Output, i \in Input : LinksWithout(S)[o][i] \in {links[o][i], 0}
  BY <1>2
<1>9. \A i \in Input : TargetWithout(S)[i] # NoOutput =>
        /\ TargetWithout(S)[i] = target[i]
        /\ InputOf[i] \notin S /\ OutputOf[target[i]] \notin S
        /\ LinksWithout(S)[target[i]][i] > 0
  BY <1>1, <1>2, <1>5, <1>6, <1>7
<1>. QED  BY <1>3, <1>4, <1>8, <1>9

\* The invariant: all the properties of the module together.
Sound ==
    /\ TypeOK
    /\ ReadersAreTold
    /\ LinkedBothWays
    /\ ClientsKnowTheArcs
    /\ LinkedNodesAreRegistered

\* While the graph is linked both ways, exactly the arcs go that nodes of S are
\* an end of, and on both sides.
LEMMA ArcsWithout ==
    ASSUME Sound, ~misused, NEW S
    PROVE  /\ \A i \in Input :
                TargetWithout(S)[i] = IF /\ target[i] # NoOutput
                                         /\ InputOf[i] \notin S
                                         /\ OutputOf[target[i]] \notin S
                                      THEN target[i] ELSE NoOutput
           /\ \A o \in Output, i \in Input :
                LinksWithout(S)[o][i] = IF TargetWithout(S)[i] = o THEN 1 ELSE 0
<1>. USE GraphAssumption DEF GraphAssumption
<1>1. \A i \in Input :
        TargetWithout(S)[i] = IF /\ target[i] # NoOutput
                                 /\ InputOf[i] \notin S
                                 /\ OutputOf[target[i]] \notin S
                              THEN target[i] ELSE NoOutput
  <2>1. \A i \in Input : TargetWithout(S)[i] = IF ReadsOn(S, i) THEN target[i] ELSE NoOutput
    BY DEF TargetWithout
  <2>2. \A i \in Input : TargetWithout(S)[i] # NoOutput =>
            InputOf[i] \notin S /\ OutputOf[target[i]] \notin S
    BY WithoutIs DEF Sound
  <2>. QED  BY <2>1, <2>2 DEF ReadsOn
<1>2. ASSUME NEW o \in Output, NEW i \in Input
      PROVE  LinksWithout(S)[o][i] = IF TargetWithout(S)[i] = o THEN 1 ELSE 0
  <2>1. LinksWithout(S)[o][i] = IF Keeps(S, o, i) THEN links[o][i] ELSE 0
    BY DEF LinksWithout
  <2>2. links[o][i] = IF target[i] = o THEN 1 ELSE 0
    BY DEF Sound, LinkedBothWays
  <2>3. CASE target[i] = o
    <3>1. OutputOf[o] \in Parents(InputOf[i])
      BY <2>3 DEF Parents, InputsOf
    <3>. QED  BY <1>1, <2>1, <2>2, <2>3, <3>1 DEF Keeps
  <2>4. CASE target[i] # o
    BY <1>1, <2>1, <2>2, <2>4
  <2>. QED  BY <2>3, <2>4
<1>. QED  BY <1>1, <1>2

-----------------------------------------------------------------------------
(* Each message keeps the invariant *)

LEMMA AddArcKeeps ==
    ASSUME Sound, NEW o \in Output, NEW i \in Input, AddArc(o, i)
    PROVE  Sound'
<1>. USE GraphAssumption DEF GraphAssumption
<1>1. TypeOK /\ ReadersAreTold
  BY DEF Sound
<1>2. CASE <<o, i>> \in Compatible
  <2>1. /\ target' = [target EXCEPT ![i] = o]
        /\ links' = OneMore(Freed(i), o, i)
        /\ announced' = (announced \ {<<target[i], i>>}) \cup {<<o, i>>}
        /\ misused' = misused /\ nodes' = nodes
    BY <1>1, <1>2, AddArcIs
  <2>2. /\ Freed(i) \in [Output -> [Input -> Nat]]
        /\ \A p \in Output, j \in Input :
                Freed(i)[p][j] = IF KnownParent(i) /\ p = target[i] /\ j = i
                                 THEN links[p][j] - 1 ELSE links[p][j]
    BY <1>1, FreedIs
  <2>3. /\ links' \in [Output -> [Input -> Nat]]
        /\ \A p \in Output, j \in Input :
                links'[p][j] = IF p = o /\ j = i THEN Freed(i)[p][j] + 1 ELSE Freed(i)[p][j]
    BY <2>1, <2>2, OneMoreIs
  <2>4. target' \in [Input -> Output \cup {NoOutput}]
        /\ \A j \in Input : target'[j] = IF j = i THEN o ELSE target[j]
    BY <1>1, <2>1 DEF TypeOK
  <2>. HIDE GraphAssumption DEF GraphAssumption
  <2>5. TypeOK'
    <3>1. \A j \in Input : target'[j] # NoOutput => <<target'[j], j>> \in Compatible
      BY <1>1, <1>2, <2>4 DEF TypeOK
    <3>2. \A p \in Output, j \in Input : links'[p][j] > 0 => <<p, j>> \in Compatible
      <4>1. \A p \in Output, j \in Input : links[p][j] \in Nat /\ (links[p][j] > 0 => <<p, j>> \in Compatible)
        BY <1>1 DEF TypeOK
      <4>2. ASSUME NEW p \in Output, NEW j \in Input, Freed(i)[p][j] > 0
            PROVE  links[p][j] > 0
        <5>1. Freed(i)[p][j] = links[p][j] - 1 \/ Freed(i)[p][j] = links[p][j]
          BY <2>2
        <5>2. links[p][j] \in Nat
          BY <4>1
        <5>. QED  BY <4>2, <5>1, <5>2
      <4>3. ASSUME NEW p \in Output, NEW j \in Input, links'[p][j] > 0
            PROVE  <<p, j>> \in Compatible
        <5>1. (p = o /\ j = i) \/ links'[p][j] = Freed(i)[p][j]
          BY <2>3
        <5>. QED  BY <1>2, <4>1, <4>2, <4>3, <5>1
      <4>. QED  BY <4>3
    <3>3. announced' \subseteq Output \X Input
      BY <1>1, <2>1 DEF TypeOK
    <3>. QED  BY <1>1, <2>1, <2>3, <2>4, <3>1, <3>2, <3>3 DEF TypeOK
  <2>6. ReadersAreTold'
    BY <1>1, <2>2, <2>3, <2>4 DEF TypeOK, ReadersAreTold
  <2>7. ASSUME ~misused' PROVE LinkedBothWays' /\ ClientsKnowTheArcs' /\ LinkedNodesAreRegistered'
    <3>1. /\ \A p \in Output, j \in Input : links[p][j] = IF target[j] = p THEN 1 ELSE 0
          /\ announced = {a \in Output \X Input : target[a[2]] = a[1]}
          /\ \A j \in Input : target[j] # NoOutput =>
                InputOf[j] \in nodes /\ OutputOf[target[j]] \in nodes
      BY <2>1, <2>7 DEF Sound, LinkedBothWays, ClientsKnowTheArcs, LinkedNodesAreRegistered
    <3>2. KnownParent(i) <=> target[i] # NoOutput
      BY <3>1 DEF KnownParent
    <3>3. NoOutput \notin Output
      BY GraphAssumption DEF GraphAssumption
    <3>4. LinkedBothWays'
      BY <2>2, <2>3, <2>4, <3>1, <3>2, <3>3 DEF LinkedBothWays
    <3>5. ClientsKnowTheArcs'
      BY <2>1, <2>4, <3>1 DEF ClientsKnowTheArcs
    <3>6. LinkedNodesAreRegistered'
      BY <2>1, <2>4, <3>1 DEF LinkedNodesAreRegistered, AddArc
    <3>. QED  BY <3>4, <3>5, <3>6
  <2>. QED  BY <2>5, <2>6, <2>7 DEF Sound, LinkedBothWays, ClientsKnowTheArcs, LinkedNodesAreRegistered
<1>3. CASE <<o, i>> \notin Compatible
  <2>1. /\ target' = [target EXCEPT ![i] = NoOutput] /\ links' = Freed(i)
        /\ announced' = announced /\ misused' = TRUE /\ nodes' = nodes
    BY <1>1, <1>3, AddArcIs
  <2>2. /\ Freed(i) \in [Output -> [Input -> Nat]]
        /\ \A p \in Output, j \in Input :
                Freed(i)[p][j] = IF KnownParent(i) /\ p = target[i] /\ j = i
                                 THEN links[p][j] - 1 ELSE links[p][j]
    BY <1>1, FreedIs
  <2>3. target' \in [Input -> Output \cup {NoOutput}]
        /\ \A j \in Input : target'[j] = IF j = i THEN NoOutput ELSE target[j]
    BY <1>1, <2>1 DEF TypeOK
  <2>. HIDE GraphAssumption DEF GraphAssumption
  <2>4. TypeOK'
    BY <1>1, <2>1, <2>2, <2>3 DEF TypeOK
  <2>5. ReadersAreTold'
    BY <1>1, <2>1, <2>2, <2>3 DEF TypeOK, ReadersAreTold
  <2>. QED  BY <2>1, <2>4, <2>5 DEF Sound, LinkedBothWays, ClientsKnowTheArcs, LinkedNodesAreRegistered
<1>. QED  BY <1>2, <1>3

LEMMA RemoveArcKeeps ==
    ASSUME Sound, NEW o \in Output, NEW i \in Input, RemoveArc(o, i)
    PROVE  Sound'
<1>1. TypeOK /\ ReadersAreTold
  BY DEF Sound
<1>2. /\ target' = [target EXCEPT ![i] = NoOutput]
      /\ links' = IF KnownParent(i) /\ OutputOf[target[i]] = OutputOf[o] THEN Freed(i) ELSE links
      /\ announced' = announced \ {<<o, i>>}
      /\ misused' = (misused \/ target[i] # o)
      /\ nodes' = nodes
  BY <1>1, RemoveArcIs
<1>3. /\ Freed(i) \in [Output -> [Input -> Nat]]
      /\ \A p \in Output, j \in Input :
                Freed(i)[p][j] = IF KnownParent(i) /\ p = target[i] /\ j = i
                                 THEN links[p][j] - 1 ELSE links[p][j]
  BY <1>1, FreedIs
<1>4. target' \in [Input -> Output \cup {NoOutput}]
      /\ \A j \in Input : target'[j] = IF j = i THEN NoOutput ELSE target[j]
  BY <1>1, <1>2 DEF TypeOK
<1>5. TypeOK'
  BY <1>1, <1>2, <1>3, <1>4 DEF TypeOK
<1>6. ReadersAreTold'
  BY <1>1, <1>2, <1>3, <1>4 DEF TypeOK, ReadersAreTold
<1>7. ASSUME ~misused' PROVE LinkedBothWays' /\ ClientsKnowTheArcs' /\ LinkedNodesAreRegistered'
  <2>1. ~misused /\ target[i] = o
    BY <1>2, <1>7 DEF Sound, TypeOK
  <2>2. /\ \A p \in Output, j \in Input : links[p][j] = IF target[j] = p THEN 1 ELSE 0
        /\ announced = {a \in Output \X Input : target[a[2]] = a[1]}
        /\ \A j \in Input : target[j] # NoOutput =>
              InputOf[j] \in nodes /\ OutputOf[target[j]] \in nodes
    BY <2>1 DEF Sound, LinkedBothWays, ClientsKnowTheArcs, LinkedNodesAreRegistered
  <2>3. NoOutput \notin Output
    BY GraphAssumption DEF GraphAssumption
  <2>4. links' = Freed(i) /\ KnownParent(i)
    BY <1>2, <2>1, <2>2, <2>3 DEF KnownParent
  <2>5. LinkedBothWays'
    BY <1>3, <1>4, <2>1, <2>2, <2>3, <2>4 DEF LinkedBothWays
  <2>6. ClientsKnowTheArcs'
    BY <1>2, <1>4, <2>1, <2>2, <2>3 DEF ClientsKnowTheArcs
  <2>7. LinkedNodesAreRegistered'
    BY <1>2, <1>4, <2>2 DEF LinkedNodesAreRegistered
  <2>. QED  BY <2>5, <2>6, <2>7
<1>. QED  BY <1>5, <1>6, <1>7 DEF Sound, LinkedBothWays, ClientsKnowTheArcs, LinkedNodesAreRegistered

LEMMA AddNodeKeeps ==
    ASSUME Sound, NEW n \in Node, NEW arcs \in SUBSET ArcsAt(n), AddNode(n, arcs)
    PROVE  Sound'
<1>1. TypeOK /\ ReadersAreTold
  BY DEF Sound
<1>2. arcs \subseteq Output \X Input /\ arcs \subseteq Compatible
  BY GraphAssumption DEF GraphAssumption, ArcsAt
<1>3. /\ target' \in [Input -> Output \cup {NoOutput}]
      /\ \A i \in Input :
                \/ target'[i] \in Output /\ <<target'[i], i>> \in arcs
                \/ target'[i] = target[i] /\ \A o \in Output : <<o, i>> \notin arcs
  BY <1>1, <1>2, TargetIs DEF AddNode, TypeOK
<1>4. /\ links' \in [Output -> [Input -> Nat]]
      /\ \A o \in Output, i \in Input :
                links'[o][i] = IF <<o, i>> \in arcs THEN links[o][i] + 1 ELSE links[o][i]
  BY <1>1, <1>2, LinksIs DEF AddNode, TypeOK
<1>5. nodes' = nodes \cup {n} /\ announced' = announced \cup arcs /\ misused' = misused
  BY DEF AddNode
<1>6. TypeOK'
  <2>1. \A i \in Input : target'[i] # NoOutput => <<target'[i], i>> \in Compatible
    BY <1>1, <1>2, <1>3 DEF TypeOK
  <2>2. \A o \in Output, i \in Input : links'[o][i] > 0 => <<o, i>> \in Compatible
    BY <1>1, <1>2, <1>4 DEF TypeOK
  <2>. QED  BY <1>1, <1>2, <1>3, <1>4, <1>5, <2>1, <2>2 DEF TypeOK
<1>7. ReadersAreTold'
  BY <1>1, <1>2, AddedAreTold DEF AddNode, TypeOK, ReadersAreTold
<1>8. ASSUME ~misused' PROVE LinkedBothWays' /\ ClientsKnowTheArcs' /\ LinkedNodesAreRegistered'
  <2>1. /\ \A o \in Output, i \in Input : links[o][i] = IF target[i] = o THEN 1 ELSE 0
        /\ announced = {a \in Output \X Input : target[a[2]] = a[1]}
        /\ \A i \in Input : target[i] # NoOutput =>
              InputOf[i] \in nodes /\ OutputOf[target[i]] \in nodes
    BY <1>5, <1>8 DEF Sound, LinkedBothWays, ClientsKnowTheArcs, LinkedNodesAreRegistered
  <2>2. NoOutput \notin Output
    BY GraphAssumption DEF GraphAssumption
  <2>3. \A o \in Output, i \in Input : <<o, i>> \in arcs =>
            /\ target[i] = NoOutput
            /\ InputOf[i] \in nodes \cup {n} /\ OutputOf[o] \in nodes \cup {n}
            /\ \A p \in Output : <<p, i>> \in arcs => p = o
    BY DEF AddNode, Linkable, OneToAnInput
  <2>4. \A o \in Output, i \in Input :
            /\ target'[i] = o <=> <<o, i>> \in arcs \/ target[i] = o
            /\ links'[o][i] = IF target'[i] = o THEN 1 ELSE 0
    <3>1. target' = Target(target, arcs) /\ links' = Links(links, arcs)
      BY DEF AddNode
    <3>2. target \in [Input -> Output \cup {NoOutput}] /\ links \in [Output -> [Input -> Nat]]
      BY <1>1 DEF TypeOK
    <3>3. ToFree(target, arcs)
      BY <2>3 DEF ToFree
    <3>4. Both(target, links)
      BY <2>1 DEF Both
    <3>5. Both(target', links')
          /\ \A o \in Output, i \in Input : target'[i] = o <=> <<o, i>> \in arcs \/ target[i] = o
      BY <1>2, <2>2, <3>1, <3>2, <3>3, <3>4, AddedAreLinked
    <3>. QED  BY <3>5 DEF Both
  <2>5. LinkedBothWays' /\ ClientsKnowTheArcs'
    <3>1. \A o \in Output, i \in Input : <<o, i>> \in announced' <=> target'[i] = o
      BY <1>5, <2>1, <2>4
    <3>2. LinkedBothWays'
      BY <2>4 DEF LinkedBothWays
    <3>3. ClientsKnowTheArcs'
      BY <1>6, <3>1 DEF ClientsKnowTheArcs, TypeOK
    <3>. QED  BY <3>2, <3>3
  <2>6. LinkedNodesAreRegistered'
    BY <1>3, <1>5, <2>1, <2>3 DEF LinkedNodesAreRegistered
  <2>. QED  BY <2>5, <2>6
<1>. QED  BY <1>6, <1>7, <1>8 DEF Sound, LinkedBothWays, ClientsKnowTheArcs, LinkedNodesAreRegistered

LEMMA AddNodeFailsKeeps ==
    ASSUME Sound, NEW n \in Node, NEW arcs \in SUBSET ArcsAt(n),
           NEW o \in Output, NEW i \in Input, AddNodeFails(n, arcs, o, i)
    PROVE  Sound'
<1>1. TypeOK /\ ReadersAreTold
  BY DEF Sound
<1>2. arcs \subseteq Output \X Input /\ arcs \subseteq Compatible
  BY GraphAssumption DEF GraphAssumption, ArcsAt
<1>3. /\ target' \in [Input -> Output \cup {NoOutput}]
      /\ \A j \in Input :
                \/ target'[j] \in Output /\ <<target'[j], j>> \in arcs
                \/ target'[j] = target[j] /\ \A p \in Output : <<p, j>> \notin arcs
  BY <1>1, <1>2, TargetIs DEF AddNodeFails, TypeOK
<1>4. PICK made \in SUBSET Compatible : arcs \subseteq made /\ links' = Links(links, made)
  BY <1>2 DEF AddNodeFails
<1>5. made \subseteq Output \X Input
  BY <1>4, GraphAssumption DEF GraphAssumption
<1>6. /\ links' \in [Output -> [Input -> Nat]]
      /\ \A p \in Output, j \in Input :
                links'[p][j] = IF <<p, j>> \in made THEN links[p][j] + 1 ELSE links[p][j]
  BY <1>1, <1>4, <1>5, LinksIs DEF TypeOK
<1>7. nodes' = nodes /\ announced' = announced /\ misused' = TRUE
  BY DEF AddNodeFails
<1>8. TypeOK'
  <2>1. \A j \in Input : target'[j] # NoOutput => <<target'[j], j>> \in Compatible
    BY <1>1, <1>2, <1>3 DEF TypeOK
  <2>2. \A p \in Output, j \in Input : links'[p][j] > 0 => <<p, j>> \in Compatible
    BY <1>1, <1>4, <1>6 DEF TypeOK
  <2>. QED  BY <1>1, <1>3, <1>6, <1>7, <2>1, <2>2 DEF TypeOK
<1>9. ReadersAreTold'
  BY <1>1, <1>2, <1>4, <1>5, AddedAreTold DEF AddNodeFails, TypeOK, ReadersAreTold
<1>. QED  BY <1>7, <1>8, <1>9 DEF Sound, LinkedBothWays, ClientsKnowTheArcs, LinkedNodesAreRegistered

\* RemoveNode takes out one node, ClearPipeline all.
LEMMA RemovalKeeps ==
    ASSUME Sound, NEW S, nodes' = nodes \ S, target' = TargetWithout(S), links' = LinksWithout(S),
           announced' = announced \ ArcsOf(S), misused' = misused
    PROVE  Sound'
<1>1. TypeOK /\ ReadersAreTold
  BY DEF Sound
<1>2. /\ target' \in [Input -> Output \cup {NoOutput}]
      /\ links' \in [Output -> [Input -> Nat]]
      /\ \A o \in Output, i \in Input : links'[o][i] \in {links[o][i], 0}
      /\ \A i \in Input : target'[i] # NoOutput => target'[i] = target[i] /\ links'[target[i]][i] > 0
  BY <1>1, WithoutIs
<1>3. TypeOK'
  BY <1>1, <1>2 DEF TypeOK
<1>4. ReadersAreTold'
  BY <1>2 DEF ReadersAreTold
<1>5. ASSUME ~misused' PROVE LinkedBothWays' /\ ClientsKnowTheArcs' /\ LinkedNodesAreRegistered'
  <2>1. /\ \A o \in Output, i \in Input : links[o][i] = IF target[i] = o THEN 1 ELSE 0
        /\ announced = {a \in Output \X Input : target[a[2]] = a[1]}
        /\ \A i \in Input : target[i] # NoOutput =>
              InputOf[i] \in nodes /\ OutputOf[target[i]] \in nodes
    BY <1>5 DEF Sound, LinkedBothWays, ClientsKnowTheArcs, LinkedNodesAreRegistered
  <2>2. /\ \A i \in Input :
                target'[i] = IF /\ target[i] # NoOutput
                                /\ InputOf[i] \notin S
                                /\ OutputOf[target[i]] \notin S
                             THEN target[i] ELSE NoOutput
        /\ \A o \in Output, i \in Input : links'[o][i] = IF target'[i] = o THEN 1 ELSE 0
    BY <1>5, ArcsWithout
  <2>3. LinkedBothWays'
    BY <2>2 DEF LinkedBothWays
  <2>4. ClientsKnowTheArcs'
    <3>1. NoOutput \notin Output
      BY GraphAssumption DEF GraphAssumption
    <3>2. \A o \in Output, i \in Input : <<o, i>> \in announced' <=> target'[i] = o
      BY <2>1, <2>2, <3>1 DEF ArcsOf
    <3>. QED  BY <1>3, <3>2 DEF ClientsKnowTheArcs, TypeOK
  <2>5. LinkedNodesAreRegistered'
    BY <2>1, <2>2 DEF LinkedNodesAreRegistered
  <2>. QED  BY <2>3, <2>4, <2>5
<1>. QED  BY <1>3, <1>4, <1>5 DEF Sound, LinkedBothWays, ClientsKnowTheArcs, LinkedNodesAreRegistered

LEMMA SetPipelineKeeps ==
    ASSUME Sound, NEW S \in SUBSET Node, NEW arcs \in SUBSET ArcsAmong(S), SetPipeline(S, arcs)
    PROVE  Sound'
<1> DEFINE made == arcs \cap Compatible
<1>1. TypeOK /\ ReadersAreTold
  BY DEF Sound
<1>2. made \subseteq Output \X Input /\ made \subseteq Compatible
  BY GraphAssumption DEF GraphAssumption
<1>3. /\ TargetWithout(nodes) \in [Input -> Output \cup {NoOutput}]
      /\ LinksWithout(nodes) \in [Output -> [Input -> Nat]]
      /\ \A o \in Output, i \in Input : LinksWithout(nodes)[o][i] \in {links[o][i], 0}
      /\ \A i \in Input : TargetWithout(nodes)[i] # NoOutput =>
            /\ TargetWithout(nodes)[i] = target[i]
            /\ InputOf[i] \notin nodes
            /\ LinksWithout(nodes)[target[i]][i] > 0
  BY <1>1, WithoutIs
<1>4. /\ target' \in [Input -> Output \cup {NoOutput}]
      /\ \A i \in Input :
            \/ target'[i] \in Output /\ <<target'[i], i>> \in made
            \/ target'[i] = TargetWithout(nodes)[i] /\ \A o \in Output : <<o, i>> \notin made
  <2>1. target' = Target(TargetWithout(nodes), made)
    BY DEF SetPipeline
  <2>. HIDE DEF made
  <2>. QED  BY <1>2, <1>3, <2>1, TargetIs
<1>5. /\ links' \in [Output -> [Input -> Nat]]
      /\ \A o \in Output, i \in Input :
            links'[o][i] = IF <<o, i>> \in made THEN LinksWithout(nodes)[o][i] + 1
                                                ELSE LinksWithout(nodes)[o][i]
  BY <1>2, <1>3, LinksIs DEF SetPipeline
<1>6. nodes' = S /\ announced' = made /\ misused' = misused
  BY DEF SetPipeline
<1>7. \A o \in Output, i \in Input : <<o, i>> \in made =>
        /\ InputOf[i] \in S /\ OutputOf[o] \in S
        /\ \A p \in Output : <<p, i>> \in made => p = o
  BY DEF ArcsAmong, SetPipeline, OneToAnInput
<1>. HIDE DEF made
<1>8. TypeOK'
  <2>1. \A i \in Input : target'[i] # NoOutput => <<target'[i], i>> \in Compatible
    BY <1>1, <1>2, <1>3, <1>4 DEF TypeOK
  <2>2. \A o \in Output, i \in Input : links'[o][i] > 0 => <<o, i>> \in Compatible
    BY <1>1, <1>2, <1>3, <1>5 DEF TypeOK
  <2>. QED  BY <1>1, <1>2, <1>4, <1>5, <1>6, <2>1, <2>2 DEF TypeOK
<1>9. ReadersAreTold'
  <2>1. target' = Target(TargetWithout(nodes), made) /\ links' = Links(LinksWithout(nodes), made)
    BY DEF SetPipeline, made
  <2>2. \A i \in Input : TargetWithout(nodes)[i] # NoOutput
            => LinksWithout(nodes)[TargetWithout(nodes)[i]][i] > 0
    BY <1>3
  <2>. QED  BY <1>2, <1>3, <2>1, <2>2, AddedAreTold DEF ReadersAreTold
<1>10. ASSUME ~misused' PROVE LinkedBothWays' /\ ClientsKnowTheArcs' /\ LinkedNodesAreRegistered'
  <2>1. \A i \in Input : TargetWithout(nodes)[i] = NoOutput
    BY <1>3, <1>6, <1>10 DEF Sound, LinkedNodesAreRegistered
  <2>2. \A o \in Output, i \in Input : LinksWithout(nodes)[o][i] = 0
    <3>1. NoOutput \notin Output
      BY GraphAssumption DEF GraphAssumption
    <3>. QED  BY <1>6, <1>10, <2>1, <3>1, ArcsWithout
  <2>3. NoOutput \notin Output
    BY GraphAssumption DEF GraphAssumption
  <2>4. \A o \in Output, i \in Input : <<o, i>> \in made <=> target'[i] = o
    BY <1>4, <1>7, <2>1, <2>3
  <2>5. LinkedBothWays'
    <3>1. ASSUME NEW o \in Output, NEW i \in Input
          PROVE  links'[o][i] = IF target'[i] = o THEN 1 ELSE 0
      <4>1. links'[o][i] = IF <<o, i>> \in made THEN LinksWithout(nodes)[o][i] + 1
                                                ELSE LinksWithout(nodes)[o][i]
        BY <1>5
      <4>2. LinksWithout(nodes)[o][i] = 0
        BY <2>2
      <4>. QED  BY <2>4, <4>1, <4>2
    <3>. QED  BY <3>1 DEF LinkedBothWays
  <2>6. ClientsKnowTheArcs'
    BY <1>2, <1>6, <2>4 DEF ClientsKnowTheArcs
  <2>7. LinkedNodesAreRegistered'
    BY <1>4, <1>6, <1>7, <2>1 DEF LinkedNodesAreRegistered
  <2>. QED  BY <2>5, <2>6, <2>7
<1>. QED  BY <1>8, <1>9, <1>10 DEF Sound, LinkedBothWays, ClientsKnowTheArcs, LinkedNodesAreRegistered

-----------------------------------------------------------------------------
LEMMA SoundIsInductive == Sound /\ [Next]_vars => Sound'
<1>. SUFFICES ASSUME Sound, [Next]_vars PROVE Sound'
  OBVIOUS
<1>1. ASSUME NEW o \in Output, NEW i \in Input, AddArc(o, i) \/ RemoveArc(o, i) PROVE Sound'
  BY <1>1, AddArcKeeps, RemoveArcKeeps
<1>2. ASSUME NEW n \in Node, NEW arcs \in SUBSET ArcsAt(n), AddNode(n, arcs) PROVE Sound'
  BY <1>2, AddNodeKeeps
<1>3. ASSUME NEW n \in Node, NEW arcs \in SUBSET ArcsAt(n),
             NEW o \in Output, NEW i \in Input, AddNodeFails(n, arcs, o, i) PROVE Sound'
  BY <1>3, AddNodeFailsKeeps
<1>4. ASSUME NEW n \in Node, RemoveNode(n) PROVE Sound'
  BY <1>4, RemovalKeeps DEF RemoveNode
<1>5. CASE ClearPipeline
  <2>1. nodes' = nodes \ nodes
    BY <1>5 DEF ClearPipeline
  <2>. QED  BY <1>5, <2>1, RemovalKeeps DEF ClearPipeline
<1>6. ASSUME NEW S \in SUBSET Node, NEW arcs \in SUBSET ArcsAmong(S), SetPipeline(S, arcs) PROVE Sound'
  BY <1>6, SetPipelineKeeps
<1>7. CASE UNCHANGED vars
  BY <1>7 DEF vars, Sound, TypeOK, ReadersAreTold, LinkedBothWays, ClientsKnowTheArcs, LinkedNodesAreRegistered
<1>. QED  BY <1>1, <1>2, <1>3, <1>4, <1>5, <1>6, <1>7 DEF Next

\* All invariants of the module, for any nodes, inputs, outputs and types.
THEOREM GraphIsSound == Spec => []Sound
<1>1. Init => Sound
  <2>. SUFFICES ASSUME Init PROVE Sound
    OBVIOUS
  <2>1. NoOutput \notin Output
    BY GraphAssumption DEF GraphAssumption
  <2>2. TypeOK
    <3>1. target = [i \in Input |-> NoOutput] /\ links = [o \in Output |-> [i \in Input |-> 0]]
      BY DEF Init
    <3>2. target \in [Input -> Output \cup {NoOutput}] /\ \A i \in Input : target[i] = NoOutput
      BY <3>1
    <3>3. links \in [Output -> [Input -> Nat]] /\ \A o \in Output, i \in Input : links[o][i] = 0
      BY <3>1
    <3>4. nodes \subseteq Node /\ announced \subseteq Output \X Input
      BY DEF Init
    <3>5. misused \in BOOLEAN
      BY DEF Init
    <3>6. /\ \A i \in Input : target[i] # NoOutput => <<target[i], i>> \in Compatible
          /\ \A o \in Output, i \in Input : links[o][i] > 0 => <<o, i>> \in Compatible
      BY <3>2, <3>3
    <3>. QED  BY <3>2, <3>3, <3>4, <3>5, <3>6, Zenon DEF TypeOK
  <2>3. ReadersAreTold /\ LinkedNodesAreRegistered
    BY DEF Init, ReadersAreTold, LinkedNodesAreRegistered
  <2>4. LinkedBothWays /\ ClientsKnowTheArcs
    BY <2>1 DEF Init, LinkedBothWays, ClientsKnowTheArcs
  <2>. QED  BY <2>2, <2>3, <2>4 DEF Sound
<1>. QED  BY <1>1, SoundIsInductive, PTL DEF Spec

\* Every variable keeps its type, and only ends of one type are linked.
THEOREM TypeCorrect == Spec => []TypeOK
<1>1. Sound => TypeOK
  BY DEF Sound
<1>. QED  BY <1>1, GraphIsSound, PTL

\* Whatever the messages were, a parent tells every child that reads from it.
THEOREM ReadersStayTold == Spec => []ReadersAreTold
<1>1. Sound => ReadersAreTold
  BY DEF Sound
<1>. QED  BY <1>1, GraphIsSound, PTL

\* While messages name arcs that exist and arcs that can be made, the graph is
\* linked both ways.
THEOREM BothWaysStay == Spec => []LinkedBothWays
<1>1. Sound => LinkedBothWays
  BY DEF Sound
<1>. QED  BY <1>1, GraphIsSound, PTL

\* Then also clients know exactly the arcs that there are.
THEOREM ArcsStayKnown == Spec => []ClientsKnowTheArcs
<1>1. Sound => ClientsKnowTheArcs
  BY DEF Sound
<1>. QED  BY <1>1, GraphIsSound, PTL

\* Then also no node that is linked has been lost from the map of nodes.
THEOREM LinkedStayRegistered == Spec => []LinkedNodesAreRegistered
<1>1. Sound => LinkedNodesAreRegistered
  BY DEF Sound
<1>. QED  BY <1>1, GraphIsSound, PTL
=============================================================================
