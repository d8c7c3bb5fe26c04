-------------------------- MODULE NodeSched_proofs --------------------------
(***************************************************************************)
(* Proofs about NodeSched, for every graph, any number of workers and any  *)
(* mix of kinds of nodes.                                                  *)
(*                                                                         *)
(* The first part, on the invariant IInv: the type invariant, that         *)
(* m_exec_queued tells exactly which nodes are queued or running, that no  *)
(* node runs twice at once, and that the scheduler implements SerialQueue. *)
(*                                                                         *)
(* The second part, on the invariant WInv: no wake-up of checkAddSched is  *)
(* lost, and what it found stays true while the node is on the queue.      *)
(*                                                                         *)
(* The third part, on the invariant LInv: there is no deadlock, for every  *)
(* acyclic graph without shortcuts.                                        *)
(*                                                                         *)
(* A node's locks are taken before those of its parents by checkAddSched   *)
(* and by exec: threads climb.  The one exception is setOutput, which asks *)
(* a child with the parent's lock held.  It does no harm where the child   *)
(* cannot climb to that parent yet: not before it is linked, if all of the *)
(* child's other inputs lead elsewhere.                                    *)
(*                                                                         *)
(* The fourth part, on the invariant DInv: an acyclic pipeline from        *)
(* sources that need no message never stalls.  A linked input that is not  *)
(* New has been demanded from its parent, or something that a thread has   *)
(* still to do will demand it, mark it New, or cut it.                     *)
(*                                                                         *)
(* The fifth part, on messages and images: a message that a node has not   *)
(* taken still allows it the queue, if doWork clears m_allow_queue before  *)
(* it takes one; and output nodes are told of every image that their       *)
(* parents have for them, in the pipelines of the fourth part.             *)
(***************************************************************************)
EXTENDS NodeSched, Integers, TLAPS

\* The part of checkAddSched that has found m_exec_queued clear.
Deciding == {"conditions", "ensureValidInput", "setExecQueued", "addJob"}

\* What the proof needs to know of a stack of calls.
Nested(s) == \A k \in DOMAIN s : k # 1 => s[k].op \notin Deciding
Holds(s, n) == \E k \in DOMAIN s : s[k].node = n /\ s[k].op \in Checking
Decides(s, n) == s # <<>> /\ s[1].op \in Deciding /\ s[1].node = n

\* checkAddSched calls nothing while it decides.
DecidesOnTop == \A t \in Thread : Nested(calls[t])

\* At most one thread holds a node's m_checking_sched_lock.
ChecksAlone ==
    \A t, u \in Thread : \A n \in Node :
        Holds(calls[t], n) /\ Holds(calls[u], n) => t = u

\* While a thread decides about a node, no other sets its m_exec_queued.
DecidesFresh ==
    \A t \in Thread : \A n \in Node : Decides(calls[t], n) => n \notin execQueued

\* The inductive invariant.
IInv ==
    /\ TypeOK
    /\ DecidesOnTop
    /\ ChecksAlone
    /\ DecidesFresh
    /\ ExecQueuedIsExact
    /\ RunsOnce

-----------------------------------------------------------------------------
(* Stacks *)

LEMMA PushFacts ==
    ASSUME NEW S, NEW s \in Seq(S), NEW c \in S
    PROVE  /\ <<c>> \o s \in Seq(S)
           /\ <<c>> \o s # <<>>
           /\ DOMAIN (<<c>> \o s) = 1 .. (Len(s) + 1)
           /\ (<<c>> \o s)[1] = c
           /\ \A k \in DOMAIN (<<c>> \o s) : k # 1 => k - 1 \in DOMAIN s /\ (<<c>> \o s)[k] = s[k - 1]
  OBVIOUS

LEMMA TailFacts ==
    ASSUME NEW S, NEW s \in Seq(S), s # <<>>
    PROVE  /\ Tail(s) \in Seq(S)
           /\ Head(s) = s[1]
           /\ Head(s) \in S
           /\ 1 \in DOMAIN s
           /\ DOMAIN Tail(s) = 1 .. (Len(s) - 1)
           /\ \A k \in DOMAIN Tail(s) : k + 1 \in DOMAIN s /\ k + 1 # 1 /\ Tail(s)[k] = s[k + 1]
  OBVIOUS

\* A call on an empty stack.
LEMMA EnterStack ==
    ASSUME NEW c \in Frame, c.op \notin Checking, NEW n
    PROVE  /\ <<c>> \o <<>> \in Seq(Frame)
           /\ Nested(<<c>> \o <<>>)
           /\ ~Holds(<<c>> \o <<>>, n)
           /\ ~Decides(<<c>> \o <<>>, n)
  BY DEF Nested, Holds, Decides, Checking, Deciding

LEMMA EnterTwoStack ==
    ASSUME NEW c \in Frame, NEW d \in Frame, c.op \notin Checking, d.op \notin Checking, NEW n
    PROVE  /\ <<c, d>> \in Seq(Frame)
           /\ Nested(<<c, d>>)
           /\ ~Holds(<<c, d>>, n)
           /\ ~Decides(<<c, d>>, n)
  BY DEF Nested, Holds, Decides, Checking, Deciding

\* The innermost call returns.
LEMMA ReturnStack ==
    ASSUME NEW s \in Seq(Frame), s # <<>>, Nested(s), NEW n
    PROVE  /\ Tail(s) \in Seq(Frame)
           /\ Nested(Tail(s))
           /\ Holds(Tail(s), n) => Holds(s, n)
           /\ ~Decides(Tail(s), n)
<1>1. /\ Tail(s) \in Seq(Frame)
      /\ \A k \in DOMAIN Tail(s) : k + 1 \in DOMAIN s /\ k + 1 # 1 /\ Tail(s)[k] = s[k + 1]
  BY TailFacts
<1>2. Nested(Tail(s)) /\ (Holds(Tail(s), n) => Holds(s, n))
  BY <1>1 DEF Nested, Holds
<1>3. ~Decides(Tail(s), n)
  <2>1. Tail(s) # <<>> => 1 \in DOMAIN Tail(s)
    BY <1>1
  <2> QED BY <1>1, <2>1 DEF Nested, Decides
<1> QED BY <1>1, <1>2, <1>3

\* The innermost call goes on as c.
LEMMA BecomeStack ==
    ASSUME NEW s \in Seq(Frame), s # <<>>, Nested(s), NEW c \in Frame, NEW n
    PROVE  /\ <<c>> \o Tail(s) \in Seq(Frame)
           /\ Nested(<<c>> \o Tail(s))
           /\ Holds(<<c>> \o Tail(s), n) => Holds(s, n) \/ (c.op \in Checking /\ c.node = n)
           /\ Decides(<<c>> \o Tail(s), n) => c.op \in Deciding /\ c.node = n
<1> DEFINE r == <<c>> \o Tail(s)
<1>1. /\ Tail(s) \in Seq(Frame)
      /\ Nested(Tail(s))
      /\ \A k \in DOMAIN Tail(s) : k + 1 \in DOMAIN s /\ k + 1 # 1 /\ Tail(s)[k] = s[k + 1]
  BY TailFacts, ReturnStack
<1>2. /\ r \in Seq(Frame)
      /\ r[1] = c
      /\ \A k \in DOMAIN r : k # 1 => k - 1 \in DOMAIN Tail(s) /\ r[k] = Tail(s)[k - 1]
  BY <1>1, PushFacts
<1>3. \A k \in DOMAIN r : k # 1 => k \in DOMAIN s /\ r[k] = s[k]
  <2> SUFFICES ASSUME NEW k \in DOMAIN r, k # 1 PROVE k \in DOMAIN s /\ r[k] = s[k]
    OBVIOUS
  <2>1. k \in Int
    BY <1>2
  <2> QED BY <1>1, <1>2, <2>1
<1> HIDE DEF r
<1>4. Nested(r) /\ (Holds(r, n) => Holds(s, n) \/ (c.op \in Checking /\ c.node = n))
  BY <1>2, <1>3 DEF Nested, Holds
<1>5. Decides(r, n) => c.op \in Deciding /\ c.node = n
  BY <1>2 DEF Decides
<1> QED BY <1>2, <1>4, <1>5 DEF r

\* A loop makes a call c, and goes on as d.
LEMMA LoopStack ==
    ASSUME NEW s \in Seq(Frame), s # <<>>, Nested(s), NEW c \in Frame, NEW d \in Frame, NEW n,
           c.op \notin Checking, d.op \notin Deciding, d.op = Head(s).op, d.node = Head(s).node
    PROVE  /\ <<c, d>> \o Tail(s) \in Seq(Frame)
           /\ Nested(<<c, d>> \o Tail(s))
           /\ Holds(<<c, d>> \o Tail(s), n) => Holds(s, n)
           /\ ~Decides(<<c, d>> \o Tail(s), n)
<1> DEFINE r == <<c, d>> \o Tail(s)
<1>1. /\ Tail(s) \in Seq(Frame)
      /\ Head(s) = s[1]
      /\ 1 \in DOMAIN s
      /\ \A k \in DOMAIN Tail(s) : k + 1 \in DOMAIN s /\ k + 1 # 1 /\ Tail(s)[k] = s[k + 1]
  BY TailFacts
<1>2. /\ r \in Seq(Frame)
      /\ r[1] = c
      /\ r[2] = d
      /\ DOMAIN r \subseteq Int
      /\ \A k \in DOMAIN r : k # 1 /\ k # 2 => k - 2 \in DOMAIN Tail(s) /\ r[k] = Tail(s)[k - 2]
  BY <1>1
<1>3. \A k \in DOMAIN r : k # 1 /\ k # 2 => k - 1 \in DOMAIN s /\ k - 1 # 1 /\ r[k] = s[k - 1]
  <2> SUFFICES ASSUME NEW k \in DOMAIN r, k # 1, k # 2
               PROVE  k - 1 \in DOMAIN s /\ k - 1 # 1 /\ r[k] = s[k - 1]
    OBVIOUS
  <2>1. k \in Int /\ (k - 2) + 1 = k - 1
    BY <1>2
  <2>2. k - 2 \in DOMAIN Tail(s) /\ r[k] = Tail(s)[k - 2]
    BY <1>2
  <2> QED BY <1>1, <2>1, <2>2
<1> HIDE DEF r
<1>4. Nested(r)
  BY <1>2, <1>3 DEF Nested
<1>5. Holds(r, n) => Holds(s, n)
  <2> SUFFICES ASSUME NEW k \in DOMAIN r, r[k].node = n, r[k].op \in Checking
               PROVE  Holds(s, n)
    BY DEF Holds
  <2>1. k # 1
    BY <1>2
  <2>2. CASE k = 2
    BY <1>1, <1>2, <2>2 DEF Holds
  <2>3. CASE k # 2
    BY <1>3, <2>1, <2>3 DEF Holds
  <2> QED BY <2>2, <2>3
<1>6. ~Decides(r, n)
  BY <1>2 DEF Decides, Deciding, Checking
<1> QED BY <1>2, <1>4, <1>5, <1>6 DEF r

-----------------------------------------------------------------------------
(* Frames, and what a step does to the stacks *)

LEMMA ThreadFacts ==
    /\ Worker \subseteq Thread
    /\ Mailbox \in Thread
    /\ Asynchronous \subseteq Thread
    /\ Asynchronous \subseteq Node
  BY NodeAssumption DEF Thread

LEMMA CallFrame ==
    ASSUME NEW f \in Operations, NEW n \in Node
    PROVE  /\ Call(f, n) \in Frame
           /\ Call(f, n).op = f
           /\ Call(f, n).node = n
  BY DEF Call, Frame, Modes

LEMMA CheckFrame ==
    ASSUME NEW m \in Modes, NEW n \in Node
    PROVE  /\ Check(n, m) \in Frame
           /\ Check(n, m).op \notin Checking
           /\ Check(n, m).node = n
  BY DEF Check, Call, Frame, Operations, Checking

LEMMA DemandFrame ==
    ASSUME NEW o \in Output
    PROVE  Demand(o) \in Frame /\ Demand(o).op \notin Checking
<1>1. OutputOf[o] \in Node
  BY WiringAssumption
<1> QED BY <1>1 DEF Demand, Call, Frame, Operations, Modes, Checking

LEMMA NewInputFrame ==
    ASSUME NEW i \in Input
    PROVE  NewInput(i) \in Frame /\ NewInput(i).op \notin Checking
<1>1. InputOf[i] \in Node
  BY WiringAssumption
<1> QED BY <1>1 DEF NewInput, Call, Frame, Operations, Modes, Checking

LEMMA LinkFrames ==
    ASSUME NEW i \in Input, Wire[i] # NoOutput
    PROVE  /\ LinkInput(i) \in Frame /\ LinkInput(i).op \notin Checking
           /\ LinkParent(i) \in Frame /\ LinkParent(i).op \notin Checking
<1>1. InputOf[i] \in Node /\ OutputOf[Wire[i]] \in Node
  BY WiringAssumption
<1> QED BY <1>1 DEF LinkInput, LinkParent, Call, Frame, Operations, Modes, Checking

LEMMA TopFrame ==
    ASSUME TypeOK, NEW t \in Thread, calls[t] # <<>>
    PROVE  /\ calls[t] \in Seq(Frame)
           /\ Top(t) \in Frame
           /\ Top(t) = calls[t][1]
           /\ 1 \in DOMAIN calls[t]
           /\ Top(t).node \in Node
           /\ Top(t).ins \subseteq Input
           /\ Top(t).outs \subseteq Output
<1>1. calls[t] \in Seq(Frame)
  BY DEF TypeOK
<1>2. Top(t) \in Frame /\ Top(t) = calls[t][1] /\ 1 \in DOMAIN calls[t]
  BY <1>1, TailFacts DEF Top
<1> QED BY <1>1, <1>2 DEF Frame

\* A step of thread t that takes no m_checking_sched_lock and decides nothing new.
QuietCalls(t) ==
    /\ calls' \in [Thread -> Seq(Frame)]
    /\ \A u \in Thread \ {t} : calls'[u] = calls[u]
    /\ Nested(calls'[t])
    /\ \A n \in Node : Holds(calls'[t], n) => Holds(calls[t], n)
    /\ \A n \in Node : Decides(calls'[t], n) => Decides(calls[t], n)

LEMMA SameCalls ==
    ASSUME TypeOK, DecidesOnTop, NEW t \in Thread, UNCHANGED calls
    PROVE  QuietCalls(t)
  BY DEF QuietCalls, TypeOK, DecidesOnTop

LEMMA EnterCalls ==
    ASSUME TypeOK, NEW t \in Thread, NEW c \in Frame, c.op \notin Checking,
           calls[t] = <<>>, Enter(t, c)
    PROVE  QuietCalls(t)
<1>1. calls' = [calls EXCEPT ![t] = <<c>> \o <<>>]
  BY DEF Enter
<1>2. \A n : /\ <<c>> \o <<>> \in Seq(Frame)
             /\ Nested(<<c>> \o <<>>)
             /\ ~Holds(<<c>> \o <<>>, n)
             /\ ~Decides(<<c>> \o <<>>, n)
  BY EnterStack
<1> DEFINE r == <<c>> \o <<>>
<1> HIDE DEF r
<1> QED BY <1>1, <1>2 DEF QuietCalls, TypeOK, r

LEMMA ReturnCalls ==
    ASSUME TypeOK, DecidesOnTop, NEW t \in Thread, calls[t] # <<>>, Return(t)
    PROVE  QuietCalls(t) /\ \A n : ~Decides(calls'[t], n)
<1>1. calls[t] \in Seq(Frame) /\ Nested(calls[t])
  BY DEF TypeOK, DecidesOnTop
<1>2. \A n : /\ Tail(calls[t]) \in Seq(Frame)
             /\ Nested(Tail(calls[t]))
             /\ Holds(Tail(calls[t]), n) => Holds(calls[t], n)
             /\ ~Decides(Tail(calls[t]), n)
  BY <1>1, ReturnStack
<1> QED BY <1>2 DEF QuietCalls, TypeOK, Return

LEMMA BecomeCalls ==
    ASSUME TypeOK, DecidesOnTop, NEW t \in Thread, calls[t] # <<>>, NEW c \in Frame,
           Become(t, c),
           c.op \in Checking => Top(t).op \in Checking /\ Top(t).node = c.node,
           c.op \in Deciding => Top(t).op \in Deciding /\ Top(t).node = c.node
    PROVE  QuietCalls(t)
<1>1. /\ calls[t] \in Seq(Frame)
      /\ Nested(calls[t])
      /\ Top(t) = calls[t][1]
      /\ 1 \in DOMAIN calls[t]
  BY TopFrame DEF DecidesOnTop
<1> DEFINE r == <<c>> \o Tail(calls[t])
<1>2. \A n : /\ r \in Seq(Frame)
             /\ Nested(r)
             /\ Holds(r, n) => Holds(calls[t], n) \/ (c.op \in Checking /\ c.node = n)
             /\ Decides(r, n) => c.op \in Deciding /\ c.node = n
  BY <1>1, BecomeStack
<1>3. calls' = [calls EXCEPT ![t] = r]
  BY DEF Become
<1> HIDE DEF r
<1>4. \A n : (Holds(r, n) => Holds(calls[t], n)) /\ (Decides(r, n) => Decides(calls[t], n))
  BY <1>1, <1>2 DEF Holds, Decides
<1> QED BY <1>2, <1>3, <1>4 DEF QuietCalls, TypeOK

LEMMA LoopCalls ==
    ASSUME TypeOK, DecidesOnTop, NEW t \in Thread, calls[t] # <<>>,
           NEW c \in Frame, NEW d \in Frame, c.op \notin Checking,
           d.op \notin Deciding, d.op = Top(t).op, d.node = Top(t).node,
           calls' = [calls EXCEPT ![t] = <<c, d>> \o Tail(@)]
    PROVE  QuietCalls(t)
<1>1. calls[t] \in Seq(Frame) /\ Nested(calls[t])
  BY DEF TypeOK, DecidesOnTop
<1> DEFINE r == <<c, d>> \o Tail(calls[t])
<1>2. \A n : /\ r \in Seq(Frame)
             /\ Nested(r)
             /\ Holds(r, n) => Holds(calls[t], n)
             /\ ~Decides(r, n)
  BY <1>1, LoopStack DEF Top
<1>3. calls' = [calls EXCEPT ![t] = r]
  OBVIOUS
<1> HIDE DEF r
<1> QED BY <1>2, <1>3 DEF QuietCalls, TypeOK

-----------------------------------------------------------------------------
(* Steps that move no node between the queue and the workers *)

LEMMA QuietStep ==
    ASSUME IInv, TypeOK', NEW t \in Thread, QuietCalls(t),
           UNCHANGED <<execQueued, queue>>,
           \A w \in Worker : exec'[w].node = exec[w].node
    PROVE  IInv'
<1> USE DEF IInv, QuietCalls
<1>1. DecidesOnTop'
  BY DEF DecidesOnTop
<1>2. ChecksAlone'
  <2>1. \A u \in Thread, n \in Node : Holds(calls'[u], n) => Holds(calls[u], n)
    OBVIOUS
  <2> QED BY <2>1 DEF ChecksAlone
<1>3. DecidesFresh'
  <2>1. \A u \in Thread, n \in Node : Decides(calls'[u], n) => Decides(calls[u], n)
    OBVIOUS
  <2> QED BY <2>1 DEF DecidesFresh
<1>4. ExecQueuedIsExact'
  BY DEF ExecQueuedIsExact, InQueue, IsRunning
<1>5. RunsOnce'
  BY DEF RunsOnce, InQueue, IsRunning
<1> QED BY <1>1, <1>2, <1>3, <1>4, <1>5

\* The calls of checkAddSched, but for the first and the last.
LEMMA ConditionsStep ==
    ASSUME IInv, NEW t \in Thread, Conditions(t) \/ SetExecQueued(t)
    PROVE  IInv'
<1> USE DEF IInv
<1> DEFINE c == Top(t)
<1>1. calls[t] # <<>> /\ c.op \in {"conditions", "setExecQueued"} /\ c \in Frame /\ c.node \in Node
  BY TopFrame DEF Conditions, SetExecQueued, In, Top
<1>2. QuietCalls(t)
  <2>1. CASE Return(t)
    BY <1>1, <2>1, ReturnCalls
  <2>2. ASSUME NEW f \in {"addJob", "setExecQueued", "ensureValidInput"}, Become(t, [c EXCEPT !.op = f])
        PROVE  QuietCalls(t)
    <3>1. [c EXCEPT !.op = f] \in Frame /\ [c EXCEPT !.op = f].node = c.node
      BY <1>1 DEF Frame, Operations
    <3> QED BY <1>1, <2>2, <3>1, BecomeCalls DEF Checking, Deciding
  <2> QED BY <2>1, <2>2 DEF Conditions, SetExecQueued
<1>3. TypeOK'
  BY <1>2 DEF QuietCalls, TypeOK, Conditions, SetExecQueued, graph, flags, devices
<1> QED BY <1>2, <1>3, QuietStep DEF Conditions, SetExecQueued, flags

LEMMA EnsureValidInputStep ==
    ASSUME IInv, NEW t \in Thread, EnsureValidInput(t)
    PROVE  IInv'
<1> USE DEF IInv
<1> DEFINE c == Top(t)
           invalid == {i \in InputsOf(c.node) \ Optional : ~Valid(i)}
           parents == {target[i] : i \in invalid} \ {NoOutput}
<1>1. calls[t] # <<>> /\ c.op = "ensureValidInput" /\ c \in Frame /\ c.node \in Node
  BY TopFrame DEF EnsureValidInput, In, Top
<1>2. parents \subseteq Output
  BY DEF InputsOf, TypeOK
<1>3. QuietCalls(t)
  <2>1. CASE Become(t, [c EXCEPT !.op = "setExecQueued"])
    <3>1. [c EXCEPT !.op = "setExecQueued"] \in Frame /\ [c EXCEPT !.op = "setExecQueued"].node = c.node
      BY <1>1 DEF Frame, Operations
    <3> QED BY <1>1, <2>1, <3>1, BecomeCalls DEF Checking, Deciding
  <2>2. CASE Become(t, [c EXCEPT !.op = "refuse", !.outs = parents])
    <3> DEFINE d == [c EXCEPT !.op = "refuse", !.outs = parents]
    <3>1. d \in Frame /\ d.node = c.node /\ d.op = "refuse"
      BY <1>1, <1>2 DEF Frame, Operations
    <3> QED BY <1>1, <2>2, <3>1, BecomeCalls DEF Checking, Deciding
  <2> QED BY <2>1, <2>2 DEF EnsureValidInput
<1>4. TypeOK'
  BY <1>3 DEF QuietCalls, TypeOK, EnsureValidInput, graph, flags, devices
<1> QED BY <1>3, <1>4, QuietStep DEF EnsureValidInput, flags

\* Loops that call other nodes.
LEMMA LoopStep ==
    ASSUME IInv, NEW t \in Thread, DemandEach(t) \/ NotifyEach(t)
    PROVE  IInv'
<1> USE DEF IInv
<1> DEFINE c == Top(t)
<1>1. /\ calls[t] # <<>>
      /\ c.op \in {"demandEach", "refuse", "notifyEach"}
      /\ c \in Frame
      /\ c.ins \subseteq Input
      /\ c.outs \subseteq Output
  BY TopFrame DEF DemandEach, NotifyEach, In, Top
<1>2. QuietCalls(t)
  <2>1. CASE Return(t)
    BY <1>1, <2>1, ReturnCalls
  <2>2. ASSUME NEW o \in c.outs,
               calls' = [calls EXCEPT ![t] =
                            <<Demand(o), [Top(t) EXCEPT !.outs = @ \ {o}]>> \o Tail(@)]
        PROVE  QuietCalls(t)
    <3> DEFINE d == [c EXCEPT !.outs = @ \ {o}]
    <3>1. d \in Frame /\ d.op = c.op /\ d.node = c.node
      BY <1>1 DEF Frame
    <3>2. Demand(o) \in Frame /\ Demand(o).op \notin Checking
      BY <1>1, DemandFrame
    <3>3. calls' = [calls EXCEPT ![t] = <<Demand(o), d>> \o Tail(@)]
      BY <2>2
    <3>4. d.op \notin Deciding
      BY <1>1, <3>1 DEF Deciding
    <3> HIDE DEF d
    <3> QED BY <1>1, <3>1, <3>2, <3>3, <3>4, LoopCalls
  <2>3. ASSUME NEW i \in c.ins,
               calls' = [calls EXCEPT ![t] =
                            <<NewInput(i), [Top(t) EXCEPT !.ins = @ \ {i}]>> \o Tail(@)]
        PROVE  QuietCalls(t)
    <3> DEFINE d == [c EXCEPT !.ins = @ \ {i}]
    <3>1. d \in Frame /\ d.op = c.op /\ d.node = c.node
      BY <1>1 DEF Frame
    <3>2. NewInput(i) \in Frame /\ NewInput(i).op \notin Checking
      BY <1>1, NewInputFrame
    <3>3. calls' = [calls EXCEPT ![t] = <<NewInput(i), d>> \o Tail(@)]
      BY <2>3
    <3>4. d.op \notin Deciding
      BY <1>1, <3>1 DEF Deciding
    <3> HIDE DEF d
    <3> QED BY <1>1, <3>1, <3>2, <3>3, <3>4, LoopCalls
  <2> QED BY <2>1, <2>2, <2>3 DEF DemandEach, NotifyEach
<1>3. TypeOK'
  BY <1>2 DEF QuietCalls, TypeOK, DemandEach, NotifyEach, graph, flags, devices
<1> QED BY <1>2, <1>3, QuietStep DEF DemandEach, NotifyEach, flags

\* Calls that become one other call, or return, and mark something on the way.
NoteStep(t) ==
    \/ DemandNewParentInput(t) \/ SetNewOutputDemanded(t) \/ SetNewInput(t)
    \/ SetAllowQueue(t) \/ AllowNode(t) \/ SetOutput(t) \/ LinkOutput(t) \/ SetInput(t)
    \/ MessageHandled(t)
    \/ ClearOutput(t) \/ ClearInput(t) \/ UnlinkParents(t) \/ UnlinkChildren(t)
    \/ ClearOutputs(t) \/ ClearInputs(t)

LEMMA NoteKeepsInvariant ==
    ASSUME IInv, NEW t \in Thread, NoteStep(t)
    PROVE  IInv'
<1> USE DEF IInv
<1> DEFINE c == Top(t)
           demands == {target[i] : i \in InputsOf(c.node)} \ {NoOutput}
<1>1. /\ calls[t] # <<>>
      /\ c \in Frame
      /\ c.node \in Node
      /\ c.ins \subseteq Input
      /\ c.outs \subseteq Output
  <2>1. calls[t] # <<>>
    BY DEF NoteStep, DemandNewParentInput, SetNewOutputDemanded, SetNewInput,
           SetAllowQueue, AllowNode, SetOutput, LinkOutput, SetInput, MessageHandled, In,
           ClearOutput, ClearInput, UnlinkParents, UnlinkChildren, ClearOutputs, ClearInputs
  <2> QED BY <2>1, TopFrame
<1>2. QuietCalls(t)
  <2>1. CASE Return(t)
    BY <1>1, <2>1, ReturnCalls
  <2>2. CASE Become(t, Check(c.node, "AllNew"))
    <3> DEFINE d == Check(c.node, "AllNew")
    <3>1. d \in Frame /\ d.op \notin Checking
      BY <1>1, CheckFrame DEF Modes
    <3> HIDE DEF d
    <3> QED BY <1>1, <2>2, <3>1, BecomeCalls DEF Checking, Deciding, d
  <2>3. ASSUME NEW f \in {"allowNode", "linkOutput", "setNewInput", "unlinkChildren",
                           "clearOutputs", "clearInputs"},
               Become(t, [c EXCEPT !.op = f])
        PROVE  QuietCalls(t)
    <3> DEFINE d == [c EXCEPT !.op = f]
    <3>1. d \in Frame /\ d.op = f
      BY <1>1 DEF Frame, Operations
    <3> HIDE DEF d
    <3> QED BY <1>1, <2>3, <3>1, BecomeCalls DEF Checking, Deciding, d
  <2>4. CASE DemandNewParentInput(t)
    <3> DEFINE d == [Call("demandEach", c.node) EXCEPT !.outs = demands]
    <3>1. demands \subseteq Output
      BY DEF InputsOf, TypeOK
    <3>2. d \in Frame /\ d.op = "demandEach"
      BY <1>1, <3>1 DEF Frame, Call, Operations, Modes
    <3>3. Become(t, d)
      BY <2>4 DEF DemandNewParentInput
    <3> HIDE DEF d
    <3> QED BY <1>1, <3>2, <3>3, BecomeCalls DEF Checking, Deciding
  <2>5. CASE UnlinkParents(t)
    <3>1. ASSUME NEW o \in c.outs, Become(t, [c EXCEPT !.outs = @ \ OutputsOf(OutputOf[o])])
          PROVE  QuietCalls(t)
      <4> DEFINE d == [c EXCEPT !.outs = @ \ OutputsOf(OutputOf[o])]
      <4>1. d \in Frame /\ d.op = "unlinkParents"
        BY <1>1, <2>5 DEF Frame, UnlinkParents, In, Top
      <4> HIDE DEF d
      <4> QED BY <1>1, <3>1, <4>1, BecomeCalls DEF Checking, Deciding, d
    <3> QED BY <2>3, <2>5, <3>1 DEF UnlinkParents
  <2>6. CASE UnlinkChildren(t)
    <3>1. ASSUME NEW i \in c.ins, Become(t, [c EXCEPT !.ins = @ \ InputsOf(InputOf[i])])
          PROVE  QuietCalls(t)
      <4> DEFINE d == [c EXCEPT !.ins = @ \ InputsOf(InputOf[i])]
      <4>1. d \in Frame /\ d.op = "unlinkChildren"
        BY <1>1, <2>6 DEF Frame, UnlinkChildren, In, Top
      <4> HIDE DEF d
      <4> QED BY <1>1, <3>1, <4>1, BecomeCalls DEF Checking, Deciding, d
    <3> QED BY <2>3, <2>6, <3>1 DEF UnlinkChildren
  <2> QED BY <2>1, <2>2, <2>3, <2>4, <2>5, <2>6
          DEF NoteStep, SetNewOutputDemanded, SetNewInput, SetAllowQueue, AllowNode,
              SetOutput, LinkOutput, SetInput, MessageHandled,
              ClearOutput, ClearInput, ClearOutputs, ClearInputs
<1>3. TypeOK'
  <2>1. CASE SetInput(t)
    <3>1. target' \in [Input -> Output \cup {NoOutput}]
      BY <2>1, WiringAssumption DEF TypeOK, SetInput
    <3>2. status' \in [Input -> {"New", "Old", "Invalid"}]
      BY <2>1 DEF TypeOK, SetInput
    <3> QED BY <1>2, <2>1, <3>1, <3>2 DEF QuietCalls, TypeOK, SetInput, flags, devices
  <2>5. CASE LinkOutput(t)
    <3>1. links' \in [Output -> SUBSET Input]
      BY <1>1, <2>5 DEF TypeOK, LinkOutput
    <3> QED BY <1>2, <2>5, <3>1 DEF QuietCalls, TypeOK, LinkOutput, flags, devices
  <2>2. CASE SetNewInput(t)
    BY <1>2, <2>2 DEF QuietCalls, TypeOK, SetNewInput, graph, flags, devices
  <2>3. CASE SetNewOutputDemanded(t) \/ AllowNode(t)
    BY <1>1, <1>2, <2>3
       DEF QuietCalls, TypeOK, SetNewOutputDemanded, AllowNode, graph, devices
  <2>4. CASE DemandNewParentInput(t) \/ SetAllowQueue(t) \/ SetOutput(t) \/ MessageHandled(t)
    BY <1>2, <2>4 DEF QuietCalls, TypeOK, DemandNewParentInput, SetAllowQueue, SetOutput,
                      MessageHandled, graph, flags, devices
  <2>6. CASE ClearOutput(t) \/ UnlinkParents(t) \/ ClearOutputs(t)
    <3>1. links' \in [Output -> SUBSET Input]
      BY <2>6 DEF TypeOK, ClearOutput, UnlinkParents, ClearOutputs
    <3> QED BY <1>2, <2>6, <3>1 DEF QuietCalls, TypeOK, ClearOutput, UnlinkParents,
                                    ClearOutputs, flags, devices
  <2>7. CASE ClearInput(t) \/ UnlinkChildren(t) \/ ClearInputs(t)
    <3>1. target' \in [Input -> Output \cup {NoOutput}]
      BY <2>7 DEF TypeOK, ClearInput, UnlinkChildren, ClearInputs
    <3> QED BY <1>2, <2>7, <3>1 DEF QuietCalls, TypeOK, ClearInput, UnlinkChildren,
                                    ClearInputs, flags, devices
  <2> QED BY <2>1, <2>2, <2>3, <2>4, <2>5, <2>6, <2>7 DEF NoteStep
<1>4. UNCHANGED <<execQueued, queue, exec>>
  BY DEF NoteStep, DemandNewParentInput, SetNewOutputDemanded, SetNewInput, SetAllowQueue,
         AllowNode, SetOutput, LinkOutput, SetInput, MessageHandled, ClearOutput, ClearInput,
         UnlinkParents, UnlinkChildren, ClearOutputs, ClearInputs, flags
<1> QED BY <1>2, <1>3, <1>4, QuietStep

\* What the mailbox thread or a timer starts.
StartStep ==
    \/ \E i \in Input : AddArc(i)
    \/ \E i \in Settable : SetParam(i)
    \/ \E n \in Forced : ForceExec(n)
    \/ \E i \in Rewired : RemoveArc(i)
    \/ \E n \in Removable : RemoveNode(n)
    \/ \E n \in MessageNode : OnMessage(n)
    \/ \E n \in Asynchronous : TimerCallback(n)

LEMMA StartKeepsInvariant ==
    ASSUME IInv, StartStep
    PROVE  IInv'
<1> USE DEF IInv
<1>1. ASSUME NEW i \in Input, AddArc(i) PROVE IInv'
  <2> DEFINE r == IF i \in ParentsFirst THEN <<LinkInput(i), LinkParent(i)>>
                                        ELSE <<LinkParent(i), LinkInput(i)>>
  <2>1. calls' = [calls EXCEPT ![Mailbox] = r]
    BY <1>1 DEF AddArc
  <2>2. \A n : /\ r \in Seq(Frame) /\ Nested(r)
               /\ ~Holds(r, n) /\ ~Decides(r, n)
    <3>1. /\ LinkInput(i) \in Frame /\ LinkInput(i).op \notin Checking
          /\ LinkParent(i) \in Frame /\ LinkParent(i).op \notin Checking
      BY <1>1, LinkFrames DEF AddArc
    <3> QED BY <3>1, EnterTwoStack
  <2> HIDE DEF r
  <2>3. QuietCalls(Mailbox)
    BY <2>1, <2>2, ThreadFacts DEF QuietCalls, TypeOK
  <2>4. TypeOK'
    BY <1>1, <2>3 DEF QuietCalls, TypeOK, AddArc, graph, flags, devices
  <2> QED BY <1>1, <2>3, <2>4, ThreadFacts, QuietStep DEF AddArc, flags
<1>2. ASSUME NEW i \in Settable, SetParam(i) PROVE IInv'
  <2>1. NewInput(i) \in Frame /\ NewInput(i).op \notin Checking /\ i \in Input
    BY NewInputFrame, WiringAssumption
  <2>2. QuietCalls(Mailbox)
    BY <1>2, <2>1, ThreadFacts, EnterCalls DEF SetParam
  <2>3. TypeOK'
    BY <1>2, <2>1, <2>2 DEF QuietCalls, TypeOK, SetParam, graph, flags, devices
  <2> QED BY <1>2, <2>2, <2>3, ThreadFacts, QuietStep DEF SetParam, flags
<1>3. ASSUME NEW n \in Forced, ForceExec(n) PROVE IInv'
  <2>1. Check(n, "Force") \in Frame /\ Check(n, "Force").op \notin Checking
    BY CheckFrame, NodeAssumption DEF Modes
  <2>2. QuietCalls(Mailbox)
    BY <1>3, <2>1, ThreadFacts, EnterCalls DEF ForceExec
  <2>3. TypeOK'
    BY <1>3, <2>2 DEF QuietCalls, TypeOK, ForceExec, graph, flags, devices
  <2> QED BY <1>3, <2>2, <2>3, ThreadFacts, QuietStep DEF ForceExec, flags
<1>4. ASSUME NEW n \in MessageNode, OnMessage(n) PROVE IInv'
  <2> DEFINE r == <<Call("setAllowQueue", n), Call("onMessage", n)>>
  <2>1. calls' = [calls EXCEPT ![Mailbox] = r]
    BY <1>4 DEF OnMessage
  <2>2. \A m : /\ r \in Seq(Frame) /\ Nested(r)
               /\ ~Holds(r, m) /\ ~Decides(r, m)
    <3>1. n \in Node
      BY NodeAssumption DEF MessageNode
    <3>2. /\ Call("setAllowQueue", n) \in Frame /\ Call("setAllowQueue", n).op \notin Checking
          /\ Call("onMessage", n) \in Frame /\ Call("onMessage", n).op \notin Checking
      BY <3>1, CallFrame DEF Operations, Checking
    <3> QED BY <3>2, EnterTwoStack
  <2> HIDE DEF r
  <2>3. QuietCalls(Mailbox)
    BY <2>1, <2>2, ThreadFacts DEF QuietCalls, TypeOK
  <2>4. TypeOK'
    BY <1>4, <2>3 DEF QuietCalls, TypeOK, OnMessage, graph, flags
  <2> QED BY <1>4, <2>3, <2>4, ThreadFacts, QuietStep DEF OnMessage, flags
<1>5. ASSUME NEW n \in Asynchronous, TimerCallback(n) PROVE IInv'
  <2>1. /\ Call("demandNewParentInput", n) \in Frame
        /\ Call("demandNewParentInput", n).op \notin Checking
    BY CallFrame, ThreadFacts DEF Operations, Checking
  <2>2. QuietCalls(n)
    BY <1>5, <2>1, ThreadFacts, EnterCalls DEF TimerCallback
  <2>3. TypeOK'
    BY <1>5, <2>2 DEF QuietCalls, TypeOK, TimerCallback, graph, flags
  <2> QED BY <1>5, <2>2, <2>3, ThreadFacts, QuietStep DEF TimerCallback, flags
<1>6. ASSUME NEW i \in Rewired, RemoveArc(i) PROVE IInv'
  <2> DEFINE c == [Call("clearOutput", OutputOf[target[i]]) EXCEPT !.ins = {i}]
             d == [Call("clearInput", InputOf[i]) EXCEPT !.ins = {i}]
             r == <<c, d>>
  <2>1. calls' = [calls EXCEPT ![Mailbox] = r]
    BY <1>6 DEF RemoveArc
  <2>2. \A n : /\ r \in Seq(Frame) /\ Nested(r)
               /\ ~Holds(r, n) /\ ~Decides(r, n)
    <3>1. i \in Input /\ target[i] \in Output
      BY <1>6, WiringAssumption DEF RemoveArc, TypeOK
    <3>2. OutputOf[target[i]] \in Node /\ InputOf[i] \in Node
      BY <3>1, WiringAssumption
    <3>3. /\ c \in Frame /\ c.op \notin Checking
          /\ d \in Frame /\ d.op \notin Checking
      BY <3>1, <3>2 DEF Call, Frame, Operations, Modes, Checking
    <3> HIDE DEF c, d
    <3> QED BY <3>3, EnterTwoStack
  <2> HIDE DEF r
  <2>3. QuietCalls(Mailbox)
    BY <2>1, <2>2, ThreadFacts DEF QuietCalls, TypeOK
  <2>4. TypeOK'
    BY <1>6, <2>3 DEF QuietCalls, TypeOK, RemoveArc, graph, flags, devices
  <2> QED BY <1>6, <2>3, <2>4, ThreadFacts, QuietStep DEF RemoveArc, flags
<1>7. ASSUME NEW n \in Removable, RemoveNode(n) PROVE IInv'
  <2> DEFINE parents == {target[i] : i \in InputsOf(n)} \ {NoOutput}
             children == UNION {links[o] : o \in OutputsOf(n)}
             c == [Call("unlinkParents", n) EXCEPT !.outs = parents, !.ins = children]
  <2>1. n \in Node
    BY NodeAssumption
  <2>2. parents \subseteq Output /\ children \subseteq Input
    BY DEF TypeOK, InputsOf, OutputsOf
  <2> HIDE DEF parents, children
  <2>3. c \in Frame /\ c.op \notin Checking
    BY <2>1, <2>2 DEF Call, Frame, Operations, Modes, Checking
  <2>4. Enter(Mailbox, c) /\ calls[Mailbox] = <<>>
    BY <1>7 DEF RemoveNode, parents, children
  <2> HIDE DEF c
  <2>5. QuietCalls(Mailbox)
    BY <2>3, <2>4, ThreadFacts, EnterCalls
  <2>6. TypeOK'
    BY <1>7, <2>1, <2>5 DEF QuietCalls, TypeOK, RemoveNode, flags, devices
  <2> QED BY <1>7, <2>5, <2>6, ThreadFacts, QuietStep DEF RemoveNode, flags
<1> QED BY <1>1, <1>2, <1>3, <1>4, <1>5, <1>6, <1>7 DEF StartStep

LEMMA RunningWorker ==
    ASSUME TypeOK, NEW w \in Worker, exec[w].at # "waitNextJob"
    PROVE  /\ exec[w] \in Running
           /\ exec[w].node \in Node
           /\ exec[w].ins \subseteq Input
           /\ exec[w].outs \subseteq Output
           /\ exec[w].kids \subseteq Input
<1>1. exec[w] \in Running
  BY DEF TypeOK, Idle
<1> QED BY <1>1 DEF Running

\* A worker goes on with the node it runs.
LEMMA WorkerGoesOn ==
    ASSUME TypeOK, NEW w \in Worker, NEW r \in Running, r.node = exec[w].node,
           exec' = [exec EXCEPT ![w] = r]
    PROVE  /\ exec' \in [Worker -> {Idle} \cup Running]
           /\ \A v \in Worker : exec'[v].node = exec[v].node
  BY DEF TypeOK

LEMMA WorkerGoesTo ==
    ASSUME TypeOK, NEW w \in Worker, exec[w].at # "waitNextJob",
           NEW p \in Points \ {"waitNextJob"}, Goto(w, p)
    PROVE  /\ exec' \in [Worker -> {Idle} \cup Running]
           /\ \A v \in Worker : exec'[v].node = exec[v].node
<1> DEFINE r == [exec[w] EXCEPT !.at = p]
<1>1. r \in Running /\ r.node = exec[w].node
  BY RunningWorker DEF Running
<1>2. exec' = [exec EXCEPT ![w] = r]
  BY DEF Goto
<1> HIDE DEF r
<1> QED BY <1>1, <1>2, WorkerGoesOn

\* Inside exec, between taking a node and clearing its m_exec_queued.
WorkStep(w) ==
    \/ LockInputs(w) \/ UnlockInputs(w) \/ ClearNewInput(w)
    \/ TakeMessage(w) \/ LockAllowQueue(w) \/ ClearAllowQueue(w) \/ DoWork(w)
    \/ LockOutputs(w) \/ NotifyChildren(w) \/ LockExecQueued(w)
    \/ \E i \in Input : GetImage(w, i) \/ BadInput(w, i)
    \/ \E o \in Output : SetOutputValue(w, o)

LEMMA WorkKeepsInvariant ==
    ASSUME IInv, NEW w \in Worker, WorkStep(w)
    PROVE  /\ IInv'
           /\ queue' = queue
           /\ \A v \in Worker : exec'[v].node = exec[v].node
<1> USE DEF IInv
<1>w. w \in Thread
  BY ThreadFacts
<1> DEFINE n == exec[w].node
           ExecOK == /\ exec' \in [Worker -> {Idle} \cup Running]
                     /\ \A v \in Worker : exec'[v].node = exec[v].node
<1>f. ASSUME n \in Node, Enter(w, Call("demandNewParentInput", n)), calls[w] = <<>>
      PROVE  QuietCalls(w)
  BY <1>w, <1>f, CallFrame, EnterCalls DEF Operations, Checking
<1>1. CASE LockInputs(w)
  <2> DEFINE r == [exec[w] EXCEPT !.at = "gather", !.ins = InputsOf(n) \cap ImageInput]
  <2>1. r \in Running /\ r.node = n
    BY <1>1, RunningWorker DEF LockInputs, At, Running, Points, InputsOf
  <2>2. exec' = [exec EXCEPT ![w] = r]
    BY <1>1 DEF LockInputs
  <2>3. ExecOK
    <3> HIDE DEF r
    <3> QED BY <2>1, <2>2, WorkerGoesOn
  <2>4. QuietCalls(w)
    BY <1>1, <1>w, SameCalls DEF LockInputs
  <2>5. TypeOK'
    BY <1>1, <2>3, <2>4 DEF QuietCalls, TypeOK, LockInputs, graph, flags, devices
  <2> QED BY <1>1, <1>w, <2>3, <2>4, <2>5, QuietStep DEF LockInputs, flags
<1>2. CASE UnlockInputs(w) \/ LockOutputs(w) \/ LockAllowQueue(w) \/ LockExecQueued(w)
  <2>1. ExecOK
    BY <1>2, WorkerGoesTo DEF UnlockInputs, LockOutputs, LockAllowQueue, LockExecQueued, ClearsNow, At, Points
  <2>2. QuietCalls(w)
    BY <1>2, <1>w, SameCalls DEF UnlockInputs, LockOutputs, LockAllowQueue, LockExecQueued
  <2>3. TypeOK'
    BY <1>2, <2>1, <2>2 DEF QuietCalls, TypeOK, UnlockInputs, LockOutputs, LockAllowQueue,
                            LockExecQueued, graph, flags, devices
  <2> QED BY <1>2, <1>w, <2>1, <2>2, <2>3, QuietStep
          DEF UnlockInputs, LockOutputs, LockAllowQueue, LockExecQueued, flags
<1>3. CASE ClearNewInput(w)
  <2>1. ExecOK
    BY <1>3, WorkerGoesTo DEF ClearNewInput, At, Points
  <2>2. QuietCalls(w)
    BY <1>3, <1>w, <1>f, SameCalls, RunningWorker DEF ClearNewInput, At
  <2>3. TypeOK'
    <3>1. status' \in [Input -> {"New", "Old", "Invalid"}]
      BY <1>3 DEF TypeOK, ClearNewInput
    <3> QED BY <1>3, <2>1, <2>2, <3>1 DEF QuietCalls, TypeOK, ClearNewInput, graph, flags, devices
  <2> QED BY <1>3, <1>w, <2>1, <2>2, <2>3, QuietStep DEF ClearNewInput, flags
<1>4. CASE TakeMessage(w) \/ ClearAllowQueue(w)
  <2>1. ExecOK
    BY <1>4, WorkerGoesTo DEF TakeMessage, ClearAllowQueue, At, Points
  <2>2. QuietCalls(w)
    BY <1>4, <1>w, SameCalls DEF TakeMessage, ClearAllowQueue
  <2>3. TypeOK'
    BY <1>4, <2>1, <2>2 DEF QuietCalls, TypeOK, TakeMessage, ClearAllowQueue, graph, flags, devices
  <2> QED BY <1>4, <1>w, <2>1, <2>2, <2>3, QuietStep DEF TakeMessage, ClearAllowQueue, flags
<1>5. CASE DoWork(w)
  <2>0. exec[w].at # "waitNextJob" /\ calls[w] = <<>>
    BY <1>5 DEF DoWork, At
  <2>1. ExecOK
    <3>1. PICK made \in SUBSET OutputsOf(n) :
            exec' = [exec EXCEPT ![w].at = "lockOutputs", ![w].outs = made]
      BY <1>5 DEF DoWork
    <3> DEFINE r == [exec[w] EXCEPT !.at = "lockOutputs", !.outs = made]
    <3>2. r \in Running /\ r.node = n
      BY <2>0, RunningWorker DEF Running, Points, OutputsOf
    <3>3. exec' = [exec EXCEPT ![w] = r]
      BY <3>1
    <3> HIDE DEF r
    <3> QED BY <3>2, <3>3, WorkerGoesOn
  <2>2. QuietCalls(w)
    BY <1>5, <1>w, <1>f, <2>0, SameCalls, RunningWorker DEF DoWork
  <2>3. TypeOK'
    <3>1. armed' \subseteq Asynchronous /\ inbox' \subseteq MessageNode /\ allowQueue' \subseteq Node
      BY <1>5 DEF TypeOK, DoWork, flags
    <3> QED BY <1>5, <2>1, <2>2, <3>1 DEF QuietCalls, TypeOK, DoWork, graph, flags
  <2>4. UNCHANGED <<execQueued, queue>>
    BY <1>5 DEF DoWork, flags
  <2> QED BY <1>w, <2>1, <2>2, <2>3, <2>4, QuietStep
<1>6. CASE NotifyChildren(w)
  <2>1. ExecOK
    BY <1>6, WorkerGoesTo DEF NotifyChildren, At, Points
  <2>2. QuietCalls(w)
    <3> DEFINE c == [Call("notifyEach", n) EXCEPT !.ins = exec[w].kids]
    <3>1. c \in Frame /\ c.op \notin Checking
      BY <1>6, RunningWorker
         DEF NotifyChildren, At, Call, Frame, Operations, Modes, Checking
    <3>2. Enter(w, c) /\ calls[w] = <<>>
      BY <1>6 DEF NotifyChildren, At
    <3> HIDE DEF c
    <3> QED BY <1>w, <3>1, <3>2, EnterCalls
  <2>3. TypeOK'
    BY <1>6, <2>1, <2>2 DEF QuietCalls, TypeOK, NotifyChildren, graph, flags, devices
  <2> QED BY <1>6, <1>w, <2>1, <2>2, <2>3, QuietStep DEF NotifyChildren, flags
<1>7. ASSUME NEW i \in Input, GetImage(w, i) PROVE IInv' /\ queue' = queue /\ ExecOK
  <2> DEFINE r == [exec[w] EXCEPT !.ins = @ \ {i}]
  <2>1. r \in Running /\ r.node = n
    BY <1>7, RunningWorker DEF GetImage, At, Running
  <2>2. exec' = [exec EXCEPT ![w] = r]
    BY <1>7 DEF GetImage
  <2>3. ExecOK
    <3> HIDE DEF r
    <3> QED BY <2>1, <2>2, WorkerGoesOn
  <2>4. QuietCalls(w)
    BY <1>7, <1>w, SameCalls DEF GetImage
  <2>5. TypeOK'
    BY <1>7, <2>3, <2>4 DEF QuietCalls, TypeOK, GetImage, graph, flags, devices
  <2> QED BY <1>7, <1>w, <2>3, <2>4, <2>5, QuietStep DEF GetImage, flags
<1>8. ASSUME NEW i \in Input, BadInput(w, i) PROVE IInv' /\ queue' = queue /\ ExecOK
  <2>1. ExecOK
    BY <1>8, WorkerGoesTo DEF BadInput, At, Points
  <2>2. QuietCalls(w)
    <3>1. CASE UNCHANGED calls
      BY <1>w, <3>1, SameCalls
    <3>2. CASE target[i] # NoOutput /\ Enter(w, Demand(target[i]))
      <4>1. target[i] \in Output
        BY <3>2 DEF TypeOK
      <4>2. Demand(target[i]) \in Frame /\ Demand(target[i]).op \notin Checking
        BY <4>1, DemandFrame
      <4> QED BY <1>8, <1>w, <3>2, <4>2, EnterCalls DEF BadInput, At
    <3> QED BY <1>8, <3>1, <3>2 DEF BadInput
  <2>3. TypeOK'
    BY <1>8, <2>1, <2>2 DEF QuietCalls, TypeOK, BadInput, graph, flags, devices
  <2> QED BY <1>8, <1>w, <2>1, <2>2, <2>3, QuietStep DEF BadInput, flags
<1>9. ASSUME NEW o \in Output, SetOutputValue(w, o) PROVE IInv' /\ queue' = queue /\ ExecOK
  <2> DEFINE r == [exec[w] EXCEPT !.outs = @ \ {o}, !.kids = @ \cup links[o]]
  <2>0. links[o] \subseteq Input
    BY DEF TypeOK
  <2>1. r \in Running /\ r.node = n
    BY <1>9, <2>0, RunningWorker DEF SetOutputValue, At, Running
  <2>2. exec' = [exec EXCEPT ![w] = r]
    BY <1>9 DEF SetOutputValue
  <2>3. ExecOK
    <3> HIDE DEF r
    <3> QED BY <2>1, <2>2, WorkerGoesOn
  <2>4. QuietCalls(w)
    BY <1>9, <1>w, SameCalls DEF SetOutputValue
  <2>5. TypeOK'
    BY <1>9, <2>0, <2>3, <2>4 DEF QuietCalls, TypeOK, SetOutputValue, graph, devices
  <2> QED BY <1>9, <1>w, <2>3, <2>4, <2>5, QuietStep DEF SetOutputValue
<1> QED BY <1>1, <1>2, <1>3, <1>4, <1>5, <1>6, <1>7, <1>8, <1>9 DEF WorkStep

-----------------------------------------------------------------------------
(* The four steps that decide, queue, run and release a node *)

LEMMA CheckAddSchedStep ==
    ASSUME IInv, NEW t \in Thread, CheckAddSched(t)
    PROVE  IInv'
<1> USE DEF IInv
<1> DEFINE c == Top(t)
           d == [c EXCEPT !.op = "conditions"]
<1>1. /\ calls[t] # <<>>
      /\ calls[t] \in Seq(Frame)
      /\ Nested(calls[t])
      /\ c \in Frame
      /\ c.node \in Node
  BY TopFrame DEF CheckAddSched, In, DecidesOnTop
<1>2. CASE Return(t)
  <2>1. QuietCalls(t)
    BY <1>1, <1>2, ReturnCalls
  <2>2. TypeOK'
    BY <2>1 DEF QuietCalls, TypeOK, CheckAddSched, graph, flags, devices
  <2> QED BY <2>1, <2>2, QuietStep DEF CheckAddSched, flags
<1>3. CASE Become(t, d) /\ c.node \notin execQueued
  <2>1. d \in Frame /\ d.node = c.node /\ d.op = "conditions"
    BY <1>1 DEF Frame, Operations
  <2>2. UNCHANGED <<target, links, removed, status, value, demanded, execQueued, allowQueue,
                    queue, exec, inbox, armed, unused>>
    BY DEF CheckAddSched, graph, flags, devices
  <2>3. \A u \in Thread \ {t} : ~Holds(calls[u], c.node)
    BY DEF CheckAddSched, CheckingLocked, HoldsChecking, Holds
  <2> DEFINE r == <<d>> \o Tail(calls[t])
  <2>4. calls' = [calls EXCEPT ![t] = r]
    BY <1>3 DEF Become
  <2> HIDE DEF d
  <2>5. \A n : /\ r \in Seq(Frame)
               /\ Nested(r)
               /\ Holds(r, n) => Holds(calls[t], n) \/ c.node = n
               /\ Decides(r, n) => c.node = n
    BY <1>1, <2>1, BecomeStack
  <2> HIDE DEF r
  <2>6. calls' \in [Thread -> Seq(Frame)] /\ calls'[t] = r
    BY <2>4, <2>5 DEF TypeOK
  <2>7. \A u \in Thread \ {t} : calls'[u] = calls[u]
    BY <2>4 DEF TypeOK
  <2>8. TypeOK'
    BY <2>2, <2>6 DEF TypeOK
  <2>9. DecidesOnTop'
    BY <2>5, <2>6, <2>7 DEF DecidesOnTop
  <2>10. ChecksAlone'
    BY <2>3, <2>5, <2>6, <2>7 DEF ChecksAlone
  <2>11. DecidesFresh'
    BY <1>3, <2>2, <2>5, <2>6, <2>7 DEF DecidesFresh
  <2>12. ExecQueuedIsExact' /\ RunsOnce'
    BY <2>2 DEF ExecQueuedIsExact, RunsOnce, InQueue, IsRunning
  <2> QED BY <2>8, <2>9, <2>10, <2>11, <2>12
<1> QED BY <1>2, <1>3 DEF CheckAddSched

\* What AddJob knows of the node it queues.
LEMMA AddJobFacts ==
    ASSUME IInv, NEW t \in Thread, AddJob(t)
    PROVE  /\ Top(t).node \in Node \ execQueued
           /\ ~InQueue(Top(t).node)
           /\ ~IsRunning(Top(t).node)
           /\ Holds(calls[t], Top(t).node)
<1> USE DEF IInv
<1>1. /\ Top(t).node \in Node
      /\ calls[t] # <<>>
      /\ 1 \in DOMAIN calls[t]
      /\ Top(t) = calls[t][1]
      /\ Top(t).op = "addJob"
  BY TopFrame DEF AddJob, In, Top
<1>2. Decides(calls[t], Top(t).node) /\ Holds(calls[t], Top(t).node)
  BY <1>1 DEF Decides, Holds, Deciding, Checking
<1> QED BY <1>1, <1>2 DEF DecidesFresh, ExecQueuedIsExact

LEMMA AddJobStep ==
    ASSUME IInv, NEW t \in Thread, AddJob(t)
    PROVE  IInv'
<1> USE DEF IInv
<1> DEFINE n == Top(t).node
<1>1. /\ n \in Node \ execQueued
      /\ ~InQueue(n)
      /\ ~IsRunning(n)
      /\ Holds(calls[t], n)
  BY AddJobFacts
<1>2. QuietCalls(t) /\ \A m : ~Decides(calls'[t], m)
  BY ReturnCalls DEF AddJob, In
<1>3. queue \in Seq(Node) /\ queue' = Append(queue, n) /\ execQueued' = execQueued \cup {n}
      /\ UNCHANGED <<target, links, removed, status, value, demanded, allowQueue, exec, inbox, armed, unused>>
  BY DEF AddJob, TypeOK, graph, devices
<1> HIDE DEF n
<1>4. /\ queue' \in Seq(Node)
      /\ DOMAIN queue' = DOMAIN queue \cup {Len(queue) + 1}
      /\ \A k \in DOMAIN queue : queue'[k] = queue[k]
      /\ queue'[Len(queue) + 1] = n
      /\ Len(queue) + 1 \notin DOMAIN queue
  BY <1>1, <1>3
<1>5. \A m \in Node : InQueue(m)' <=> InQueue(m) \/ m = n
  BY <1>4 DEF InQueue
<1>6. \A m \in Node : IsRunning(m)' <=> IsRunning(m)
  BY <1>3 DEF IsRunning
<1>7. TypeOK'
  BY <1>1, <1>2, <1>3, <1>4 DEF TypeOK, QuietCalls
<1>8. DecidesOnTop' /\ ChecksAlone'
  <2>1. \A u \in Thread, m \in Node : Holds(calls'[u], m) => Holds(calls[u], m)
    BY <1>2 DEF QuietCalls
  <2> QED BY <1>2, <2>1 DEF DecidesOnTop, ChecksAlone, QuietCalls
<1>9. DecidesFresh'
  <2> SUFFICES ASSUME NEW u \in Thread, NEW m \in Node, Decides(calls'[u], m)
               PROVE  m \notin execQueued'
    BY DEF DecidesFresh
  <2>1. u # t
    BY <1>2
  <2>2. Decides(calls[u], m)
    BY <1>2, <2>1 DEF QuietCalls
  <2>3. Holds(calls[u], m)
    <3>1. calls[u] \in Seq(Frame) /\ calls[u] # <<>>
      BY <2>2 DEF TypeOK, Decides
    <3>2. 1 \in DOMAIN calls[u]
      BY <3>1, TailFacts
    <3> QED BY <2>2, <3>2 DEF Decides, Holds, Deciding, Checking
  <2>4. m # n
    BY <1>1, <2>1, <2>3 DEF ChecksAlone
  <2> QED BY <1>3, <2>2, <2>4 DEF DecidesFresh
<1>10. ExecQueuedIsExact'
  BY <1>3, <1>5, <1>6 DEF ExecQueuedIsExact
<1>11. RunsOnce'
  <2>1. \A j, k \in DOMAIN queue' : queue'[j] = queue'[k] => j = k
    BY <1>1, <1>4 DEF RunsOnce, InQueue
  <2>2. \A v, w \in Worker : exec'[v].node = exec'[w].node /\ exec'[v].node # NoNode => v = w
    BY <1>3 DEF RunsOnce
  <2>3. \A m \in Node : ~(InQueue(m) /\ IsRunning(m))'
    BY <1>1, <1>5, <1>6 DEF RunsOnce
  <2> QED BY <2>1, <2>2, <2>3 DEF RunsOnce
<1> QED BY <1>7, <1>8, <1>9, <1>10, <1>11

LEMMA WaitNextJobStep ==
    ASSUME IInv, NEW w \in Worker, WaitNextJob(w)
    PROVE  IInv'
<1> USE DEF IInv
<1> DEFINE n == Head(queue)
           r == [Idle EXCEPT !.at = "lockInputs", !.node = n]
<1>1. /\ queue \in Seq(Node)
      /\ queue # <<>>
      /\ queue' = Tail(queue)
      /\ exec' = [exec EXCEPT ![w] = r]
      /\ exec[w].node = NoNode
      /\ UNCHANGED <<target, links, removed, status, value, demanded, execQueued, allowQueue,
                     calls, inbox, armed, unused>>
  BY WiringAssumption
     DEF WaitNextJob, At, TypeOK, Idle, Running, graph, flags, devices
<1>2. /\ queue' \in Seq(Node)
      /\ n \in Node
      /\ n = queue[1]
      /\ DOMAIN queue' = 1 .. (Len(queue) - 1)
      /\ DOMAIN queue = 1 .. Len(queue)
      /\ 1 \in DOMAIN queue
      /\ Len(queue) \in Nat
      /\ \A k \in DOMAIN queue' : k + 1 \in DOMAIN queue /\ k + 1 # 1 /\ queue'[k] = queue[k + 1]
  BY <1>1, TailFacts
<1>3. r \in Running /\ r.node = n
  BY <1>2 DEF Idle, Running, Points
<1> HIDE DEF n, r
<1>4. /\ exec' \in [Worker -> {Idle} \cup Running]
      /\ exec'[w].node = n
      /\ \A v \in Worker \ {w} : exec'[v].node = exec[v].node
  BY <1>1, <1>3 DEF TypeOK
<1>5. \A m \in Node : InQueue(m)' <=> InQueue(m) /\ m # n
  <2> SUFFICES ASSUME NEW m \in Node PROVE InQueue(m)' <=> InQueue(m) /\ m # n
    OBVIOUS
  <2>1. ASSUME InQueue(m)' PROVE InQueue(m) /\ m # n
    BY <1>2, <2>1 DEF InQueue, RunsOnce
  <2>2. ASSUME InQueue(m), m # n PROVE InQueue(m)'
    <3>1. PICK k \in DOMAIN queue : queue[k] = m
      BY <2>2 DEF InQueue
    <3>2. k - 1 \in DOMAIN queue' /\ (k - 1) + 1 = k
      BY <1>2, <2>2, <3>1
    <3> QED BY <1>2, <3>1, <3>2 DEF InQueue
  <2> QED BY <2>1, <2>2
<1>6. \A m \in Node : IsRunning(m)' <=> IsRunning(m) \/ m = n
  BY <1>1, <1>4, WiringAssumption DEF IsRunning
<1>7. InQueue(n) /\ ~IsRunning(n)
  BY <1>2 DEF InQueue, RunsOnce
<1>8. TypeOK'
  BY <1>1, <1>2, <1>4 DEF TypeOK
<1>9. DecidesOnTop' /\ ChecksAlone' /\ DecidesFresh'
  BY <1>1 DEF DecidesOnTop, ChecksAlone, DecidesFresh
<1>10. ExecQueuedIsExact'
  BY <1>1, <1>5, <1>6, <1>7 DEF ExecQueuedIsExact
<1>11. RunsOnce'
  <2>1. \A j, k \in DOMAIN queue' : queue'[j] = queue'[k] => j = k
    <3> SUFFICES ASSUME NEW j \in DOMAIN queue', NEW k \in DOMAIN queue', queue'[j] = queue'[k]
                 PROVE  j = k
      OBVIOUS
    <3>1. j + 1 = k + 1
      BY <1>2 DEF RunsOnce
    <3> QED BY <1>2, <3>1
  <2>2. \A v, u \in Worker : exec'[v].node = exec'[u].node /\ exec'[v].node # NoNode => v = u
    BY <1>4, <1>7 DEF RunsOnce, IsRunning
  <2>3. \A m \in Node : ~(InQueue(m) /\ IsRunning(m))'
    BY <1>5, <1>6 DEF RunsOnce
  <2> QED BY <2>1, <2>2, <2>3 DEF RunsOnce
<1> QED BY <1>8, <1>9, <1>10, <1>11

LEMMA ClearExecQueuedStep ==
    ASSUME IInv, NEW w \in Worker, ClearExecQueued(w)
    PROVE  IInv'
<1> USE DEF IInv
<1> DEFINE n == exec[w].node
<1>1. /\ n \in Node
      /\ calls[w] = <<>>
      /\ exec' = [exec EXCEPT ![w] = Idle]
      /\ execQueued' = execQueued \ {n}
      /\ UNCHANGED <<target, links, removed, status, value, demanded, allowQueue, queue,
                     inbox, armed, unused>>
  BY RunningWorker DEF ClearExecQueued, At, graph, devices
<1>2. QuietCalls(w)
  BY <1>1, ThreadFacts, CheckFrame, EnterCalls DEF ClearExecQueued, Modes
<1>3. Idle.node = NoNode /\ exec' \in [Worker -> {Idle} \cup Running]
      /\ exec'[w].node = NoNode
      /\ \A v \in Worker \ {w} : exec'[v].node = exec[v].node
  BY <1>1 DEF TypeOK, Idle
<1> HIDE DEF n
<1>4. \A m \in Node : InQueue(m)' <=> InQueue(m)
  BY <1>1 DEF InQueue
<1>5. \A m \in Node : IsRunning(m)' <=> IsRunning(m) /\ m # n
  BY <1>1, <1>3, WiringAssumption DEF IsRunning, RunsOnce, n
<1>6. IsRunning(n) /\ ~InQueue(n)
  BY <1>1 DEF IsRunning, RunsOnce, n
<1>7. TypeOK'
  BY <1>1, <1>2, <1>3 DEF TypeOK, QuietCalls
<1>8. DecidesOnTop' /\ ChecksAlone'
  <2>1. \A u \in Thread, m \in Node : Holds(calls'[u], m) => Holds(calls[u], m)
    BY <1>2 DEF QuietCalls
  <2> QED BY <1>2, <2>1 DEF DecidesOnTop, ChecksAlone, QuietCalls
<1>9. DecidesFresh'
  <2>1. \A u \in Thread, m \in Node : Decides(calls'[u], m) => Decides(calls[u], m)
    BY <1>2 DEF QuietCalls
  <2> QED BY <1>1, <2>1 DEF DecidesFresh
<1>10. ExecQueuedIsExact'
  BY <1>1, <1>4, <1>5, <1>6 DEF ExecQueuedIsExact
<1>11. RunsOnce'
  <2>1. \A v, u \in Worker : exec'[v].node = exec'[u].node /\ exec'[v].node # NoNode => v = u
    BY <1>3 DEF RunsOnce
  <2> QED BY <1>1, <1>4, <1>5, <2>1 DEF RunsOnce
<1> QED BY <1>7, <1>8, <1>9, <1>10, <1>11

-----------------------------------------------------------------------------
(* The theorems *)

LEMMA InitInvariant == Init => IInv
<1> SUFFICES ASSUME Init PROVE IInv
  OBVIOUS
<1> USE DEF Init
<1>1. TypeOK
  BY NodeAssumption DEF TypeOK, MessageNode
<1>2. \A t \in Thread : \A n : Nested(calls[t]) /\ ~Holds(calls[t], n) /\ ~Decides(calls[t], n)
  BY DEF Nested, Holds, Decides
<1>3. DecidesOnTop /\ ChecksAlone /\ DecidesFresh
  BY <1>2 DEF DecidesOnTop, ChecksAlone, DecidesFresh
<1>4. \A n \in Node : ~InQueue(n) /\ ~IsRunning(n)
  BY WiringAssumption DEF InQueue, IsRunning, Idle
<1>5. ExecQueuedIsExact
  BY <1>4 DEF ExecQueuedIsExact
<1>6. RunsOnce
  BY <1>4 DEF RunsOnce, Idle
<1> QED BY <1>1, <1>3, <1>5, <1>6 DEF IInv

LEMMA NextInvariant == IInv /\ [Next]_vars => IInv'
<1> SUFFICES ASSUME IInv, [Next]_vars PROVE IInv'
  OBVIOUS
<1>1. CASE UNCHANGED vars
  BY <1>1 DEF vars, IInv, TypeOK, DecidesOnTop, ChecksAlone, DecidesFresh,
              ExecQueuedIsExact, RunsOnce, InQueue, IsRunning
<1>2. ASSUME NEW t \in Thread, CallStep(t) PROVE IInv'
  BY <1>2, CheckAddSchedStep, ConditionsStep, EnsureValidInputStep, AddJobStep,
     LoopStep, NoteKeepsInvariant DEF CallStep, NoteStep
<1>3. ASSUME NEW w \in Worker, ExecStep(w) PROVE IInv'
  BY <1>3, WaitNextJobStep, ClearExecQueuedStep, WorkKeepsInvariant DEF ExecStep, WorkStep
<1>4. CASE StartStep
  BY <1>4, StartKeepsInvariant
<1> QED BY <1>1, <1>2, <1>3, <1>4 DEF Next, Build, Disturb, StartStep

\* Whatever the graph, the invariant holds in every reachable state.
THEOREM Invariance == Spec => []IInv
<1>1. Init => IInv
  BY InitInvariant
<1>2. IInv /\ [Next]_vars => IInv'
  BY NextInvariant
<1> QED BY <1>1, <1>2, PTL DEF Spec

\* Every variable keeps its type: no thread is inside of a call that the code
\* does not have, and no worker runs anything but a node.
THEOREM TypeCorrect == Spec => []TypeOK
<1>1. IInv => TypeOK
  BY DEF IInv
<1> QED BY <1>1, Invariance, PTL

\* m_exec_queued is set exactly while the node is on the queue or in exec.
THEOREM ExecQueuedCorrect == Spec => []ExecQueuedIsExact
<1>1. IInv => ExecQueuedIsExact
  BY DEF IInv
<1> QED BY <1>1, Invariance, PTL

\* node.h:747: no node executes in more than one thread at once, none is on
\* the queue twice, and none is queued while it runs.
THEOREM NodesRunOnce == Spec => []RunsOnce
<1>1. IInv => RunsOnce
  BY DEF IInv
<1> QED BY <1>1, Invariance, PTL

-----------------------------------------------------------------------------
(* NodeSched implements SerialQueue *)

\* A step that submits, starts and finishes nothing is a stutter.
LEMMA SerialStutter ==
    ASSUME queue' = queue, exec \in [Worker -> {Idle} \cup Running],
           exec' \in [Worker -> {Idle} \cup Running],
           \A w \in Worker : exec'[w].node = exec[w].node
    PROVE  UNCHANGED <<queue, [w \in Worker |-> exec[w].node]>>
  OBVIOUS

LEMMA SerialStep ==
    ASSUME IInv, IInv', [Next]_vars
    PROVE  [Serial!Next]_<<queue, [w \in Worker |-> exec[w].node]>>
<1> DEFINE running == [w \in Worker |-> exec[w].node]
<1> USE DEF IInv
<1>1. CASE UNCHANGED vars
  BY <1>1 DEF vars
<1>2. ASSUME NEW t \in Thread, AddJob(t)
      PROVE  Serial!Submit(Top(t).node) /\ Top(t).node \in Node
  <2>1. /\ Top(t).node \in Node
        /\ \A k \in DOMAIN queue : queue[k] # Top(t).node
        /\ \A w \in Worker : exec[w].node # Top(t).node
    BY <1>2, AddJobFacts DEF InQueue, IsRunning
  <2>2. queue' = Append(queue, Top(t).node) /\ UNCHANGED exec
    BY <1>2 DEF AddJob
  <2> QED BY <2>1, <2>2 DEF Serial!Submit
<1>3. ASSUME NEW w \in Worker, WaitNextJob(w) PROVE Serial!Start(w)
  <2>1. /\ exec \in [Worker -> {Idle} \cup Running]
        /\ exec[w].node = NoNode
        /\ queue # <<>>
        /\ queue' = Tail(queue)
        /\ exec' = [exec EXCEPT ![w] = [Idle EXCEPT !.at = "lockInputs", !.node = Head(queue)]]
    BY <1>3 DEF WaitNextJob, At, TypeOK, Idle, Running
  <2>2. [Idle EXCEPT !.at = "lockInputs", !.node = Head(queue)].node = Head(queue)
    BY DEF Idle
  <2>3. running' = [running EXCEPT ![w] = Head(queue)]
    BY <2>1, <2>2
  <2> QED BY <2>1, <2>3 DEF Serial!Start
<1>4. ASSUME NEW w \in Worker, ClearExecQueued(w) PROVE Serial!Finish(w)
  <2>1. /\ exec \in [Worker -> {Idle} \cup Running]
        /\ exec[w].node \in Node
        /\ exec' = [exec EXCEPT ![w] = Idle]
        /\ queue' = queue
    BY <1>4, RunningWorker DEF ClearExecQueued, At, TypeOK
  <2>2. Idle.node = NoNode /\ exec[w].node # NoNode
    BY <2>1, WiringAssumption DEF Idle
  <2>3. running' = [running EXCEPT ![w] = NoNode]
    BY <2>1, <2>2
  <2> QED BY <2>1, <2>2, <2>3 DEF Serial!Finish
<1>5. CASE UNCHANGED <<queue, running>>
  BY <1>5
<1>6. ASSUME NEW t \in Thread, CallStep(t), ~AddJob(t)
      PROVE  UNCHANGED <<queue, exec>>
  BY <1>6 DEF CallStep, CheckAddSched, Conditions, EnsureValidInput, SetExecQueued, DemandEach,
              NotifyEach, DemandNewParentInput, SetNewOutputDemanded, SetNewInput,
              SetAllowQueue, AllowNode, SetOutput, LinkOutput, SetInput, MessageHandled,
              ClearOutput, ClearInput, UnlinkParents, UnlinkChildren, ClearOutputs, ClearInputs
<1>7. CASE StartStep
  <2>1. ASSUME NEW n \in Removable, RemoveNode(n) PROVE UNCHANGED <<queue, exec>>
    BY <2>1, Zenon DEF RemoveNode
  <2>2. ASSUME ~\E n \in Removable : RemoveNode(n) PROVE UNCHANGED <<queue, exec>>
    BY <1>7, <2>2 DEF StartStep, AddArc, RemoveArc, SetParam, ForceExec, OnMessage,
                      TimerCallback
  <2> QED BY <2>1, <2>2
<1>8. ASSUME NEW w \in Worker, WorkStep(w) PROVE UNCHANGED <<queue, running>>
  BY <1>8, WorkKeepsInvariant, SerialStutter DEF TypeOK
<1>9. ASSUME NEW w \in Worker, ExecStep(w)
      PROVE  WaitNextJob(w) \/ ClearExecQueued(w) \/ WorkStep(w)
  BY <1>9 DEF ExecStep, WorkStep
<1>10. CASE \E t \in Thread : CallStep(t)
  BY <1>2, <1>6, <1>10 DEF Serial!Next
<1>11. CASE \E w \in Worker : ExecStep(w)
  BY <1>3, <1>4, <1>8, <1>9, <1>11 DEF Serial!Next
<1> QED BY <1>1, <1>7, <1>10, <1>11 DEF Next, Build, Disturb, StartStep

\* Node scheduling implements SerialQueue: nodes are run in the order in which
\* they were queued, never two at once on two workers.
THEOREM ImplementsSerialQueue == Spec => RunsSerially
<1>1. Init => Serial!Init
  BY DEF Init, Serial!Init, Idle
<1>2. IInv /\ IInv' /\ [Next]_vars => [Serial!Next]_<<queue, [w \in Worker |-> exec[w].node]>>
  BY SerialStep
<1> QED BY <1>1, <1>2, Invariance, PTL DEF Spec, RunsSerially, Serial!Spec

-----------------------------------------------------------------------------
(* The second part: nodes that could be queued *)

\* The calls that threads are inside of.
CallsIn(s) == {s[k] : k \in DOMAIN s}
Open == UNION {CallsIn(calls[t]) : t \in Thread}

\* Calls in which, or after which, checkAddSched has still to look at the node.
Early == {"checkAddSched", "conditions", "ensureValidInput", "setExecQueued", "addJob",
          "setInput", "setNewInput", "setNewOutputDemanded", "setAllowQueue", "allowNode"}
\* The conditions have been found to hold.
Found == {"ensureValidInput", "setExecQueued", "addJob"}

WillBeChecked(n) == \E c \in Open : c.node = n /\ c.op \in Early
WasFound(n) == \E c \in Open : c.node = n /\ c.op \in Found
Arriving(i) == \E c \in Open : c.op = "setNewInput" /\ i \in c.ins

\* Calls and workers deal with the inputs and outputs of their own node.
CallOK(c) ==
    /\ c.op \in {"setInput", "setNewInput"} => c.ins \subseteq InputsOf(c.node)
    /\ c.op = "setNewOutputDemanded" => c.outs \subseteq OutputsOf(c.node)
    /\ c.mode = "Force" => c.node \in Forced
CallsOK == \A c \in Open : CallOK(c)
WorkOK ==
    \A w \in Worker : /\ exec[w].ins \subseteq InputsOf(exec[w].node)
                      /\ exec[w].outs \subseteq OutputsOf(exec[w].node)

\* No node that could be queued is forgotten.
NoneIsLost == \A n \in Node : Runnable(n) => n \in execQueued \/ WillBeChecked(n)

Ready(n) ==
    /\ OutputDemanded(n)
    /\ \A i \in InputsOf(n) \cap MustBeNew : status[i] = "New" \/ Arriving(i)
FoundStaysTrue == \A n \in Node \ Forced : InQueue(n) \/ WasFound(n) => Ready(n)

\* The inductive invariant: IInv, and
Wakes == CallsOK /\ WorkOK /\ NoneIsLost /\ FoundStaysTrue
WInv == IInv /\ Wakes

-----------------------------------------------------------------------------
(* The set of open calls *)

LEMMA CallsInFacts ==
    ASSUME NEW s \in Seq(Frame)
    PROVE  /\ CallsIn(s) \subseteq Frame
           /\ s # <<>> => CallsIn(s) = CallsIn(Tail(s)) \cup {Head(s)} /\ Tail(s) \in Seq(Frame)
           /\ \A c \in Frame : CallsIn(<<c>> \o s) = CallsIn(s) \cup {c}
           /\ \A c, d \in Frame : CallsIn(<<c, d>> \o s) = CallsIn(s) \cup {c, d}
<1>1. CallsIn(s) \subseteq Frame
  BY DEF CallsIn
<1>2. ASSUME s # <<>> PROVE CallsIn(s) = CallsIn(Tail(s)) \cup {Head(s)}
  <2>1. /\ Head(s) = s[1]
        /\ 1 \in DOMAIN s
        /\ DOMAIN s = 1 .. Len(s)
        /\ Len(s) \in Nat
        /\ DOMAIN Tail(s) = 1 .. (Len(s) - 1)
        /\ \A k \in DOMAIN Tail(s) : k + 1 \in DOMAIN s /\ Tail(s)[k] = s[k + 1]
    BY <1>2, TailFacts
  <2>2. \A k \in DOMAIN s : k = 1 \/ (k - 1 \in DOMAIN Tail(s) /\ Tail(s)[k - 1] = s[k])
    <3> SUFFICES ASSUME NEW k \in DOMAIN s, k # 1
                 PROVE  k - 1 \in DOMAIN Tail(s) /\ Tail(s)[k - 1] = s[k]
      OBVIOUS
    <3>1. k - 1 \in DOMAIN Tail(s) /\ (k - 1) + 1 = k
      BY <2>1
    <3> QED BY <2>1, <3>1
  <2>3. CallsIn(Tail(s)) \subseteq CallsIn(s) /\ Head(s) \in CallsIn(s)
    BY <2>1 DEF CallsIn
  <2>4. ASSUME NEW c \in CallsIn(s) PROVE c \in CallsIn(Tail(s)) \cup {Head(s)}
    <3>1. PICK k \in DOMAIN s : s[k] = c
      BY DEF CallsIn
    <3> QED BY <2>1, <2>2, <3>1 DEF CallsIn
  <2> QED BY <2>3, <2>4
<1>3. ASSUME NEW c \in Frame PROVE CallsIn(<<c>> \o s) = CallsIn(s) \cup {c}
  <2> DEFINE r == <<c>> \o s
  <2>1. /\ DOMAIN r = 1 .. (Len(s) + 1)
        /\ DOMAIN s = 1 .. Len(s)
        /\ Len(s) \in Nat
        /\ r[1] = c
        /\ \A k \in DOMAIN r : k # 1 => k - 1 \in DOMAIN s /\ r[k] = s[k - 1]
    BY PushFacts
  <2> HIDE DEF r
  <2>2. \A k \in DOMAIN s : k + 1 \in DOMAIN r /\ r[k + 1] = s[k]
    <3> SUFFICES ASSUME NEW k \in DOMAIN s PROVE k + 1 \in DOMAIN r /\ r[k + 1] = s[k]
      OBVIOUS
    <3>1. k + 1 \in DOMAIN r /\ k + 1 # 1 /\ (k + 1) - 1 = k
      BY <2>1
    <3> QED BY <2>1, <3>1
  <2>3. 1 \in DOMAIN r
    BY <2>1
  <2>4. CallsIn(r) = CallsIn(s) \cup {c}
    BY <2>1, <2>2, <2>3 DEF CallsIn
  <2> QED BY <2>4 DEF r
<1>4. ASSUME NEW c \in Frame, NEW d \in Frame PROVE CallsIn(<<c, d>> \o s) = CallsIn(s) \cup {c, d}
  <2> DEFINE r == <<c, d>> \o s
  <2>1. /\ DOMAIN r = 1 .. (Len(s) + 2)
        /\ DOMAIN s = 1 .. Len(s)
        /\ Len(s) \in Nat
        /\ r[1] = c
        /\ r[2] = d
        /\ \A k \in DOMAIN r : k # 1 /\ k # 2 => k - 2 \in DOMAIN s /\ r[k] = s[k - 2]
    OBVIOUS
  <2> HIDE DEF r
  <2>2. \A k \in DOMAIN s : k + 2 \in DOMAIN r /\ r[k + 2] = s[k]
    <3> SUFFICES ASSUME NEW k \in DOMAIN s PROVE k + 2 \in DOMAIN r /\ r[k + 2] = s[k]
      OBVIOUS
    <3>1. k + 2 \in DOMAIN r /\ k + 2 # 1 /\ k + 2 # 2 /\ (k + 2) - 2 = k
      BY <2>1
    <3> QED BY <2>1, <3>1
  <2>3. 1 \in DOMAIN r /\ 2 \in DOMAIN r
    BY <2>1
  <2>4. CallsIn(r) = CallsIn(s) \cup {c, d}
    BY <2>1, <2>2, <2>3 DEF CallsIn
  <2> QED BY <2>4 DEF r
<1>5. s # <<>> => Tail(s) \in Seq(Frame)
  BY TailFacts
<1> QED BY <1>1, <1>2, <1>3, <1>4, <1>5

\* Thread t opens the calls C, and closes none but the innermost of its calls.
Swaps(t, C) ==
    /\ Open' \subseteq Open \cup C
    /\ C \subseteq Open'
    /\ \A c \in Open : c \in Open' \/ (calls[t] # <<>> /\ c = Top(t))

LEMMA SwapsBasic ==
    ASSUME NEW t \in Thread, NEW C, NEW r, calls \in [Thread -> Seq(Frame)],
           calls' = [calls EXCEPT ![t] = r],
           CallsIn(r) \subseteq CallsIn(calls[t]) \cup C,
           C \subseteq CallsIn(r),
           \A c \in CallsIn(calls[t]) : c \in CallsIn(r) \/ (calls[t] # <<>> /\ c = Top(t))
    PROVE  Swaps(t, C)
<1>1. calls'[t] = r /\ \A u \in Thread \ {t} : calls'[u] = calls[u]
  OBVIOUS
<1> QED BY <1>1 DEF Swaps, Open

LEMMA SwapsNone ==
    ASSUME NEW t \in Thread, UNCHANGED calls
    PROVE  Swaps(t, {})
  BY DEF Swaps, Open

LEMMA SwapsEnter ==
    ASSUME TypeOK, NEW t \in Thread, NEW c \in Frame, calls[t] = <<>>, Enter(t, c)
    PROVE  Swaps(t, {c})
<1> DEFINE r == <<c>> \o calls[t]
<1>1. CallsIn(r) = CallsIn(calls[t]) \cup {c}
  BY CallsInFacts DEF TypeOK
<1>2. calls' = [calls EXCEPT ![t] = r]
  BY DEF Enter
<1> HIDE DEF r
<1> QED BY <1>1, <1>2, SwapsBasic DEF TypeOK

LEMMA SwapsEnterTwo ==
    ASSUME TypeOK, NEW t \in Thread, NEW c \in Frame, NEW d \in Frame, calls[t] = <<>>,
           calls' = [calls EXCEPT ![t] = <<c, d>>]
    PROVE  Swaps(t, {c, d})
<1>1. CallsIn(<<c, d>>) = {c, d} /\ CallsIn(<<>>) = {}
  BY DEF CallsIn
<1> DEFINE r == <<c, d>>
<1> HIDE DEF r
<1>2. calls' = [calls EXCEPT ![t] = r] /\ CallsIn(r) = {c, d} /\ CallsIn(calls[t]) = {}
  BY <1>1 DEF r
<1> QED BY <1>2, SwapsBasic DEF TypeOK

LEMMA SwapsReturn ==
    ASSUME TypeOK, NEW t \in Thread, calls[t] # <<>>, Return(t)
    PROVE  Swaps(t, {})
<1>1. calls[t] \in Seq(Frame)
  BY DEF TypeOK
<1>2. CallsIn(calls[t]) = CallsIn(Tail(calls[t])) \cup {Top(t)}
  BY <1>1, CallsInFacts DEF Top
<1> DEFINE r == Tail(calls[t])
<1>3. calls' = [calls EXCEPT ![t] = r]
  BY DEF Return
<1> HIDE DEF r
<1>4. CallsIn(calls[t]) = CallsIn(r) \cup {Top(t)}
  BY <1>2 DEF r
<1> DEFINE C == {}
<1>5. /\ CallsIn(r) \subseteq CallsIn(calls[t]) \cup C
      /\ C \subseteq CallsIn(r)
      /\ \A c \in CallsIn(calls[t]) : c \in CallsIn(r) \/ (calls[t] # <<>> /\ c = Top(t))
  BY <1>4
<1> HIDE DEF C
<1>6. Swaps(t, C)
  BY <1>3, <1>5, SwapsBasic DEF TypeOK
<1> QED BY <1>6 DEF C

LEMMA SwapsBecome ==
    ASSUME TypeOK, NEW t \in Thread, calls[t] # <<>>, NEW c \in Frame, Become(t, c)
    PROVE  Swaps(t, {c})
<1>1. calls[t] \in Seq(Frame)
  BY DEF TypeOK
<1> DEFINE r == <<c>> \o Tail(calls[t])
<1>2. /\ CallsIn(calls[t]) = CallsIn(Tail(calls[t])) \cup {Top(t)}
      /\ CallsIn(r) = CallsIn(Tail(calls[t])) \cup {c}
  BY <1>1, CallsInFacts DEF Top
<1>3. calls' = [calls EXCEPT ![t] = r]
  BY DEF Become
<1> HIDE DEF r
<1> QED BY <1>2, <1>3, SwapsBasic DEF TypeOK

LEMMA SwapsLoop ==
    ASSUME TypeOK, NEW t \in Thread, calls[t] # <<>>, NEW c \in Frame, NEW d \in Frame,
           calls' = [calls EXCEPT ![t] = <<c, d>> \o Tail(@)]
    PROVE  Swaps(t, {c, d})
<1>1. calls[t] \in Seq(Frame)
  BY DEF TypeOK
<1> DEFINE r == <<c, d>> \o Tail(calls[t])
<1>2. /\ CallsIn(calls[t]) = CallsIn(Tail(calls[t])) \cup {Top(t)}
      /\ Tail(calls[t]) \in Seq(Frame)
  BY <1>1, CallsInFacts DEF Top
<1>4. CallsIn(r) = CallsIn(Tail(calls[t])) \cup {c, d}
  <2> DEFINE s == Tail(calls[t])
  <2> HIDE DEF s
  <2>1. s \in Seq(Frame)
    BY <1>2 DEF s
  <2>2. CallsIn(<<c, d>> \o s) = CallsIn(s) \cup {c, d}
    BY <2>1, CallsInFacts
  <2> QED BY <2>2 DEF s
<1>3. calls' = [calls EXCEPT ![t] = r]
  OBVIOUS
<1> HIDE DEF r
<1> QED BY <1>2, <1>3, <1>4, SwapsBasic DEF TypeOK

\* The innermost call of a thread is open.
LEMMA TopIsOpen ==
    ASSUME TypeOK, NEW t \in Thread, calls[t] # <<>>
    PROVE  Top(t) \in Open
  BY TopFrame DEF Open, CallsIn


-----------------------------------------------------------------------------
(* What keeps the invariant *)

LEMMA OpenFacts ==
    ASSUME TypeOK, NEW c \in Open
    PROVE  /\ c \in Frame
           /\ c.node \in Node
           /\ c.ins \subseteq Input
           /\ c.outs \subseteq Output
<1>1. PICK t \in Thread : c \in CallsIn(calls[t])
  BY DEF Open
<1>2. calls[t] \in Seq(Frame)
  BY DEF TypeOK
<1>3. c \in Frame
  BY <1>1, <1>2, CallsInFacts
<1> QED BY <1>3 DEF Frame

\* A node that has been found ready is not on its way already.
LEMMA FoundIsNotQueued ==
    ASSUME IInv, NEW n \in Node, WasFound(n)
    PROVE  n \notin execQueued /\ ~IsRunning(n) /\ ~InQueue(n)
<1> USE DEF IInv
<1>0. PICK t \in Thread : \E k \in DOMAIN calls[t] : calls[t][k].node = n /\ calls[t][k].op \in Found
  BY DEF WasFound, Open, CallsIn
<1>1. PICK k \in DOMAIN calls[t] : calls[t][k].node = n /\ calls[t][k].op \in Found
  BY <1>0
<1>2. k = 1
  BY <1>1 DEF DecidesOnTop, Nested, Deciding, Found
<1>3. calls[t] # <<>>
  BY <1>1
<1>4. Decides(calls[t], n)
  BY <1>1, <1>2, <1>3 DEF Decides, Deciding, Found
<1> QED BY <1>4 DEF DecidesFresh, ExecQueuedIsExact

LEMMA ArrivingKept ==
    ASSUME NEW t \in Thread, NEW C, Swaps(t, C),
           calls[t] = <<>> \/ Top(t).op # "setNewInput", NEW i
    PROVE  Arriving(i) => Arriving(i)'
  BY DEF Swaps, Arriving

LEMMA CallsKept ==
    ASSUME CallsOK, NEW t \in Thread, NEW C, Swaps(t, C), \A c \in C : CallOK(c)
    PROVE  CallsOK'
<1>1. \A c : CallOK(c)' <=> CallOK(c)
  BY DEF CallOK, InputsOf, OutputsOf
<1> QED BY <1>1 DEF CallsOK, Swaps

LEMMA CheckKept ==
    ASSUME NEW t \in Thread, NEW C, Swaps(t, C), NEW n, WillBeChecked(n),
           calls[t] = <<>> \/ Top(t).op \notin Early \/ Top(t).node # n
    PROVE  WillBeChecked(n)'
  BY DEF Swaps, WillBeChecked

LEMMA FoundKept ==
    ASSUME WInv, NEW t \in Thread, NEW C, Swaps(t, C),
           \A c \in C : c.op \in Found /\ c.node \notin Forced
                            => Ready(c.node) /\ ~IsRunning(c.node),
           \A n \in Node : InQueue(n)' => InQueue(n) \/ WasFound(n),
           \A n \in Node : Ready(n) /\ ~IsRunning(n) => Ready(n)'
    PROVE  FoundStaysTrue'
<1> SUFFICES ASSUME NEW n \in Node \ Forced, InQueue(n)' \/ WasFound(n)' PROVE Ready(n)'
  BY DEF FoundStaysTrue
<1>1. ASSUME InQueue(n) \/ WasFound(n) PROVE Ready(n)'
  <2>1. Ready(n)
    BY <1>1 DEF WInv, Wakes, FoundStaysTrue
  <2>2. ~IsRunning(n)
    BY <1>1, FoundIsNotQueued DEF WInv, IInv, RunsOnce
  <2> QED BY <2>1, <2>2
<1>2. ASSUME NEW c \in C, c.node = n, c.op \in Found PROVE Ready(n)'
  BY <1>2
<1>3. WasFound(n)' => WasFound(n) \/ \E c \in C : c.node = n /\ c.op \in Found
  BY DEF WasFound, Swaps
<1> QED BY <1>1, <1>2, <1>3

\* A step that ends no check and queues no node, and takes from a node that does
\* not run nothing that it was found to have.
LEMMA PassiveStep ==
    ASSUME WInv, NEW t \in Thread, NEW C, Swaps(t, C),
           \A c \in C : CallOK(c) /\ c.op \notin Found,
           calls[t] = <<>> \/ Top(t).op \notin Early,
           WorkOK',
           execQueued' = execQueued,
           \A n \in Node : InQueue(n)' => InQueue(n),
           \A n \in Node : Runnable(n)' => Runnable(n) \/ n \in execQueued,
           \A n \in Node : ~IsRunning(n) =>
               /\ OutputDemanded(n) => OutputDemanded(n)'
               /\ \A i \in InputsOf(n) : status[i] = "New" => status'[i] = "New"
    PROVE  Wakes'
<1>1. CallsOK'
  BY CallsKept DEF WInv, Wakes
<1>2. NoneIsLost'
  BY CheckKept DEF WInv, Wakes, NoneIsLost
<1>3. FoundStaysTrue'
  <2>1. ASSUME NEW n \in Node, Ready(n), ~IsRunning(n) PROVE Ready(n)'
    <3>1. \A i : Arriving(i) => Arriving(i)'
      BY ArrivingKept DEF Early
    <3>2. OutputDemanded(n)'
      BY <2>1 DEF Ready
    <3>3. \A i \in InputsOf(n) \cap MustBeNew : status'[i] = "New" \/ Arriving(i)'
      BY <2>1, <3>1 DEF Ready
    <3> QED BY <3>2, <3>3 DEF Ready, InputsOf
  <2> QED BY <2>1, FoundKept
<1> QED BY <1>1, <1>2, <1>3 DEF Wakes

\* A step of calls only, which may cut links to parents.
LEMMA StillStep ==
    ASSUME WInv, NEW t \in Thread, NEW C, Swaps(t, C),
           \A c \in C : CallOK(c) /\ c.op \notin Found,
           calls[t] = <<>> \/ Top(t).op \notin Early,
           UNCHANGED <<status, demanded, allowQueue, execQueued, queue, exec>>,
           \A i \in Input : target'[i] \in {NoOutput, target[i]}
    PROVE  Wakes'
<1>1. WorkOK'
  BY DEF WInv, Wakes, WorkOK, InputsOf, OutputsOf
<1>2. \A n \in Node : InQueue(n)' => InQueue(n)
  BY DEF InQueue
<1>3. \A i \in Input : (Valid(i)' => Valid(i)) /\ (target'[i] # NoOutput => target[i] # NoOutput)
  BY DEF Valid
<1>4. \A n \in Node : Runnable(n)' => Runnable(n)
  BY <1>3 DEF Runnable, OutputDemanded, AllRequiredInputsAreNew, InputsOf, OutputsOf
<1>5. \A n \in Node : OutputDemanded(n) => OutputDemanded(n)'
  BY DEF OutputDemanded, OutputsOf
<1> QED BY <1>1, <1>2, <1>4, <1>5, PassiveStep

-----------------------------------------------------------------------------
(* Steps of calls only *)

LEMMA NewCallFacts ==
    ASSUME NEW n
    PROVE  /\ \A f : CallOK(Call(f, n)) /\ Call(f, n).op = f /\ Call(f, n).node = n
           /\ \A f, I : CallOK([Call(f, n) EXCEPT !.ins = I]) \/ f \in {"setInput", "setNewInput"}
           /\ \A f, I : [Call(f, n) EXCEPT !.ins = I].op = f
           /\ CallOK(Check(n, "AllNew"))
           /\ n \in Forced => CallOK(Check(n, "Force"))
           /\ \A m : Check(n, m).op = "checkAddSched" /\ Check(n, m).node = n
  BY DEF CallOK, Call, Check

LEMMA DemandFacts ==
    ASSUME NEW o \in Output
    PROVE  CallOK(Demand(o)) /\ Demand(o).op \notin Found
<1>1. OutputOf[o] \in Node
  BY WiringAssumption
<1> QED BY <1>1 DEF CallOK, Demand, Call, OutputsOf, Found

LEMMA NewInputFacts ==
    ASSUME NEW i \in Input
    PROVE  CallOK(NewInput(i)) /\ NewInput(i).op = "setNewInput" /\ NewInput(i).node = InputOf[i]
<1>1. InputOf[i] \in Node
  BY WiringAssumption
<1> QED BY <1>1 DEF CallOK, NewInput, Call, InputsOf

\* A call that goes on as another one that names no inputs or outputs of its node.
LEMMA GoesOn ==
    ASSUME WInv, NEW t \in Thread, calls[t] # <<>>, NEW c,
           c.node = Top(t).node, c.mode = Top(t).mode,
           c.op \notin {"setInput", "setNewInput", "setNewOutputDemanded"}
    PROVE  CallOK(c)
<1>1. CallOK(Top(t))
  BY TopIsOpen DEF WInv, IInv, Wakes, CallsOK
<1> QED BY <1>1 DEF CallOK

LEMMA StillReturn ==
    ASSUME WInv, NEW t \in Thread, calls[t] # <<>>, Return(t), Top(t).op \notin Early,
           UNCHANGED <<status, demanded, allowQueue, execQueued, queue, exec>>,
           \A i \in Input : target'[i] \in {NoOutput, target[i]}
    PROVE  Wakes'
<1>1. Swaps(t, {})
  BY SwapsReturn DEF WInv, IInv
<1> QED BY <1>1, StillStep

LEMMA StillBecome ==
    ASSUME WInv, NEW t \in Thread, calls[t] # <<>>, NEW c \in Frame, Become(t, c),
           Top(t).op \notin Early, CallOK(c), c.op \notin Found,
           UNCHANGED <<status, demanded, allowQueue, execQueued, queue, exec>>,
           \A i \in Input : target'[i] \in {NoOutput, target[i]}
    PROVE  Wakes'
<1>1. Swaps(t, {c})
  BY SwapsBecome DEF WInv, IInv
<1> QED BY <1>1, StillStep

LEMMA LoopWakes ==
    ASSUME WInv, NEW t \in Thread, DemandEach(t) \/ NotifyEach(t)
    PROVE  Wakes'
<1> USE DEF WInv, IInv
<1> DEFINE c == Top(t)
<1>1. /\ calls[t] # <<>>
      /\ c.op \in {"demandEach", "refuse", "notifyEach"}
      /\ c \in Frame
      /\ c.outs \subseteq Output
      /\ c.ins \subseteq Input
  BY TopFrame DEF DemandEach, NotifyEach, In, Top
<1>2. /\ UNCHANGED <<status, demanded, allowQueue, execQueued, queue, exec>>
      /\ \A i \in Input : target'[i] \in {NoOutput, target[i]}
  BY DEF DemandEach, NotifyEach, graph, flags
<1>3. c.op \notin Early /\ c.op \notin Found
  BY <1>1 DEF Early, Found
<1>4. CASE Return(t)
  BY <1>1, <1>2, <1>3, <1>4, StillReturn
<1>5. ASSUME NEW o \in c.outs,
             calls' = [calls EXCEPT ![t] = <<Demand(o), [c EXCEPT !.outs = @ \ {o}]>> \o Tail(@)]
      PROVE  Wakes'
  <2> DEFINE d == [c EXCEPT !.outs = @ \ {o}]
  <2>1. d \in Frame /\ d.op = c.op /\ d.node = c.node /\ d.mode = c.mode
    BY <1>1 DEF Frame
  <2>2. Demand(o) \in Frame /\ CallOK(Demand(o)) /\ Demand(o).op \notin Found
    BY <1>1, DemandFrame, DemandFacts
  <2> HIDE DEF d
  <2>3. CallOK(d)
    BY <1>1, <2>1, GoesOn
  <2>4. Swaps(t, {Demand(o), d})
    BY <1>1, <1>5, <2>1, <2>2, SwapsLoop DEF d
  <2> QED BY <1>1, <1>2, <1>3, <2>1, <2>2, <2>3, <2>4, StillStep
<1>6. ASSUME NEW i \in c.ins,
             calls' = [calls EXCEPT ![t] = <<NewInput(i), [c EXCEPT !.ins = @ \ {i}]>> \o Tail(@)]
      PROVE  Wakes'
  <2> DEFINE d == [c EXCEPT !.ins = @ \ {i}]
  <2>1. d \in Frame /\ d.op = c.op /\ d.node = c.node /\ d.mode = c.mode
    BY <1>1 DEF Frame
  <2>2. NewInput(i) \in Frame /\ CallOK(NewInput(i)) /\ NewInput(i).op \notin Found
    BY <1>1, NewInputFrame, NewInputFacts DEF Found
  <2> HIDE DEF d
  <2>3. CallOK(d)
    BY <1>1, <2>1, GoesOn
  <2>4. Swaps(t, {NewInput(i), d})
    BY <1>1, <1>6, <2>1, <2>2, SwapsLoop DEF d
  <2> QED BY <1>1, <1>2, <1>3, <2>1, <2>2, <2>3, <2>4, StillStep
<1> QED BY <1>4, <1>5, <1>6 DEF DemandEach, NotifyEach

LEMMA DemandNewParentInputWakes ==
    ASSUME WInv, NEW t \in Thread, DemandNewParentInput(t)
    PROVE  Wakes'
<1> USE DEF WInv, IInv
<1>1. calls[t] # <<>> /\ Top(t).op = "demandNewParentInput" /\ Top(t).node \in Node
  BY TopFrame DEF DemandNewParentInput, In, Top
<1> DEFINE d == [Call("demandEach", Top(t).node) EXCEPT
                     !.outs = {target[i] : i \in InputsOf(Top(t).node)} \ {NoOutput}]
<1>0. {target[i] : i \in InputsOf(Top(t).node)} \ {NoOutput} \subseteq Output
  BY DEF InputsOf, TypeOK
<1>2. d \in Frame
  BY <1>0, <1>1 DEF Call, Frame, Operations, Modes
<1>3. d.op = "demandEach" /\ d.mode = "AllNew"
  BY DEF Call
<1>4. Become(t, d)
  BY DEF DemandNewParentInput
<1>5. /\ UNCHANGED <<status, demanded, allowQueue, execQueued, queue, exec>>
      /\ \A i \in Input : target'[i] \in {NoOutput, target[i]}
  BY DEF DemandNewParentInput, graph, flags
<1> HIDE DEF d
<1>6. CallOK(d) /\ d.op \notin Found /\ Top(t).op \notin Early
  BY <1>1, <1>3 DEF CallOK, Found, Early
<1> QED BY <1>1, <1>2, <1>4, <1>5, <1>6, StillBecome

\* Steps that link and unlink, and the end of a handler.
LinkStep(t) ==
    \/ SetOutput(t) \/ LinkOutput(t) \/ MessageHandled(t)
    \/ ClearOutput(t) \/ ClearInput(t) \/ UnlinkParents(t) \/ UnlinkChildren(t)
    \/ ClearOutputs(t) \/ ClearInputs(t)

LEMMA LinkWakes ==
    ASSUME WInv, NEW t \in Thread, LinkStep(t)
    PROVE  Wakes'
<1> USE DEF WInv, IInv
<1> DEFINE c == Top(t)
<1>1. /\ calls[t] # <<>>
      /\ c.op \in {"setOutput", "linkOutput", "onMessage", "clearOutput", "clearInput",
                   "unlinkParents", "unlinkChildren", "clearOutputs", "clearInputs"}
      /\ c \in Frame
  BY TopFrame DEF LinkStep, SetOutput, LinkOutput, MessageHandled, In, Top,
         ClearOutput, ClearInput, UnlinkParents, UnlinkChildren, ClearOutputs, ClearInputs
<1>2. UNCHANGED <<status, demanded, allowQueue, execQueued, queue, exec>>
  BY DEF LinkStep, SetOutput, LinkOutput, MessageHandled, flags,
         ClearOutput, ClearInput, UnlinkParents, UnlinkChildren, ClearOutputs, ClearInputs
<1>3. \A i \in Input : target'[i] \in {NoOutput, target[i]}
  <2>1. CASE UNCHANGED target
    BY <2>1
  <2>2. CASE ClearInput(t) \/ UnlinkChildren(t) \/ ClearInputs(t)
    BY <2>2 DEF ClearInput, UnlinkChildren, ClearInputs
  <2> QED BY <2>1, <2>2 DEF LinkStep, SetOutput, LinkOutput, MessageHandled, graph,
                            ClearOutput, UnlinkParents, ClearOutputs
<1>4. c.op \notin Early
  BY <1>1 DEF Early
<1>5. CASE Return(t)
  BY <1>1, <1>2, <1>3, <1>4, <1>5, StillReturn
<1>6. ASSUME NEW d \in Frame, Become(t, d), d.node = c.node, d.mode = c.mode,
             d.op \in {"linkOutput", "unlinkParents", "unlinkChildren", "clearOutputs", "clearInputs"}
      PROVE  Wakes'
  <2>1. CallOK(d)
    BY <1>1, <1>6, GoesOn
  <2>2. d.op \notin Found
    BY <1>6 DEF Found
  <2> QED BY <1>1, <1>2, <1>3, <1>4, <1>6, <2>1, <2>2, StillBecome
<1>7. ASSUME NEW f \in {"linkOutput", "unlinkChildren", "clearOutputs", "clearInputs"},
             Become(t, [c EXCEPT !.op = f])
      PROVE  Wakes'
  <2> DEFINE d == [c EXCEPT !.op = f]
  <2>1. d \in Frame /\ d.op = f /\ d.node = c.node /\ d.mode = c.mode
    BY <1>1 DEF Frame, Operations
  <2> HIDE DEF d
  <2> QED BY <1>6, <1>7, <2>1 DEF d
<1>8. CASE UnlinkParents(t)
  <2>1. ASSUME NEW o \in c.outs, Become(t, [c EXCEPT !.outs = @ \ OutputsOf(OutputOf[o])])
        PROVE  Wakes'
    <3> DEFINE d == [c EXCEPT !.outs = @ \ OutputsOf(OutputOf[o])]
    <3>1. d \in Frame /\ d.op = "unlinkParents" /\ d.node = c.node /\ d.mode = c.mode
      BY <1>1, <1>8 DEF Frame, UnlinkParents, In, Top
    <3> HIDE DEF d
    <3> QED BY <1>6, <2>1, <3>1 DEF d
  <2> QED BY <1>7, <1>8, <2>1 DEF UnlinkParents
<1>9. CASE UnlinkChildren(t)
  <2>1. ASSUME NEW i \in c.ins, Become(t, [c EXCEPT !.ins = @ \ InputsOf(InputOf[i])])
        PROVE  Wakes'
    <3> DEFINE d == [c EXCEPT !.ins = @ \ InputsOf(InputOf[i])]
    <3>1. d \in Frame /\ d.op = "unlinkChildren" /\ d.node = c.node /\ d.mode = c.mode
      BY <1>1, <1>9 DEF Frame, UnlinkChildren, In, Top
    <3> HIDE DEF d
    <3> QED BY <1>6, <2>1, <3>1 DEF d
  <2> QED BY <1>7, <1>9, <2>1 DEF UnlinkChildren
<1> QED BY <1>5, <1>7, <1>8, <1>9
        DEF LinkStep, SetOutput, LinkOutput, MessageHandled, ClearOutput, ClearInput,
            ClearOutputs, ClearInputs

LEMMA StartWakes ==
    ASSUME WInv, StartStep
    PROVE  Wakes'
<1> USE DEF WInv, IInv
<1>1. ASSUME NEW i \in Input, AddArc(i) PROVE Wakes'
  <2> DEFINE c == LinkInput(i)
             d == LinkParent(i)
  <2>1. c \in Frame /\ d \in Frame
    BY <1>1, LinkFrames DEF AddArc
  <2>2. CallOK(c) /\ CallOK(d) /\ c.op \notin Found /\ d.op \notin Found
    BY DEF CallOK, LinkInput, LinkParent, Call, InputsOf, Found
  <2>3. /\ calls[Mailbox] = <<>>
        /\ \/ calls' = [calls EXCEPT ![Mailbox] = <<c, d>>]
           \/ calls' = [calls EXCEPT ![Mailbox] = <<d, c>>]
    BY <1>1 DEF AddArc
  <2> HIDE DEF c, d
  <2>4. Swaps(Mailbox, {c, d}) \/ Swaps(Mailbox, {d, c})
    BY <2>1, <2>3, ThreadFacts, SwapsEnterTwo
  <2>5. Swaps(Mailbox, {c, d})
    BY <2>4 DEF Swaps
  <2>6. /\ UNCHANGED <<status, demanded, allowQueue, execQueued, queue, exec>>
        /\ \A j \in Input : target'[j] \in {NoOutput, target[j]}
    BY <1>1 DEF AddArc, graph, flags
  <2> QED BY <2>2, <2>3, <2>5, <2>6, ThreadFacts, StillStep
<1>2. ASSUME NEW n \in Forced, ForceExec(n) PROVE Wakes'
  <2> DEFINE c == Check(n, "Force")
  <2>1. c \in Frame /\ CallOK(c) /\ c.op \notin Found
    BY CheckFrame, NewCallFacts, NodeAssumption DEF Modes, Found
  <2> HIDE DEF c
  <2>2. Swaps(Mailbox, {c}) /\ calls[Mailbox] = <<>>
    BY <1>2, <2>1, ThreadFacts, SwapsEnter DEF ForceExec, c
  <2>3. /\ UNCHANGED <<status, demanded, allowQueue, execQueued, queue, exec>>
        /\ \A j \in Input : target'[j] \in {NoOutput, target[j]}
    BY <1>2 DEF ForceExec, graph, flags
  <2> QED BY <2>1, <2>2, <2>3, ThreadFacts, StillStep
<1>3. ASSUME NEW n \in MessageNode, OnMessage(n) PROVE Wakes'
  <2> DEFINE c == Call("setAllowQueue", n)
             d == Call("onMessage", n)
  <2>1. n \in Node
    BY NodeAssumption DEF MessageNode
  <2>2. c \in Frame /\ d \in Frame
    BY <2>1, CallFrame DEF Operations
  <2>3. CallOK(c) /\ CallOK(d) /\ c.op \notin Found /\ d.op \notin Found
    <3>1. c.op = "setAllowQueue" /\ d.op = "onMessage" /\ c.mode = "AllNew" /\ d.mode = "AllNew"
      BY DEF Call
    <3> HIDE DEF c, d
    <3> QED BY <3>1 DEF CallOK, Found
  <2> HIDE DEF c, d
  <2>4. calls[Mailbox] = <<>> /\ calls' = [calls EXCEPT ![Mailbox] = <<c, d>>]
    BY <1>3 DEF OnMessage, c, d
  <2>5. Swaps(Mailbox, {c, d})
    BY <2>2, <2>4, ThreadFacts, SwapsEnterTwo
  <2>6. /\ UNCHANGED <<status, demanded, allowQueue, execQueued, queue, exec>>
        /\ \A j \in Input : target'[j] \in {NoOutput, target[j]}
    BY <1>3 DEF OnMessage, graph, flags
  <2> QED BY <2>3, <2>4, <2>5, <2>6, ThreadFacts, StillStep
<1>4. ASSUME NEW n \in Asynchronous, TimerCallback(n) PROVE Wakes'
  <2> DEFINE c == Call("demandNewParentInput", n)
  <2>1. c \in Frame
    BY CallFrame, ThreadFacts DEF Operations
  <2>2. CallOK(c) /\ c.op \notin Found
    BY DEF CallOK, Call, Found
  <2> HIDE DEF c
  <2>3. Swaps(n, {c}) /\ calls[n] = <<>>
    BY <1>4, <2>1, ThreadFacts, SwapsEnter DEF TimerCallback, c
  <2>4. /\ UNCHANGED <<status, demanded, allowQueue, execQueued, queue, exec>>
        /\ \A j \in Input : target'[j] \in {NoOutput, target[j]}
    BY <1>4 DEF TimerCallback, graph, flags
  <2> QED BY <2>2, <2>3, <2>4, ThreadFacts, StillStep
<1>5. ASSUME NEW i \in Rewired, RemoveArc(i) PROVE Wakes'
  <2> DEFINE c == [Call("clearOutput", OutputOf[target[i]]) EXCEPT !.ins = {i}]
             d == [Call("clearInput", InputOf[i]) EXCEPT !.ins = {i}]
  <2>1. i \in Input /\ target[i] \in Output
    BY <1>5, WiringAssumption DEF RemoveArc, TypeOK
  <2>2. OutputOf[target[i]] \in Node /\ InputOf[i] \in Node
    BY <2>1, WiringAssumption
  <2>3. c \in Frame /\ d \in Frame
    BY <2>1, <2>2 DEF Call, Frame, Operations, Modes
  <2>4. CallOK(c) /\ CallOK(d) /\ c.op \notin Found /\ d.op \notin Found
    BY DEF CallOK, Call, Found
  <2> HIDE DEF c, d
  <2>5. calls[Mailbox] = <<>> /\ calls' = [calls EXCEPT ![Mailbox] = <<c, d>>]
    BY <1>5 DEF RemoveArc, c, d
  <2>6. Swaps(Mailbox, {c, d})
    BY <2>3, <2>5, ThreadFacts, SwapsEnterTwo
  <2>7. /\ UNCHANGED <<status, demanded, allowQueue, execQueued, queue, exec>>
        /\ \A j \in Input : target'[j] \in {NoOutput, target[j]}
    BY <1>5 DEF RemoveArc, graph, flags
  <2> QED BY <2>4, <2>5, <2>6, <2>7, ThreadFacts, StillStep
<1>6. ASSUME NEW n \in Removable, RemoveNode(n) PROVE Wakes'
  <2> DEFINE parents == {target[i] : i \in InputsOf(n)} \ {NoOutput}
             children == UNION {links[o] : o \in OutputsOf(n)}
             c == [Call("unlinkParents", n) EXCEPT !.outs = parents, !.ins = children]
  <2>1. n \in Node
    BY NodeAssumption
  <2>2. parents \subseteq Output /\ children \subseteq Input
    BY DEF TypeOK, InputsOf, OutputsOf
  <2> HIDE DEF parents, children
  <2>3. c \in Frame
    BY <2>1, <2>2 DEF Call, Frame, Operations, Modes
  <2>8. c.op = "unlinkParents" /\ c.mode = "AllNew"
    BY DEF Call
  <2>5. Enter(Mailbox, c) /\ calls[Mailbox] = <<>>
    BY <1>6 DEF RemoveNode, parents, children
  <2> HIDE DEF c
  <2>4. CallOK(c) /\ c.op \notin Found
    BY <2>8 DEF CallOK, Found
  <2>6. Swaps(Mailbox, {c})
    BY <2>3, <2>5, ThreadFacts, SwapsEnter
  <2>7. /\ UNCHANGED <<status, demanded, allowQueue, execQueued, queue, exec>>
        /\ \A j \in Input : target'[j] \in {NoOutput, target[j]}
    BY <1>6 DEF RemoveNode, flags
  <2> QED BY <2>4, <2>5, <2>6, <2>7, ThreadFacts, StillStep
<1>7. ASSUME NEW i \in Settable, SetParam(i) PROVE Wakes'
  <2> DEFINE c == NewInput(i)
  <2>1. i \in Input /\ c \in Frame /\ CallOK(c) /\ c.op = "setNewInput" /\ c.node = InputOf[i]
    BY NewInputFrame, NewInputFacts, WiringAssumption
  <2> HIDE DEF c
  <2>2. Swaps(Mailbox, {c}) /\ calls[Mailbox] = <<>>
    BY <1>7, <2>1, ThreadFacts, SwapsEnter DEF SetParam, c
  <2>3. /\ status' = [status EXCEPT ![i] = "New"]
        /\ UNCHANGED <<target, demanded, allowQueue, execQueued, queue, exec>>
    BY <1>7 DEF SetParam, graph, flags
  <2>4. CallsOK'
    BY <2>1, <2>2, ThreadFacts, CallsKept DEF Wakes
  <2>5. WorkOK'
    BY <2>3 DEF Wakes, WorkOK, InputsOf, OutputsOf
  <2>6. WillBeChecked(InputOf[i])'
    BY <2>1, <2>2 DEF Swaps, WillBeChecked, Early
  <2>7. ASSUME NEW n \in Node, n # InputOf[i] PROVE Runnable(n)' => Runnable(n)
    BY <2>3, <2>7 DEF Runnable, OutputDemanded, AllRequiredInputsAreNew, Valid, InputsOf,
                      OutputsOf, TypeOK
  <2>8. NoneIsLost'
    BY <2>2, <2>3, <2>6, <2>7, ThreadFacts, CheckKept DEF Wakes, NoneIsLost
  <2>9. \A n \in Node : Ready(n) => Ready(n)'
    BY <2>2, <2>3, ThreadFacts, ArrivingKept
       DEF Ready, OutputDemanded, InputsOf, OutputsOf, TypeOK
  <2>10. FoundStaysTrue'
    <3>1. \A n \in Node : InQueue(n)' => InQueue(n)
      BY <2>3 DEF InQueue
    <3>2. c.op \notin Found
      BY <2>1 DEF Found
    <3> QED BY <2>2, <2>9, <3>1, <3>2, ThreadFacts, FoundKept
  <2> QED BY <2>4, <2>5, <2>8, <2>10 DEF Wakes
<1> QED BY <1>1, <1>2, <1>3, <1>4, <1>5, <1>6, <1>7 DEF StartStep

-----------------------------------------------------------------------------
(* checkAddSched *)

\* The steps of checkAddSched change only calls, and at last the queue.
Still == UNCHANGED <<target, status, demanded, allowQueue, exec>>

LEMMA StillFacts ==
    ASSUME Still
    PROVE  /\ \A n : Runnable(n)' <=> Runnable(n)
           /\ \A n : OutputDemanded(n)' <=> OutputDemanded(n)
           /\ WorkOK => WorkOK'
  BY DEF Still, Runnable, OutputDemanded, AllRequiredInputsAreNew, Valid, WorkOK,
         InputsOf, OutputsOf

\* checkAddSched of the node goes on, or returns for a node that need not be queued.
LEMMA CheckStep ==
    ASSUME WInv, NEW t \in Thread, NEW C, Swaps(t, C), Still, UNCHANGED <<execQueued, queue>>,
           calls[t] # <<>>, Top(t).op # "setNewInput",
           \A c \in C : CallOK(c),
           \A c \in C : c.op \in Found /\ c.node \notin Forced
                            => Ready(c.node) /\ ~IsRunning(c.node),
           \/ Top(t).node \in execQueued
           \/ ~Runnable(Top(t).node)
           \/ \E c \in C : c.node = Top(t).node /\ c.op \in Early
    PROVE  Wakes'
<1> USE DEF WInv, Wakes
<1>1. CallsOK'
  BY CallsKept
<1>2. NoneIsLost'
  <2> SUFFICES ASSUME NEW n \in Node, Runnable(n)' PROVE n \in execQueued' \/ WillBeChecked(n)'
    BY DEF NoneIsLost
  <2>1. Runnable(n)
    BY StillFacts
  <2>2. CASE n \in execQueued
    BY <2>2
  <2>3. CASE n # Top(t).node /\ WillBeChecked(n)
    BY <2>3, CheckKept
  <2>4. ASSUME n = Top(t).node, NEW c \in C, c.node = n, c.op \in Early
        PROVE  WillBeChecked(n)'
    BY <2>4 DEF Swaps, WillBeChecked
  <2> QED BY <2>1, <2>2, <2>3, <2>4 DEF NoneIsLost
<1>3. \A n \in Node : Ready(n) => Ready(n)'
  <2>1. \A i : Arriving(i) => Arriving(i)'
    BY ArrivingKept
  <2> QED BY <2>1, StillFacts DEF Ready, Still, InputsOf
<1>4. FoundStaysTrue'
  <2>1. \A n \in Node : InQueue(n)' => InQueue(n)
    BY DEF InQueue
  <2> QED BY <1>3, <2>1, FoundKept
<1> QED BY <1>1, <1>2, <1>4, StillFacts

LEMMA CheckAddSchedWakes ==
    ASSUME WInv, NEW t \in Thread, CheckAddSched(t)
    PROVE  Wakes'
<1> USE DEF WInv, IInv
<1> DEFINE c == Top(t)
           d == [c EXCEPT !.op = "conditions"]
<1>1. calls[t] # <<>> /\ c.op = "checkAddSched" /\ c \in Frame
  BY TopFrame DEF CheckAddSched, In, Top
<1>2. Still /\ UNCHANGED <<execQueued, queue>>
  BY DEF CheckAddSched, Still, graph, flags
<1>3. CallOK(c)
  BY <1>1, TopIsOpen DEF Wakes, CallsOK
<1>4. CASE Return(t) /\ (c.node \in execQueued \/ (c.mode # "Force" /\ c.node \notin allowQueue))
  <2>1. Swaps(t, {})
    BY <1>1, <1>4, SwapsReturn
  <2>2. c.node \in execQueued \/ ~Runnable(c.node)
    BY <1>4 DEF Runnable
  <2> QED BY <1>1, <1>2, <2>1, <2>2, CheckStep
<1>5. CASE Become(t, d)
  <2>1. d \in Frame /\ d.op = "conditions" /\ d.node = c.node /\ d.mode = c.mode
    BY <1>1 DEF Frame, Operations
  <2> HIDE DEF d
  <2>2. Swaps(t, {d}) /\ CallOK(d)
    BY <1>1, <1>5, <2>1, SwapsBecome, GoesOn
  <2>3. d.op \in Early /\ d.op \notin Found
    BY <2>1 DEF Early, Found
  <2> QED BY <1>1, <1>2, <2>1, <2>2, <2>3, CheckStep
<1> QED BY <1>4, <1>5 DEF CheckAddSched

\* A thread that decides about a node finds it neither queued nor running.
LEMMA DecidingFacts ==
    ASSUME IInv, NEW t \in Thread, calls[t] # <<>>, Top(t).op \in Deciding
    PROVE  Top(t).node \in Node /\ Top(t).node \notin execQueued /\ ~IsRunning(Top(t).node)
<1> USE DEF IInv
<1>1. Top(t) = calls[t][1] /\ Top(t).node \in Node
  BY TopFrame
<1>2. Decides(calls[t], Top(t).node)
  BY <1>1 DEF Decides
<1> QED BY <1>1, <1>2 DEF DecidesFresh, ExecQueuedIsExact

LEMMA ConditionsWakes ==
    ASSUME WInv, NEW t \in Thread, Conditions(t)
    PROVE  Wakes'
<1> USE DEF WInv, IInv
<1> DEFINE c == Top(t)
           d(f) == [c EXCEPT !.op = f]
<1>1. calls[t] # <<>> /\ c.op = "conditions" /\ c \in Frame /\ c.node \in Node
  BY TopFrame DEF Conditions, In, Top
<1>2. Still /\ UNCHANGED <<execQueued, queue>>
  BY DEF Conditions, Still, graph, flags
<1>3. CallOK(c) /\ ~IsRunning(c.node)
  BY <1>1, TopIsOpen, DecidingFacts DEF Wakes, CallsOK, Deciding
<1>4. \A f \in Found : /\ d(f) \in Frame /\ d(f).op = f
                       /\ d(f).node = c.node /\ d(f).mode = c.mode
  BY <1>1 DEF Frame, Operations, Found
<1>5. \A f \in Found : CallOK(d(f)) /\ d(f).op \in Early
  BY <1>1, <1>4, GoesOn DEF Found, Early
<1>6. CASE c.mode = "Force" /\ Become(t, d("setExecQueued"))
  <2> DEFINE e == d("setExecQueued")
  <2>1. e \in Frame /\ CallOK(e) /\ e.op \in Early /\ e.node = c.node
    BY <1>4, <1>5 DEF Found
  <2>2. c.node \in Forced
    BY <1>3, <1>6 DEF CallOK
  <2> HIDE DEF d
  <2>3. Swaps(t, {e})
    BY <1>1, <1>6, <2>1, SwapsBecome
  <2> HIDE DEF e
  <2> QED BY <1>1, <1>2, <2>1, <2>2, <2>3, CheckStep
<1>7. CASE /\ AllRequiredInputsAreNew(c.node) /\ OutputDemanded(c.node)
           /\ Become(t, d("ensureValidInput"))
  <2> DEFINE e == d("ensureValidInput")
  <2>1. e \in Frame /\ CallOK(e) /\ e.op \in Early /\ e.node = c.node
    BY <1>4, <1>5 DEF Found
  <2>2. Ready(c.node)
    BY <1>7 DEF Ready, AllRequiredInputsAreNew
  <2> HIDE DEF d
  <2>3. Swaps(t, {e})
    BY <1>1, <1>7, <2>1, SwapsBecome
  <2> HIDE DEF e
  <2> QED BY <1>1, <1>2, <1>3, <2>1, <2>2, <2>3, CheckStep
<1>8. CASE /\ ~(/\ AllRequiredInputsAreNew(c.node) /\ OutputDemanded(c.node)
                /\ AnyRequiredInputsAreNew(c.node))
           /\ Return(t)
  <2>1. Swaps(t, {})
    BY <1>1, <1>8, SwapsReturn
  <2>2. ~Runnable(c.node)
    BY <1>8 DEF Runnable, AllRequiredInputsAreNew, AnyRequiredInputsAreNew
  <2> QED BY <1>1, <1>2, <2>1, <2>2, CheckStep
<1> QED BY <1>6, <1>7, <1>8 DEF Conditions

LEMMA EnsureValidInputWakes ==
    ASSUME WInv, NEW t \in Thread, EnsureValidInput(t)
    PROVE  Wakes'
<1> USE DEF WInv, IInv
<1> DEFINE c == Top(t)
           invalid == {i \in InputsOf(c.node) \ Optional : ~Valid(i)}
           parents == {target[i] : i \in invalid} \ {NoOutput}
<1>1. calls[t] # <<>> /\ c.op = "ensureValidInput" /\ c \in Frame /\ c.node \in Node
  BY TopFrame DEF EnsureValidInput, In, Top
<1>2. Still /\ UNCHANGED <<execQueued, queue>>
  BY DEF EnsureValidInput, Still, graph, flags
<1>3. ~IsRunning(c.node)
  BY <1>1, DecidingFacts DEF Deciding
<1>4. c.node \notin Forced => Ready(c.node)
  <2>1. WasFound(c.node)
    BY <1>1, TopIsOpen DEF WasFound, Found
  <2> QED BY <1>1, <2>1 DEF Wakes, FoundStaysTrue
<1>5. CASE Become(t, [c EXCEPT !.op = "setExecQueued"])
  <2> DEFINE d == [c EXCEPT !.op = "setExecQueued"]
  <2>1. d \in Frame /\ d.op = "setExecQueued" /\ d.node = c.node /\ d.mode = c.mode
    BY <1>1 DEF Frame, Operations
  <2> HIDE DEF d
  <2>2. CallOK(d)
    BY <1>1, <2>1, GoesOn
  <2>3. Swaps(t, {d})
    BY <1>1, <1>5, <2>1, SwapsBecome DEF d
  <2>4. d.op \in Early
    BY <2>1 DEF Early
  <2> QED BY <1>1, <1>2, <1>3, <1>4, <2>1, <2>2, <2>3, <2>4, CheckStep
<1>6. CASE invalid # {} /\ Become(t, [c EXCEPT !.op = "refuse", !.outs = parents])
  <2> DEFINE d == [c EXCEPT !.op = "refuse", !.outs = parents]
  <2>1. parents \subseteq Output
    BY DEF InputsOf, TypeOK
  <2>2. ~Runnable(c.node)
    BY <1>6 DEF Runnable
  <2> HIDE DEF parents
  <2>3. d \in Frame /\ d.op = "refuse" /\ d.node = c.node /\ d.mode = c.mode
    BY <1>1, <2>1 DEF Frame, Operations
  <2> HIDE DEF d
  <2>4. CallOK(d) /\ d.op \notin Found
    BY <1>1, <2>3, GoesOn DEF Found
  <2>5. Swaps(t, {d})
    BY <1>1, <1>6, <2>3, SwapsBecome DEF d
  <2> QED BY <1>1, <1>2, <2>2, <2>3, <2>4, <2>5, CheckStep
<1> QED BY <1>5, <1>6 DEF EnsureValidInput

LEMMA SetExecQueuedWakes ==
    ASSUME WInv, NEW t \in Thread, SetExecQueued(t)
    PROVE  Wakes'
<1> USE DEF WInv, IInv
<1> DEFINE c == Top(t)
           d == [c EXCEPT !.op = "addJob"]
<1>1. calls[t] # <<>> /\ c.op = "setExecQueued" /\ c \in Frame /\ c.node \in Node
  BY TopFrame DEF SetExecQueued, In, Top
<1>2. Still /\ UNCHANGED <<execQueued, queue>> /\ Become(t, d)
  BY DEF SetExecQueued, Still, graph, flags
<1>3. ~IsRunning(c.node)
  BY <1>1, DecidingFacts DEF Deciding
<1>4. c.node \notin Forced => Ready(c.node)
  <2>1. WasFound(c.node)
    BY <1>1, TopIsOpen DEF WasFound, Found
  <2> QED BY <1>1, <2>1 DEF Wakes, FoundStaysTrue
<1>5. d \in Frame /\ d.op = "addJob" /\ d.node = c.node /\ d.mode = c.mode
  BY <1>1 DEF Frame, Operations
<1> HIDE DEF d
<1>6. CallOK(d)
  BY <1>1, <1>5, GoesOn
<1>7. Swaps(t, {d})
  BY <1>1, <1>2, <1>5, SwapsBecome
<1>8. d.op \in Early
  BY <1>5 DEF Early
<1> QED BY <1>1, <1>2, <1>3, <1>4, <1>5, <1>6, <1>7, <1>8, CheckStep

LEMMA AddJobWakes ==
    ASSUME WInv, NEW t \in Thread, AddJob(t)
    PROVE  Wakes'
<1> USE DEF WInv, IInv
<1> DEFINE n == Top(t).node
<1>1. calls[t] # <<>> /\ Top(t).op = "addJob" /\ n \in Node
  BY TopFrame DEF AddJob, In, Top
<1>2. Swaps(t, {})
  BY <1>1, SwapsReturn DEF AddJob
<1>3. Still /\ execQueued' = execQueued \cup {n} /\ queue' = Append(queue, n)
  BY DEF AddJob, Still, graph
<1>4. WasFound(n)
  BY <1>1, TopIsOpen DEF WasFound, Found
<1> HIDE DEF n
<1>5. \A m \in Node : InQueue(m)' => InQueue(m) \/ m = n
  BY <1>1, <1>3 DEF InQueue, TypeOK
<1>6. CallsOK' /\ WorkOK'
  BY <1>2, <1>3, CallsKept, StillFacts DEF Wakes
<1>7. NoneIsLost'
  <2>1. ASSUME NEW m \in Node, Runnable(m)' PROVE m \in execQueued' \/ WillBeChecked(m)'
    <3>1. Runnable(m)
      BY <1>3, <2>1, StillFacts
    <3> QED BY <1>2, <1>3, <3>1, CheckKept DEF Wakes, NoneIsLost, n
  <2> QED BY <2>1 DEF NoneIsLost
<1>8. FoundStaysTrue'
  <2>1. \A i : Arriving(i) => Arriving(i)'
    BY <1>1, <1>2, ArrivingKept
  <2>2. \A m \in Node : Ready(m) => Ready(m)'
    BY <1>3, <2>1, StillFacts DEF Ready, Still, InputsOf
  <2> QED BY <1>2, <1>4, <1>5, <2>2, FoundKept
<1> QED BY <1>6, <1>7, <1>8 DEF Wakes

-----------------------------------------------------------------------------
(* Calls that note something on a node, and end in checkAddSched *)

\* A step that may give the node c.node something it lacked, and goes on as c.
LEMMA NoteWakesStep ==
    ASSUME WInv, NEW t \in Thread, calls[t] # <<>>, NEW c \in Frame, Become(t, c),
           CallOK(c), c.op \in Early \ Found,
           c.node = Top(t).node,
           UNCHANGED <<execQueued, queue, exec>>,
           \A n \in Node \ {c.node} : Runnable(n)' => Runnable(n),
           \A n \in Node : Ready(n) => Ready(n)'
    PROVE  Wakes'
<1> USE DEF WInv, IInv, Wakes
<1>1. Swaps(t, {c})
  BY SwapsBecome
<1>2. CallsOK'
  BY <1>1, CallsKept
<1>3. WorkOK'
  BY DEF WorkOK, InputsOf, OutputsOf
<1>4. NoneIsLost'
  <2>1. WillBeChecked(c.node)'
    BY <1>1 DEF Swaps, WillBeChecked
  <2>2. ASSUME NEW n \in Node \ {c.node}, Runnable(n)'
        PROVE  n \in execQueued' \/ WillBeChecked(n)'
    BY <1>1, <2>2, CheckKept DEF NoneIsLost
  <2> QED BY <2>1, <2>2 DEF NoneIsLost
<1>5. FoundStaysTrue'
  <2>1. \A n \in Node : InQueue(n)' => InQueue(n)
    BY DEF InQueue
  <2> QED BY <1>1, <2>1, FoundKept
<1> QED BY <1>2, <1>3, <1>4, <1>5

LEMMA DemandedWakes ==
    ASSUME WInv, NEW t \in Thread, SetNewOutputDemanded(t)
    PROVE  Wakes'
<1> USE DEF WInv, IInv
<1> DEFINE c == Check(Top(t).node, "AllNew")
<1>1. /\ calls[t] # <<>>
      /\ Top(t).op = "setNewOutputDemanded"
      /\ Top(t).node \in Node
  BY TopFrame DEF SetNewOutputDemanded, In, Top
<1>2. Top(t).outs \subseteq OutputsOf(Top(t).node)
  BY <1>1, TopIsOpen DEF Wakes, CallsOK, CallOK
<1>3. c \in Frame /\ CallOK(c) /\ c.op \in Early \ Found /\ c.node = Top(t).node
  BY <1>1, CheckFrame, NewCallFacts DEF Modes, Early, Found
<1> HIDE DEF c
<1>4. /\ Become(t, c)
      /\ demanded' = demanded \cup Top(t).outs
      /\ UNCHANGED <<target, status, allowQueue, execQueued, queue, exec>>
  BY DEF SetNewOutputDemanded, c, graph
<1>5. ASSUME NEW n \in Node \ {c.node}, Runnable(n)' PROVE Runnable(n)
  <2>1. demanded' \cap OutputsOf(n) = demanded \cap OutputsOf(n)
    BY <1>2, <1>3, <1>4, <1>5 DEF OutputsOf
  <2> QED BY <1>4, <1>5, <2>1 DEF Runnable, OutputDemanded, AllRequiredInputsAreNew, Valid,
                                  InputsOf, OutputsOf
<1>6. ASSUME NEW n \in Node, Ready(n) PROVE Ready(n)'
  <2>1. \A i : Arriving(i) => Arriving(i)'
    BY <1>1, <1>3, <1>4, SwapsBecome, ArrivingKept
  <2>2. OutputDemanded(n)'
    BY <1>4, <1>6 DEF Ready, OutputDemanded, OutputsOf
  <2> QED BY <1>4, <1>6, <2>1, <2>2 DEF Ready, InputsOf
<1> QED BY <1>1, <1>3, <1>4, <1>5, <1>6, NoteWakesStep

LEMMA SetAllowQueueWakes ==
    ASSUME WInv, NEW t \in Thread, SetAllowQueue(t)
    PROVE  Wakes'
<1> USE DEF WInv, IInv
<1> DEFINE d == [Top(t) EXCEPT !.op = "allowNode"]
<1>1. calls[t] # <<>> /\ Top(t).op = "setAllowQueue" /\ Top(t) \in Frame
  BY TopFrame DEF SetAllowQueue, In, Top
<1>2. Still /\ UNCHANGED <<execQueued, queue>> /\ Become(t, d)
  BY DEF SetAllowQueue, Still, graph, flags
<1>3. d \in Frame /\ d.op = "allowNode" /\ d.node = Top(t).node /\ d.mode = Top(t).mode
  BY <1>1 DEF Frame, Operations
<1> HIDE DEF d
<1>4. CallOK(d) /\ Swaps(t, {d})
  BY <1>1, <1>2, <1>3, GoesOn, SwapsBecome
<1>5. d.op \in Early \ Found
  BY <1>3 DEF Early, Found
<1> QED BY <1>1, <1>2, <1>3, <1>4, <1>5, CheckStep

LEMMA AllowWakes ==
    ASSUME WInv, NEW t \in Thread, AllowNode(t)
    PROVE  Wakes'
<1> USE DEF WInv, IInv
<1> DEFINE c == Check(Top(t).node, "AllNew")
<1>1. /\ calls[t] # <<>>
      /\ Top(t).op = "allowNode"
      /\ Top(t).node \in Node
  BY TopFrame DEF AllowNode, In, Top
<1>2. c \in Frame /\ CallOK(c) /\ c.op \in Early \ Found /\ c.node = Top(t).node
  BY <1>1, CheckFrame, NewCallFacts DEF Modes, Early, Found
<1> HIDE DEF c
<1>3. /\ Become(t, c)
      /\ allowQueue' = allowQueue \cup {c.node}
      /\ UNCHANGED <<target, status, demanded, execQueued, queue, exec>>
  BY <1>2 DEF AllowNode, c, graph
<1>4. ASSUME NEW n \in Node \ {c.node}, Runnable(n)' PROVE Runnable(n)
  BY <1>3, <1>4 DEF Runnable, OutputDemanded, AllRequiredInputsAreNew, Valid,
                    InputsOf, OutputsOf
<1>5. ASSUME NEW n \in Node, Ready(n) PROVE Ready(n)'
  <2>1. \A i : Arriving(i) => Arriving(i)'
    BY <1>1, <1>2, <1>3, SwapsBecome, ArrivingKept
  <2> QED BY <1>3, <1>5, <2>1 DEF Ready, InputsOf, OutputDemanded, OutputsOf
<1> QED BY <1>1, <1>2, <1>3, <1>4, <1>5, NoteWakesStep

\* An input that setInput makes old is about to be new again.
LEMMA InputWakes ==
    ASSUME WInv, NEW t \in Thread, SetInput(t) \/ SetNewInput(t)
    PROVE  Wakes'
<1> USE DEF WInv, IInv
<1> DEFINE c == IF In(t, "setInput") THEN [Top(t) EXCEPT !.op = "setNewInput"]
                                     ELSE Check(Top(t).node, "AllNew")
<1>1. /\ calls[t] # <<>>
      /\ Top(t) \in Frame
      /\ Top(t).op \in {"setInput", "setNewInput"}
      /\ Top(t).node \in Node
      /\ In(t, "setInput") <=> Top(t).op = "setInput"
      /\ SetInput(t) => Top(t).op = "setInput"
      /\ SetNewInput(t) => Top(t).op = "setNewInput"
  BY TopFrame DEF SetInput, SetNewInput, In, Top
<1>2. /\ Top(t).ins \subseteq InputsOf(Top(t).node)
      /\ CallOK(Top(t))
  BY <1>1, TopIsOpen DEF Wakes, CallsOK, CallOK
<1>3. /\ Become(t, c)
      /\ \A i \in Input \ Top(t).ins : target'[i] = target[i] /\ status'[i] = status[i]
      /\ \A i \in Input \cap Top(t).ins : status'[i] = "New" \/ SetInput(t)
      /\ UNCHANGED <<allowQueue, demanded, execQueued, queue, exec>>
  BY <1>1 DEF SetInput, SetNewInput, graph, flags
<1>4. c \in Frame /\ c.node = Top(t).node /\ c.op \in Early \ Found /\ CallOK(c)
  <2>1. CASE In(t, "setInput")
    BY <1>1, <1>2, <2>1 DEF CallOK, Frame, Operations, Early, Found
  <2>2. CASE ~In(t, "setInput")
    BY <1>1, <2>2, CheckFrame, NewCallFacts DEF Modes, Early, Found
  <2> QED BY <2>1, <2>2
<1>5. SetInput(t) => c.op = "setNewInput" /\ c.ins = Top(t).ins
  BY <1>1 DEF Frame
<1> HIDE DEF c
<1>6. ASSUME NEW n \in Node \ {c.node}, Runnable(n)' PROVE Runnable(n)
  <2>1. \A i \in InputsOf(n) : i \in Input \ Top(t).ins
    BY <1>2, <1>4 DEF InputsOf
  <2> QED BY <1>3, <1>6, <2>1 DEF Runnable, OutputDemanded, AllRequiredInputsAreNew, Valid,
                                  InputsOf, OutputsOf
<1>7. ASSUME NEW n \in Node, Ready(n) PROVE Ready(n)'
  <2>1. Swaps(t, {c})
    BY <1>1, <1>3, <1>4, SwapsBecome
  <2>2. ASSUME NEW i \in InputsOf(n) \cap MustBeNew PROVE status'[i] = "New" \/ Arriving(i)'
    <3>1. i \in Input /\ (status[i] = "New" \/ Arriving(i))
      BY <1>7 DEF Ready, InputsOf
    <3>2. CASE i \in Top(t).ins
      BY <1>3, <1>5, <2>1, <3>1, <3>2 DEF Arriving, Swaps
    <3>3. CASE i \notin Top(t).ins
      BY <1>3, <2>1, <3>1, <3>3 DEF Arriving, Swaps
    <3> QED BY <3>2, <3>3
  <2> QED BY <1>3, <1>7, <2>2 DEF Ready, InputsOf, OutputDemanded, OutputsOf
<1> QED BY <1>1, <1>3, <1>4, <1>6, <1>7, NoteWakesStep

-----------------------------------------------------------------------------
(* Steps of exec *)

\* What a worker takes from the node it runs nobody has found ready.
LEMMA WorkStepWakes ==
    ASSUME WInv, NEW w \in Worker, exec[w].at # "waitNextJob", calls[w] = <<>>,
           NEW C, Swaps(w, C), \A c \in C : CallOK(c) /\ c.op \notin Found,
           NEW r, exec' = [exec EXCEPT ![w] = r], r.node = exec[w].node,
           r.ins \subseteq InputsOf(exec[w].node), r.outs \subseteq OutputsOf(exec[w].node),
           UNCHANGED <<target, execQueued, queue>>,
           allowQueue' \subseteq allowQueue,
           demanded' \subseteq demanded,
           demanded \ demanded' \subseteq OutputsOf(exec[w].node),
           \A i \in Input : InputOf[i] # exec[w].node => status'[i] = status[i]
    PROVE  Wakes'
<1> USE DEF WInv, IInv, Wakes
<1> DEFINE n == exec[w].node
<1>1. n \in Node /\ w \in Thread /\ IsRunning(n)
  BY RunningWorker, ThreadFacts DEF IsRunning
<1>2. n \in execQueued
  BY <1>1 DEF ExecQueuedIsExact
<1>3. WorkOK'
  <2>1. exec'[w] = r /\ \A v \in Worker \ {w} : exec'[v] = exec[v]
    BY DEF TypeOK
  <2> QED BY <2>1 DEF WorkOK, InputsOf, OutputsOf
<1> HIDE DEF n
<1>4. ASSUME NEW m \in Node, m # n
      PROVE  /\ demanded' \cap OutputsOf(m) = demanded \cap OutputsOf(m)
             /\ \A i \in InputsOf(m) : status'[i] = status[i]
  BY <1>4 DEF OutputsOf, InputsOf, n
<1>5. ASSUME NEW m \in Node, Runnable(m)' PROVE Runnable(m) \/ m \in execQueued
  <2>1. CASE m = n
    BY <1>2, <2>1
  <2>2. CASE m # n
    <3>1. /\ demanded' \cap OutputsOf(m) = demanded \cap OutputsOf(m)
          /\ \A i \in InputsOf(m) : status'[i] = status[i]
      BY <1>4, <2>2
    <3> QED BY <1>5, <3>1 DEF Runnable, OutputDemanded, AllRequiredInputsAreNew, Valid,
                              InputsOf, OutputsOf
  <2> QED BY <2>1, <2>2
<1>6. ASSUME NEW m \in Node, ~IsRunning(m)
      PROVE  /\ OutputDemanded(m) => OutputDemanded(m)'
             /\ \A i \in InputsOf(m) : status[i] = "New" => status'[i] = "New"
  <2>1. m # n
    BY <1>1, <1>6
  <2> QED BY <1>4, <2>1 DEF OutputDemanded, OutputsOf
<1>7. \A m \in Node : InQueue(m)' => InQueue(m)
  BY DEF InQueue
<1>8. execQueued' = execQueued /\ (calls[w] = <<>> \/ Top(w).op \notin Early)
  OBVIOUS
<1> QED BY <1>1, <1>3, <1>5, <1>6, <1>7, <1>8, PassiveStep

LEMMA ParentFrameFacts ==
    ASSUME WInv, NEW w \in Worker, exec[w].at # "waitNextJob", calls[w] = <<>>,
           UNCHANGED calls \/ Enter(w, Call("demandNewParentInput", exec[w].node))
    PROVE  \E C : Swaps(w, C) /\ \A c \in C : CallOK(c) /\ c.op \notin Found
<1> USE DEF WInv, IInv
<1>1. w \in Thread /\ exec[w].node \in Node
  BY ThreadFacts, RunningWorker
<1>2. CASE UNCHANGED calls
  <2>1. Swaps(w, {})
    BY <1>1, <1>2, SwapsNone
  <2> QED BY <2>1
<1>3. CASE Enter(w, Call("demandNewParentInput", exec[w].node))
  <2> DEFINE c == Call("demandNewParentInput", exec[w].node)
  <2>1. c \in Frame
    BY <1>1, CallFrame DEF Operations
  <2>2. CallOK(c) /\ c.op \notin Found
    BY DEF CallOK, Call, Found
  <2> HIDE DEF c
  <2>3. Swaps(w, {c})
    BY <1>1, <1>3, <2>1, SwapsEnter DEF c
  <2> QED BY <2>2, <2>3
<1> QED BY <1>2, <1>3

LEMMA WorkWakes ==
    ASSUME WInv, NEW w \in Worker, WorkStep(w)
    PROVE  Wakes'
<1> USE DEF WInv, IInv
<1> DEFINE n == exec[w].node
<1>0. exec[w].at # "waitNextJob" /\ calls[w] = <<>>
  BY DEF WorkStep, LockInputs, UnlockInputs, ClearNewInput, TakeMessage, LockAllowQueue,
         ClearAllowQueue, ClearsNow, DoWork, LockOutputs, NotifyChildren, LockExecQueued,
         GetImage, BadInput, SetOutputValue, At
<1>1. /\ w \in Thread
      /\ exec[w] \in Running
      /\ n \in Node
      /\ exec[w].ins \subseteq InputsOf(n)
      /\ exec[w].outs \subseteq OutputsOf(n)
  BY <1>0, ThreadFacts, RunningWorker DEF Wakes, WorkOK
<1>2. CASE LockInputs(w)
  <2> DEFINE r == [exec[w] EXCEPT !.at = "gather", !.ins = InputsOf(n) \cap ImageInput]
  <2>1. exec' = [exec EXCEPT ![w] = r] /\ Swaps(w, {})
    BY <1>1, <1>2, SwapsNone DEF LockInputs
  <2>2. r.node = n /\ r.ins \subseteq InputsOf(n) /\ r.outs \subseteq OutputsOf(n)
    BY <1>1 DEF Running
  <2>3. UNCHANGED <<target, status, demanded, allowQueue, execQueued, queue>>
    BY <1>2 DEF LockInputs, graph, flags
  <2>4. /\ allowQueue' \subseteq allowQueue
        /\ demanded' \subseteq demanded
        /\ demanded \ demanded' \subseteq OutputsOf(n)
        /\ \A j \in Input : InputOf[j] # n => status'[j] = status[j]
    BY <2>3
  <2> DEFINE C == {}
  <2>5. Swaps(w, C) /\ \A c \in C : CallOK(c) /\ c.op \notin Found
    BY <2>1
  <2> HIDE DEF r, C
  <2> QED BY <1>0, <2>1, <2>2, <2>3, <2>4, <2>5, WorkStepWakes
<1>3. ASSUME NEW p \in Points, Goto(w, p),
             UNCHANGED <<target, execQueued, queue>>,
             allowQueue' \subseteq allowQueue,
             UNCHANGED demanded,
             \A i \in Input : InputOf[i] # n => status'[i] = status[i],
             NEW C, Swaps(w, C), \A c \in C : CallOK(c) /\ c.op \notin Found
      PROVE  Wakes'
  <2> DEFINE r == [exec[w] EXCEPT !.at = p]
  <2>1. exec' = [exec EXCEPT ![w] = r]
    BY <1>3 DEF Goto
  <2>2. r.node = n /\ r.ins \subseteq InputsOf(n) /\ r.outs \subseteq OutputsOf(n)
    BY <1>1 DEF Running
  <2> HIDE DEF r
  <2> QED BY <1>0, <1>3, <2>1, <2>2, WorkStepWakes
<1>4. CASE \/ UnlockInputs(w) \/ TakeMessage(w) \/ LockAllowQueue(w) \/ ClearAllowQueue(w)
           \/ LockOutputs(w) \/ LockExecQueued(w)
  <2> USE DEF UnlockInputs, TakeMessage, LockAllowQueue, ClearAllowQueue, LockOutputs,
              LockExecQueued
  <2>1. Swaps(w, {})
    BY <1>1, <1>4, SwapsNone
  <2>2. /\ UNCHANGED <<target, execQueued, queue, status, demanded>>
        /\ allowQueue' \subseteq allowQueue
    BY <1>4 DEF graph, flags
  <2>3. \E p \in Points : Goto(w, p)
    BY <1>4 DEF Points
  <2> QED BY <1>3, <2>1, <2>2, <2>3
<1>5. CASE ClearNewInput(w)
  <2>1. \A i \in Input : InputOf[i] # n => status'[i] = status[i]
    BY <1>5 DEF ClearNewInput
  <2>2. PICK C : Swaps(w, C) /\ \A c \in C : CallOK(c) /\ c.op \notin Found
    BY <1>0, <1>5, ParentFrameFacts DEF ClearNewInput
  <2>3. /\ UNCHANGED <<target, execQueued, queue, demanded, allowQueue>>
        /\ Goto(w, "doWork") /\ "doWork" \in Points
    BY <1>5 DEF ClearNewInput, graph, flags, Points
  <2> QED BY <1>3, <2>1, <2>2, <2>3
<1>6. CASE DoWork(w)
  <2>1. PICK made \in SUBSET OutputsOf(n) :
            exec' = [exec EXCEPT ![w].at = "lockOutputs", ![w].outs = made]
    BY <1>6 DEF DoWork
  <2> DEFINE r == [exec[w] EXCEPT !.at = "lockOutputs", !.outs = made]
  <2>2. exec' = [exec EXCEPT ![w] = r]
    BY <2>1
  <2>3. r.node = n /\ r.ins \subseteq InputsOf(n) /\ r.outs \subseteq OutputsOf(n)
    BY <1>1 DEF Running
  <2> HIDE DEF r
  <2>4. UNCHANGED calls \/ Enter(w, Call("demandNewParentInput", n))
    BY <1>6 DEF DoWork
  <2>5. PICK C : Swaps(w, C) /\ \A c \in C : CallOK(c) /\ c.op \notin Found
    BY <1>0, <2>4, ParentFrameFacts
  <2>6. /\ UNCHANGED <<target, execQueued, queue, demanded, status>>
        /\ allowQueue' \subseteq allowQueue
    BY <1>6 DEF DoWork, graph, flags
  <2> QED BY <1>0, <2>2, <2>3, <2>5, <2>6, WorkStepWakes
<1>7. CASE NotifyChildren(w)
  <2> DEFINE c == [Call("notifyEach", n) EXCEPT !.ins = exec[w].kids]
  <2>1. c \in Frame /\ c.op = "notifyEach" /\ c.mode = "AllNew"
    BY <1>0, <1>1, RunningWorker DEF Call, Frame, Operations, Modes
  <2>2. Enter(w, c) /\ Goto(w, "finish") /\ "finish" \in Points
    BY <1>7 DEF NotifyChildren, Points
  <2>3. UNCHANGED <<target, execQueued, queue, status, demanded, allowQueue>>
    BY <1>7 DEF NotifyChildren, graph, flags
  <2> HIDE DEF c
  <2>4. Swaps(w, {c}) /\ CallOK(c) /\ c.op \notin Found
    BY <1>0, <1>1, <2>1, <2>2, SwapsEnter DEF CallOK, Found
  <2>5. \A d \in {c} : CallOK(d) /\ d.op \notin Found
    BY <2>4
  <2> QED BY <1>3, <2>2, <2>3, <2>4, <2>5
<1>8. ASSUME NEW i \in Input, GetImage(w, i) PROVE Wakes'
  <2> DEFINE r == [exec[w] EXCEPT !.ins = @ \ {i}]
  <2>1. exec' = [exec EXCEPT ![w] = r] /\ Swaps(w, {})
    BY <1>1, <1>8, SwapsNone DEF GetImage
  <2>2. r.node = n /\ r.ins \subseteq InputsOf(n) /\ r.outs \subseteq OutputsOf(n)
    BY <1>1 DEF Running
  <2>3. UNCHANGED <<target, status, demanded, allowQueue, execQueued, queue>>
    BY <1>8 DEF GetImage, graph, flags
  <2>4. /\ allowQueue' \subseteq allowQueue
        /\ demanded' \subseteq demanded
        /\ demanded \ demanded' \subseteq OutputsOf(n)
        /\ \A j \in Input : InputOf[j] # n => status'[j] = status[j]
    BY <2>3
  <2> DEFINE C == {}
  <2>5. Swaps(w, C) /\ \A c \in C : CallOK(c) /\ c.op \notin Found
    BY <2>1
  <2> HIDE DEF r, C
  <2> QED BY <1>0, <2>1, <2>2, <2>3, <2>4, <2>5, WorkStepWakes
<1>9. ASSUME NEW i \in Input, BadInput(w, i) PROVE Wakes'
  <2>1. /\ i \in InputsOf(n)
        /\ status' = [status EXCEPT ![i] = "Invalid"]
        /\ UNCHANGED <<target, execQueued, queue, demanded, allowQueue>>
        /\ Goto(w, "badInput") /\ "badInput" \in Points
    BY <1>1, <1>9 DEF BadInput, graph, flags, Points
  <2>2. \A j \in Input : InputOf[j] # n => status'[j] = status[j]
    BY <2>1 DEF InputsOf, TypeOK
  <2>3. CASE UNCHANGED calls
    <3>1. Swaps(w, {})
      BY <1>1, <2>3, SwapsNone
    <3> QED BY <1>3, <2>1, <2>2, <3>1
  <2>4. CASE target[i] # NoOutput /\ Enter(w, Demand(target[i]))
    <3> DEFINE c == Demand(target[i])
    <3>1. target[i] \in Output
      BY <2>4 DEF TypeOK
    <3>2. c \in Frame /\ CallOK(c) /\ c.op \notin Found
      BY <3>1, DemandFrame, DemandFacts
    <3> HIDE DEF c
    <3>3. Swaps(w, {c})
      BY <1>0, <1>1, <2>4, <3>2, SwapsEnter DEF c
    <3>4. \A d \in {c} : CallOK(d) /\ d.op \notin Found
      BY <3>2
    <3> QED BY <1>3, <2>1, <2>2, <3>3, <3>4
  <2> QED BY <1>9, <2>3, <2>4 DEF BadInput
<1>10. ASSUME NEW o \in Output, SetOutputValue(w, o) PROVE Wakes'
  <2> DEFINE r == [exec[w] EXCEPT !.outs = @ \ {o}, !.kids = @ \cup links[o]]
  <2>1. exec' = [exec EXCEPT ![w] = r] /\ Swaps(w, {})
    BY <1>1, <1>10, SwapsNone DEF SetOutputValue
  <2>2. r.node = n /\ r.ins \subseteq InputsOf(n) /\ r.outs \subseteq OutputsOf(n)
    BY <1>1 DEF Running
  <2>3. /\ UNCHANGED <<target, status, allowQueue, execQueued, queue>>
        /\ demanded' = demanded \ {o}
        /\ o \in OutputsOf(n)
    BY <1>1, <1>10 DEF SetOutputValue, graph
  <2>4. /\ allowQueue' \subseteq allowQueue
        /\ demanded' \subseteq demanded
        /\ demanded \ demanded' \subseteq OutputsOf(n)
        /\ \A j \in Input : InputOf[j] # n => status'[j] = status[j]
    BY <2>3
  <2> DEFINE C == {}
  <2>5. Swaps(w, C) /\ \A c \in C : CallOK(c) /\ c.op \notin Found
    BY <2>1
  <2> HIDE DEF r, C
  <2> QED BY <1>0, <2>1, <2>2, <2>3, <2>4, <2>5, WorkStepWakes
<1> QED BY <1>2, <1>4, <1>5, <1>6, <1>7, <1>8, <1>9, <1>10 DEF WorkStep

LEMMA WaitNextJobWakes ==
    ASSUME WInv, NEW w \in Worker, WaitNextJob(w)
    PROVE  Wakes'
<1> USE DEF WInv, IInv
<1> DEFINE r == [Idle EXCEPT !.at = "lockInputs", !.node = Head(queue)]
<1>1. w \in Thread /\ Swaps(w, {}) /\ calls[w] = <<>>
  BY ThreadFacts, SwapsNone DEF WaitNextJob, At
<1>2. /\ exec' = [exec EXCEPT ![w] = r]
      /\ queue # <<>> /\ queue' = Tail(queue)
      /\ UNCHANGED <<target, status, demanded, allowQueue, execQueued>>
  BY DEF WaitNextJob, graph, flags
<1>3. r.ins = {} /\ r.outs = {}
  BY DEF Idle
<1> HIDE DEF r
<1>4. WorkOK'
  <2>1. exec'[w] = r /\ \A v \in Worker \ {w} : exec'[v] = exec[v]
    BY <1>2 DEF TypeOK
  <2> QED BY <1>3, <2>1 DEF Wakes, WorkOK, InputsOf, OutputsOf
<1>5. \A n \in Node : InQueue(n)' => InQueue(n)
  <2>1. \A k \in DOMAIN queue' : k + 1 \in DOMAIN queue /\ queue'[k] = queue[k + 1]
    BY <1>2, TailFacts DEF TypeOK
  <2> QED BY <2>1 DEF InQueue
<1>6. \A n \in Node : Runnable(n)' => Runnable(n)
  BY <1>2 DEF Runnable, OutputDemanded, AllRequiredInputsAreNew, Valid, InputsOf, OutputsOf
<1>7. \A n \in Node : ~IsRunning(n) =>
          /\ OutputDemanded(n) => OutputDemanded(n)'
          /\ \A i \in InputsOf(n) : status[i] = "New" => status'[i] = "New"
  BY <1>2 DEF OutputDemanded, OutputsOf
<1>8. \A c \in {} : CallOK(c) /\ c.op \notin Found
  OBVIOUS
<1> QED BY <1>1, <1>2, <1>4, <1>5, <1>6, <1>7, <1>8, PassiveStep

LEMMA ClearExecQueuedWakes ==
    ASSUME WInv, NEW w \in Worker, ClearExecQueued(w)
    PROVE  Wakes'
<1> USE DEF WInv, IInv
<1> DEFINE n == exec[w].node
           c == Check(n, "AllNew")
<1>1. w \in Thread /\ n \in Node /\ calls[w] = <<>>
  BY ThreadFacts, RunningWorker DEF ClearExecQueued, At
<1>2. c \in Frame /\ CallOK(c) /\ c.node = n /\ c.op \in Early \ Found
  BY <1>1, CheckFrame, NewCallFacts DEF Modes, Early, Found
<1> HIDE DEF c
<1>3. /\ Enter(w, c)
      /\ execQueued' = execQueued \ {n}
      /\ exec' = [exec EXCEPT ![w] = Idle]
      /\ UNCHANGED <<target, status, demanded, allowQueue, queue>>
  BY DEF ClearExecQueued, c, graph
<1>4. Swaps(w, {c})
  BY <1>1, <1>2, <1>3, SwapsEnter
<1>5. CallsOK'
  BY <1>1, <1>2, <1>4, CallsKept DEF Wakes
<1>6. WorkOK'
  <2>1. exec'[w] = Idle /\ \A v \in Worker \ {w} : exec'[v] = exec[v]
    BY <1>3 DEF TypeOK
  <2>2. Idle.ins = {} /\ Idle.outs = {}
    BY DEF Idle
  <2> QED BY <2>1, <2>2 DEF Wakes, WorkOK, InputsOf, OutputsOf
<1>7. NoneIsLost'
  <2>1. ASSUME NEW m, m = n PROVE WillBeChecked(m)'
    BY <1>2, <1>4, <2>1 DEF Swaps, WillBeChecked
  <2>2. ASSUME NEW m \in Node, m # n, Runnable(m)' PROVE m \in execQueued' \/ WillBeChecked(m)'
    <3>1. Runnable(m)
      BY <1>3, <2>2 DEF Runnable, OutputDemanded, AllRequiredInputsAreNew, Valid,
                        InputsOf, OutputsOf
    <3> QED BY <1>1, <1>3, <1>4, <2>2, <3>1, CheckKept DEF Wakes, NoneIsLost
  <2> QED BY <2>1, <2>2 DEF NoneIsLost
<1>8. FoundStaysTrue'
  <2>1. \A m \in Node : InQueue(m)' => InQueue(m)
    BY <1>3 DEF InQueue
  <2>2. \A i : Arriving(i) => Arriving(i)'
    BY <1>1, <1>4, ArrivingKept
  <2>3. \A m \in Node : Ready(m) => Ready(m)'
    BY <1>3, <2>2 DEF Ready, InputsOf, OutputDemanded, OutputsOf
  <2> QED BY <1>1, <1>2, <1>4, <2>1, <2>3, FoundKept
<1> QED BY <1>5, <1>6, <1>7, <1>8 DEF Wakes

-----------------------------------------------------------------------------
(* The theorems *)

LEMMA InitWakes == Init => WInv
<1> SUFFICES ASSUME Init PROVE WInv
  OBVIOUS
<1>1. IInv
  BY InitInvariant
<1>2. Open = {}
  BY DEF Init, Open, CallsIn
<1>3. CallsOK /\ ~\E n : WasFound(n)
  BY <1>2 DEF CallsOK, WasFound
<1>4. WorkOK
  BY DEF Init, WorkOK, Idle
<1>5. ASSUME NEW n \in Node PROVE ~Runnable(n)
  <2>1. \A i \in Input : target[i] = NoOutput
    BY DEF Init
  <2>2. demanded = {}
    BY DEF Init
  <2> QED BY <2>1, <2>2 DEF Runnable, OutputDemanded, InputsOf
<1>6. NoneIsLost
  BY <1>5 DEF NoneIsLost
<1>7. FoundStaysTrue
  BY <1>3 DEF Init, FoundStaysTrue, InQueue
<1> QED BY <1>1, <1>3, <1>4, <1>6, <1>7 DEF WInv, Wakes

LEMMA NextWakes == WInv /\ [Next]_vars => WInv'
<1> SUFFICES ASSUME WInv, [Next]_vars PROVE WInv'
  OBVIOUS
<1>1. IInv'
  BY NextInvariant DEF WInv
<1>2. CASE UNCHANGED vars
  <2>1. Swaps(Mailbox, {}) /\ Still /\ UNCHANGED <<execQueued, queue, calls>>
    BY <1>2, ThreadFacts, SwapsNone DEF vars, Still
  <2>2. Open' = Open
    BY <2>1 DEF Open
  <2>3. CallsOK' /\ NoneIsLost'
    BY <2>1, <2>2, StillFacts
       DEF WInv, Wakes, CallsOK, CallOK, InputsOf, OutputsOf, NoneIsLost, WillBeChecked
  <2>4. FoundStaysTrue'
    BY <2>1, <2>2, StillFacts
       DEF WInv, Wakes, FoundStaysTrue, WasFound, Ready, Arriving, InQueue, Still, InputsOf
  <2> QED BY <1>1, <2>1, <2>3, <2>4, StillFacts DEF WInv, Wakes
<1>3. ASSUME NEW t \in Thread, CallStep(t) PROVE Wakes'
  BY <1>3, CheckAddSchedWakes, ConditionsWakes, EnsureValidInputWakes,
     SetExecQueuedWakes, AddJobWakes, LoopWakes, DemandNewParentInputWakes, DemandedWakes,
     SetAllowQueueWakes, AllowWakes, InputWakes, LinkWakes
     DEF CallStep, LinkStep
<1>4. ASSUME NEW w \in Worker, ExecStep(w) PROVE Wakes'
  BY <1>4, WaitNextJobWakes, ClearExecQueuedWakes, WorkWakes DEF ExecStep, WorkStep
<1>5. ASSUME StartStep PROVE Wakes'
  BY <1>5, StartWakes
<1>6. CASE Next
  <2>1. Wakes'
    BY <1>3, <1>4, <1>5, <1>6 DEF Next, Build, Disturb, StartStep
  <2> QED BY <1>1, <2>1 DEF WInv
<1> QED BY <1>2, <1>6

\* The invariant of this module holds in every reachable state.
THEOREM WakesInvariance == Spec => []WInv
<1>1. Init => WInv
  BY InitWakes
<1>2. WInv /\ [Next]_vars => WInv'
  BY NextWakes
<1> QED BY <1>1, <1>2, PTL DEF Spec

\* A node that could be queued is, or a call is under way that will check it,
\* whatever the graph and the order in which threads demand, feed, link, allow
\* and finish (Node::checkAddSched, and the calls that end in it).
THEOREM NoWakeUpIsLost == Spec => []ReadyIsQueued
<1>1. WInv => ReadyIsQueued
  <2> SUFFICES ASSUME WInv, NEW n \in Node, Runnable(n), n \notin execQueued
               PROVE  \E t \in Thread : \E k \in DOMAIN calls[t] :
                        /\ calls[t][k].node = n
                        /\ calls[t][k].op \in Checking \cup
                             {"checkAddSched", "setInput", "setNewInput",
                              "setNewOutputDemanded", "setAllowQueue", "allowNode"}
    BY DEF ReadyIsQueued
  <2>1. PICK c \in Open : c.node = n /\ c.op \in Early
    BY DEF WInv, Wakes, NoneIsLost, WillBeChecked
  <2>2. PICK t \in Thread : \E k \in DOMAIN calls[t] : calls[t][k] = c
    BY DEF Open, CallsIn
  <2> QED BY <2>1, <2>2 DEF Early, Checking
<1> QED BY <1>1, WakesInvariance, PTL

\* While a node is on the queue, what checkAddSched found stays true: its output
\* is demanded, and its required inputs are new or about to be, but for a node that
\* a ForceExec message may have put there.
THEOREM QueuedNodesStayReady == Spec => []QueuedStaysReady
<1>1. WInv => QueuedStaysReady
  <2> SUFFICES ASSUME WInv, NEW n \in Node \ Forced, InQueue(n)
               PROVE  /\ OutputDemanded(n)
                      /\ \A i \in InputsOf(n) \cap MustBeNew : status[i] = "New" \/ WillBeNew(i)
    BY DEF QueuedStaysReady
  <2>1. Ready(n)
    BY DEF WInv, Wakes, FoundStaysTrue
  <2>2. \A i : Arriving(i) => WillBeNew(i)
    BY DEF Arriving, Open, CallsIn, WillBeNew
  <2> QED BY <2>1, <2>2 DEF Ready
<1> QED BY <1>1, WakesInvariance, PTL

-----------------------------------------------------------------------------
(* Locks *)

\* Calls that are made with a m_checking_sched_lock or a m_inputs_lock held.
Climbing == Checking \cup {"checkAddSched", "setNewOutputDemanded"}
Linking == {"setInput", "setOutput", "linkOutput"}
LinkingOutput == {"setOutput", "linkOutput"}
Clearing == {"clearOutput", "clearInput"}
Allowing == {"setAllowQueue", "allowNode"}

Wired == {i \in Input : Wire[i] # NoOutput}
Parent(i) == OutputOf[Wire[i]]

\* above[n] holds the parents of node n, and what is above them, and n is not
\* among them; there is such a function whenever the pipeline has no cycle.
Ordered(above) ==
    /\ \A i \in Wired : Parent(i) \in above[InputOf[i]]
    /\ \A n \in Node : \A m \in above[n] : above[m] \subseteq above[n]
    /\ \A K \in SUBSET Node : K # {} => \E n \in K : above[n] \cap K = {}
Upward(above, n) == {n} \cup above[n]

\* No parent of a node can also be reached by way of another of its inputs.
NoShortcut(above) ==
    \A i, j \in Wired :
        i # j /\ InputOf[i] = InputOf[j] => Parent(i) \notin Upward(above, Parent(j))

\* Whoever holds a checking lock has made calls only to nodes above.  Outputs are
\* linked by a handler's first call.
Climbs(above, s) ==
    \A k \in DOMAIN s :
        /\ s[k].op \in LinkingOutput => k = 1
        /\ s[k].op \in Checking =>
            \A j \in DOMAIN s : j < k =>
                s[j].op \in Climbing /\ s[j].node \in above[s[k].node]

LinksFirst(c) ==
    \E i \in Wired : c.ins = {i} /\ c.node = Parent(i) /\ target[i] = NoOutput
FrameOK(t, c) ==
    /\ c.op \in Linking \cup Clearing => t = Mailbox
    /\ c.op \in LinkingOutput => LinksFirst(c)
    /\ c.op = "clearInput" => c.ins \subseteq InputsOf(c.node)
    /\ c.op \in Allowing => c.node \in MessageNode
    /\ c.op = "refuse" => c.outs \subseteq {Wire[i] : i \in InputsOf(c.node) \cap Wired}

\* What an exec that has met a bad input may climb to.
Reach(above, n) ==
    UNION {Upward(above, OutputOf[target[i]]) : i \in {j \in InputsOf(n) : target[j] # NoOutput}}

WorkerClimbs(above, w) ==
    /\ exec[w].at \in {"gather", "setOutputs", "clearAllowQueue", "clearExecQueued"} =>
            calls[w] = <<>>
    /\ exec[w].at \in {"messageTaken", "clearAllowQueue"} => exec[w].node \in MessageNode
    /\ exec[w].at = "badInput" =>
        \A c \in CallsIn(calls[w]) : c.op \in Climbing /\ c.node \in Reach(above, exec[w].node)

ThreadOK(above, t) ==
    /\ Climbs(above, calls[t])
    /\ \A c \in CallsIn(calls[t]) : FrameOK(t, c)
    /\ t \in Worker => WorkerClimbs(above, t)

TargetsWired == \A i \in Input : target[i] \in {Wire[i], NoOutput}
AllClimb(above) == \A t \in Thread : ThreadOK(above, t)
LInv(above) == WInv /\ TargetsWired /\ AllClimb(above)

-----------------------------------------------------------------------------
(* Stacks that climb *)

LEMMA ClimbOne ==
    ASSUME NEW above, NEW c \in Frame
    PROVE  Climbs(above, <<c>> \o <<>>) /\ CallsIn(<<c>> \o <<>>) = {c}
  BY DEF Climbs, CallsIn

LEMMA ClimbTwo ==
    ASSUME NEW above, NEW c \in Frame, NEW d \in Frame,
           d.op \notin Checking, d.op \notin LinkingOutput
    PROVE  Climbs(above, <<c, d>>) /\ CallsIn(<<c, d>>) = {c, d}
<1> DEFINE r == <<c, d>>
<1>1. DOMAIN r = {1, 2} /\ r[1] = c /\ r[2] = d
  OBVIOUS
<1> HIDE DEF r
<1>2. Climbs(above, r)
  BY <1>1 DEF Climbs
<1>3. CallsIn(r) = {c, d}
  BY <1>1 DEF CallsIn
<1> QED BY <1>2, <1>3 DEF r

LEMMA ClimbTail ==
    ASSUME NEW above, NEW s \in Seq(Frame), s # <<>>, Climbs(above, s)
    PROVE  /\ Climbs(above, Tail(s))
           /\ \A c \in CallsIn(Tail(s)) : c.op \notin LinkingOutput
           /\ \A c \in CallsIn(Tail(s)) : c.op \in Checking =>
                Head(s).op \in Climbing /\ Head(s).node \in above[c.node]
<1>1. /\ 1 \in DOMAIN s
      /\ Head(s) = s[1]
      /\ DOMAIN Tail(s) \subseteq Int
      /\ \A k \in DOMAIN Tail(s) : k + 1 \in DOMAIN s /\ k + 1 # 1 /\ 1 < k + 1 /\ Tail(s)[k] = s[k + 1]
  BY TailFacts
<1>2. ASSUME NEW k \in DOMAIN Tail(s)
      PROVE  /\ Tail(s)[k].op \notin LinkingOutput
             /\ Tail(s)[k].op \in Checking =>
                /\ Head(s).op \in Climbing /\ Head(s).node \in above[Tail(s)[k].node]
                /\ \A j \in DOMAIN Tail(s) : j < k =>
                    Tail(s)[j].op \in Climbing /\ Tail(s)[j].node \in above[Tail(s)[k].node]
  <2>1. \A j \in DOMAIN Tail(s) : j < k => j + 1 < k + 1
    BY <1>1
  <2> QED BY <1>1, <2>1 DEF Climbs
<1>3. Climbs(above, Tail(s))
  BY <1>2 DEF Climbs
<1> QED BY <1>2, <1>3 DEF CallsIn

\* A frame on top of a stack.
LEMMA ClimbPush ==
    ASSUME NEW above, NEW s \in Seq(Frame), NEW c \in Frame, Climbs(above, s),
           \A d \in CallsIn(s) : d.op \notin LinkingOutput,
           \A d \in CallsIn(s) : d.op \in Checking => c.op \in Climbing /\ c.node \in above[d.node]
    PROVE  Climbs(above, <<c>> \o s)
<1> DEFINE r == <<c>> \o s
<1>1. /\ r[1] = c
      /\ DOMAIN r \subseteq Int
      /\ \A k \in DOMAIN r : k # 1 => k > 1 /\ k - 1 \in DOMAIN s /\ r[k] = s[k - 1]
  BY PushFacts
<1> HIDE DEF r
<1> SUFFICES ASSUME NEW k \in DOMAIN r, r[k].op \in LinkingOutput \cup Checking
             PROVE  /\ r[k].op \in LinkingOutput => k = 1
                    /\ r[k].op \in Checking => \A j \in DOMAIN r : j < k =>
                            r[j].op \in Climbing /\ r[j].node \in above[r[k].node]
  BY DEF Climbs, r
<1>2. CASE k = 1
  BY <1>1, <1>2
<1>3. CASE k # 1
  <2>1. k - 1 \in DOMAIN s /\ r[k] = s[k - 1]
    BY <1>1, <1>3
  <2>2. r[k].op \notin LinkingOutput
    BY <2>1 DEF CallsIn
  <2>3. ASSUME NEW j \in DOMAIN r, j < k, r[k].op \in Checking
        PROVE  r[j].op \in Climbing /\ r[j].node \in above[r[k].node]
    <3>1. CASE j = 1
      BY <1>1, <2>1, <2>3, <3>1 DEF CallsIn
    <3>2. CASE j # 1
      <4>1. j - 1 \in DOMAIN s /\ r[j] = s[j - 1] /\ j - 1 < k - 1
        BY <1>1, <2>3, <3>2
      <4> QED BY <2>1, <2>3, <4>1 DEF Climbs
    <3> QED BY <3>1, <3>2
  <2> QED BY <2>2, <2>3
<1> QED BY <1>2, <1>3

\* The innermost call goes on as c, at the same node.
LEMMA ClimbBecome ==
    ASSUME NEW above, NEW s \in Seq(Frame), s # <<>>, Climbs(above, s), NEW c \in Frame,
           c.node = Head(s).node, Head(s).op \in Climbing => c.op \in Climbing
    PROVE  /\ Climbs(above, <<c>> \o Tail(s))
           /\ CallsIn(<<c>> \o Tail(s)) = CallsIn(Tail(s)) \cup {c}
<1>1. Tail(s) \in Seq(Frame)
  BY TailFacts
<1>2. CallsIn(<<c>> \o Tail(s)) = CallsIn(Tail(s)) \cup {c}
  BY <1>1, CallsInFacts
<1>3. Climbs(above, <<c>> \o Tail(s))
  BY <1>1, ClimbTail, ClimbPush
<1> QED BY <1>2, <1>3

\* A loop makes a call c, and goes on as d.
LEMMA ClimbLoop ==
    ASSUME NEW above, Ordered(above), NEW s \in Seq(Frame), s # <<>>, Climbs(above, s),
           NEW c \in Frame, NEW d \in Frame, d.op \notin LinkingOutput,
           d.node = Head(s).node, d.op = Head(s).op,
           d.op \in Climbing => c.op \in Climbing /\ c.node \in above[d.node]
    PROVE  /\ Climbs(above, <<c, d>> \o Tail(s))
           /\ CallsIn(<<c, d>> \o Tail(s)) = CallsIn(Tail(s)) \cup {c, d}
<1> DEFINE q == Tail(s)
           r == <<d>> \o q
<1>1. q \in Seq(Frame)
  BY TailFacts
<1>2. /\ Climbs(above, r)
      /\ CallsIn(r) = CallsIn(q) \cup {d}
  BY ClimbBecome
<1>3. r \in Seq(Frame)
  BY <1>1, PushFacts
<1>4. CallsIn(q) \subseteq Frame
  BY <1>1, CallsInFacts
<1>5. /\ \A e \in CallsIn(q) : e.op \notin LinkingOutput
      /\ \A e \in CallsIn(q) : e.op \in Checking => d.op \in Climbing /\ d.node \in above[e.node]
  BY ClimbTail
<1>6. <<c, d>> \o q = <<c>> \o r
  <2> DEFINE x == <<c, d>> \o q
             z == <<c>> \o r
  <2>1. /\ x \in Seq(Frame) /\ z \in Seq(Frame)
        /\ DOMAIN x = 1 .. Len(q) + 2 /\ DOMAIN z = 1 .. Len(q) + 2
    BY <1>1, <1>3
  <2>2. \A k \in 1 .. Len(q) + 2 : x[k] = z[k]
    BY <1>1
  <2>3. x = [k \in DOMAIN x |-> x[k]] /\ z = [k \in DOMAIN z |-> z[k]]
    BY <2>1
  <2> HIDE DEF x, z
  <2>4. x = z
    BY <2>1, <2>2, <2>3
  <2> QED BY <2>4 DEF x, z
<1> HIDE DEF q, r
<1>7. \A e \in CallsIn(r) : e.op \notin LinkingOutput
  BY <1>2, <1>5
<1>8. ASSUME NEW e \in CallsIn(r), e.op \in Checking
      PROVE  c.op \in Climbing /\ c.node \in above[e.node]
  <2>1. CASE e = d
    BY <1>8, <2>1 DEF Climbing
  <2>2. CASE e \in CallsIn(q)
    <3>1. e.node \in Node
      BY <1>4, <2>2 DEF Frame
    <3>2. c.op \in Climbing /\ c.node \in above[d.node] /\ d.node \in above[e.node]
      BY <1>5, <1>8, <2>2
    <3> QED BY <3>1, <3>2 DEF Ordered
  <2> QED BY <1>2, <2>1, <2>2
<1>9. Climbs(above, <<c>> \o r)
  BY <1>2, <1>3, <1>7, <1>8, ClimbPush
<1>10. CallsIn(<<c, d>> \o q) = CallsIn(q) \cup {c, d}
  BY <1>1, CallsInFacts
<1> QED BY <1>6, <1>9, <1>10 DEF q

-----------------------------------------------------------------------------
(* What keeps threads climbing *)

\* The outermost call of thread t links nothing but by setInput, and unlinks no
\* input of a node whose m_inputs_lock is held.
Relinks(t) ==
    /\ \A i \in Input : target'[i] \in {target[i], NoOutput} \/ Top(t).op = "setInput"
    /\ \A w \in Worker : exec[w].at = "badInput" =>
        \A i \in InputsOf(exec[w].node) : target'[i] = target[i]

LEMMA LockFacts ==
    ASSUME NEW above, LInv(above), NEW t \in Thread
    PROVE  /\ TypeOK
           /\ calls[t] \in Seq(Frame)
           /\ CallsIn(calls[t]) \subseteq Frame
           /\ ThreadOK(above, t)
           /\ calls[t] # <<>> => Top(t) \in CallsIn(calls[t])
<1>1. TypeOK /\ ThreadOK(above, t)
  BY DEF LInv, WInv, IInv, AllClimb
<1>2. calls[t] \in Seq(Frame)
  BY <1>1 DEF TypeOK
<1>3. CallsIn(calls[t]) \subseteq Frame
  BY <1>2, CallsInFacts
<1>4. calls[t] # <<>> => Top(t) \in CallsIn(calls[t])
  BY <1>1, TopFrame DEF CallsIn
<1> QED BY <1>1, <1>2, <1>3, <1>4

LEMMA ReachFacts ==
    ASSUME TypeOK, NEW above, Ordered(above), NEW n, NEW m \in Reach(above, n)
    PROVE  Upward(above, m) \subseteq Reach(above, n)
<1>1. PICK i \in InputsOf(n) : target[i] # NoOutput /\ m \in Upward(above, OutputOf[target[i]])
  BY DEF Reach
<1>2. OutputOf[target[i]] \in Node
  BY <1>1, WiringAssumption DEF TypeOK, InputsOf
<1>3. Upward(above, m) \subseteq Upward(above, OutputOf[target[i]])
  BY <1>1, <1>2 DEF Upward, Ordered
<1> QED BY <1>1, <1>3 DEF Reach

LEMMA FrameStays ==
    ASSUME NEW t, NEW c, FrameOK(t, c),
           c.op \in LinkingOutput => \A i \in Input : target'[i] \in {target[i], NoOutput}
    PROVE  FrameOK(t, c)'
<1>1. LinksFirst(c) /\ c.op \in LinkingOutput => LinksFirst(c)'
  BY DEF LinksFirst, Wired, Parent
<1> QED BY <1>1 DEF FrameOK, InputsOf, Wired

LEMMA WorkerStays ==
    ASSUME NEW above, NEW w \in Worker, WorkerClimbs(above, w), UNCHANGED <<calls[w], exec[w]>>,
           exec[w].at = "badInput" =>
                \A i \in InputsOf(exec[w].node) : target'[i] = target[i]
    PROVE  WorkerClimbs(above, w)'
<1>1. ASSUME exec[w].at = "badInput" PROVE Reach(above, exec[w].node)' = Reach(above, exec[w].node)
  <2>1. InputsOf(exec[w].node)' = InputsOf(exec[w].node)
    BY DEF InputsOf
  <2> QED BY <1>1, <2>1 DEF Reach, Upward
<1>2. CallsIn(calls[w])' = CallsIn(calls[w])
  BY DEF CallsIn
<1> QED BY <1>1, <1>2 DEF WorkerClimbs

\* The threads that do not take a step.
LEMMA OtherClimbs ==
    ASSUME NEW above, LInv(above), NEW t \in Thread,
           UNCHANGED target \/ (calls[t] # <<>> /\ Relinks(t)),
           NEW u \in Thread \ {t}, UNCHANGED calls[u], u \in Worker => UNCHANGED exec[u]
    PROVE  ThreadOK(above, u)'
<1>1. /\ ThreadOK(above, u)
      /\ calls[t] # <<>> => FrameOK(t, Top(t))
  BY LockFacts DEF ThreadOK
<1>2. Climbs(above, calls[u])'
  BY <1>1 DEF ThreadOK, Climbs
<1>3. ASSUME NEW c \in CallsIn(calls[u]) PROVE FrameOK(u, c)'
  <2>1. FrameOK(u, c)
    BY <1>1 DEF ThreadOK
  <2>2. c.op \in LinkingOutput /\ calls[t] # <<>> => Top(t).op # "setInput"
    BY <1>1, <2>1 DEF FrameOK, Linking, Clearing, Allowing, LinkingOutput
  <2>3. c.op \in LinkingOutput => \A i \in Input : target'[i] \in {target[i], NoOutput}
    BY <2>2 DEF Relinks
  <2> QED BY <2>1, <2>3, FrameStays
<1>4. \A c \in CallsIn(calls[u])' : FrameOK(u, c)'
  BY <1>3 DEF CallsIn
<1>5. u \in Worker => WorkerClimbs(above, u)'
  BY <1>1, WorkerStays DEF ThreadOK, Relinks
<1> QED BY <1>2, <1>4, <1>5 DEF ThreadOK

\* A step inside of a call: the innermost call is replaced by the calls C.
LEMMA StackClimbs ==
    ASSUME NEW above, Ordered(above), LInv(above), NEW t \in Thread, calls[t] # <<>>,
           Relinks(t), UNCHANGED exec,
           NEW r, calls' = [calls EXCEPT ![t] = r], Climbs(above, r),
           NEW C, CallsIn(r) \subseteq CallsIn(Tail(calls[t])) \cup C,
           \A c \in C : FrameOK(t, c)',
           \A c \in C : Top(t).op \in Climbing =>
                c.op \in Climbing /\ c.node \in Upward(above, Top(t).node)
    PROVE  AllClimb(above)'
<1>1. /\ TypeOK
      /\ calls[t] \in Seq(Frame)
      /\ ThreadOK(above, t)
      /\ Top(t) \in CallsIn(calls[t])
      /\ CallsIn(calls[t]) = CallsIn(Tail(calls[t])) \cup {Top(t)}
  BY LockFacts, CallsInFacts DEF Top
<1>2. calls'[t] = r /\ \A u \in Thread \ {t} : calls'[u] = calls[u]
  BY <1>1 DEF TypeOK
<1>3. \A u \in Thread \ {t} : ThreadOK(above, u)'
  BY <1>2, OtherClimbs
<1>4. ASSUME NEW c \in CallsIn(Tail(calls[t])) PROVE FrameOK(t, c)'
  <2>1. FrameOK(t, c)
    BY <1>1 DEF ThreadOK
  <2>2. c.op \notin LinkingOutput
    BY <1>1, ClimbTail DEF ThreadOK
  <2> QED BY <2>1, <2>2, FrameStays
<1>5. ASSUME t \in Worker PROVE WorkerClimbs(above, t)'
  <2>1. WorkerClimbs(above, t)
    BY <1>1, <1>5 DEF ThreadOK
  <2>2. /\ exec[t].at \notin {"gather", "setOutputs", "clearAllowQueue", "clearExecQueued"}
        /\ exec[t].at = "messageTaken" => exec[t].node \in MessageNode
    BY <2>1 DEF WorkerClimbs
  <2>3. ASSUME exec[t].at = "badInput", NEW c \in CallsIn(r)
        PROVE  c.op \in Climbing /\ c.node \in Reach(above, exec[t].node)
    <3>1. \A e \in CallsIn(calls[t]) : e.op \in Climbing /\ e.node \in Reach(above, exec[t].node)
      BY <2>1, <2>3 DEF WorkerClimbs
    <3>2. CASE c \in CallsIn(Tail(calls[t]))
      BY <1>1, <3>1, <3>2
    <3>3. CASE c \in C
      <4>1. Upward(above, Top(t).node) \subseteq Reach(above, exec[t].node)
        BY <1>1, <3>1, ReachFacts
      <4> QED BY <1>1, <3>1, <3>3, <4>1
    <3> QED BY <3>2, <3>3
  <2>4. ASSUME exec[t].at = "badInput"
        PROVE  Reach(above, exec[t].node)' = Reach(above, exec[t].node)
    <3>1. \A i \in InputsOf(exec[t].node) : target'[i] = target[i]
      BY <1>5, <2>4 DEF Relinks
    <3>2. InputsOf(exec[t].node)' = InputsOf(exec[t].node)
      BY DEF InputsOf
    <3> QED BY <3>1, <3>2 DEF Reach, Upward
  <2>5. CallsIn(calls[t])' = CallsIn(r)
    BY <1>2 DEF CallsIn
  <2> QED BY <2>2, <2>3, <2>4, <2>5 DEF WorkerClimbs
<1>6. ThreadOK(above, t)'
  <2>1. \A c \in CallsIn(calls'[t]) : FrameOK(t, c)'
    BY <1>2, <1>4
  <2>2. Climbs(above, calls'[t])
    BY <1>2
  <2>3. /\ CallsIn(calls[t])' = CallsIn(calls'[t])
        /\ Climbs(above, calls[t])' = Climbs(above, calls'[t])
    BY DEF CallsIn, Climbs
  <2> QED BY <1>5, <2>1, <2>2, <2>3 DEF ThreadOK
<1> QED BY <1>3, <1>6 DEF AllClimb

LEMMA ReturnClimbs ==
    ASSUME NEW above, Ordered(above), LInv(above), NEW t \in Thread, calls[t] # <<>>,
           Return(t), Relinks(t), UNCHANGED exec
    PROVE  AllClimb(above)'
<1>1. calls[t] \in Seq(Frame) /\ Climbs(above, calls[t])
  BY LockFacts DEF ThreadOK
<1> DEFINE r == Tail(calls[t])
           C == {}
<1>2. Climbs(above, r) /\ calls' = [calls EXCEPT ![t] = r]
  BY <1>1, ClimbTail DEF Return
<1>3. CallsIn(r) \subseteq CallsIn(Tail(calls[t])) \cup C
  OBVIOUS
<1>4. /\ \A c \in C : FrameOK(t, c)'
      /\ \A c \in C : Top(t).op \in Climbing =>
            c.op \in Climbing /\ c.node \in Upward(above, Top(t).node)
  OBVIOUS
<1> HIDE DEF r, C
<1> QED BY <1>2, <1>3, <1>4, StackClimbs

LEMMA BecomeClimbs ==
    ASSUME NEW above, Ordered(above), LInv(above), NEW t \in Thread, calls[t] # <<>>,
           NEW c \in Frame, Become(t, c), Relinks(t), UNCHANGED exec,
           c.node = Top(t).node, Top(t).op \in Climbing => c.op \in Climbing,
           FrameOK(t, c), c.op \in LinkingOutput => UNCHANGED target
    PROVE  AllClimb(above)'
<1>1. calls[t] \in Seq(Frame) /\ Climbs(above, calls[t])
  BY LockFacts DEF ThreadOK
<1> DEFINE r == <<c>> \o Tail(calls[t])
           C == {c}
<1>2. /\ Climbs(above, r)
      /\ CallsIn(r) = CallsIn(Tail(calls[t])) \cup {c}
      /\ calls' = [calls EXCEPT ![t] = r]
  BY <1>1, ClimbBecome DEF Become, Top
<1>3. CallsIn(r) \subseteq CallsIn(Tail(calls[t])) \cup C
  BY <1>2
<1>4. \A d \in C : FrameOK(t, d)'
  BY FrameStays
<1>5. \A d \in C : Top(t).op \in Climbing =>
            d.op \in Climbing /\ d.node \in Upward(above, Top(t).node)
  BY DEF Upward
<1> HIDE DEF r, C
<1> QED BY <1>2, <1>3, <1>4, <1>5, StackClimbs

LEMMA LoopClimbs ==
    ASSUME NEW above, Ordered(above), LInv(above), NEW t \in Thread, calls[t] # <<>>,
           NEW c \in Frame, NEW d \in Frame,
           calls' = [calls EXCEPT ![t] = <<c, d>> \o Tail(@)],
           Relinks(t), UNCHANGED exec,
           d.node = Top(t).node, d.op = Top(t).op, d.op \notin LinkingOutput,
           d.op \in Climbing => c.op \in Climbing /\ c.node \in above[d.node],
           FrameOK(t, c), FrameOK(t, d), c.op \notin LinkingOutput
    PROVE  AllClimb(above)'
<1>1. calls[t] \in Seq(Frame) /\ Climbs(above, calls[t])
  BY LockFacts DEF ThreadOK
<1> DEFINE r == <<c, d>> \o Tail(calls[t])
           C == {c, d}
<1>2. /\ Climbs(above, r)
      /\ CallsIn(r) = CallsIn(Tail(calls[t])) \cup {c, d}
      /\ calls' = [calls EXCEPT ![t] = r]
  BY <1>1, ClimbLoop DEF Top
<1>3. CallsIn(r) \subseteq CallsIn(Tail(calls[t])) \cup C
  BY <1>2
<1>4. \A e \in C : FrameOK(t, e)'
  BY FrameStays
<1>5. \A e \in C : Top(t).op \in Climbing =>
            e.op \in Climbing /\ e.node \in Upward(above, Top(t).node)
  BY DEF Upward
<1> HIDE DEF r, C
<1> QED BY <1>2, <1>3, <1>4, <1>5, StackClimbs

\* A thread that is in no call makes one, and no worker moves.
LEMMA EnterClimbs ==
    ASSUME NEW above, LInv(above), NEW t \in Thread \ Worker, UNCHANGED <<target, exec>>,
           NEW r, calls' = [calls EXCEPT ![t] = r], Climbs(above, r),
           \A c \in CallsIn(r) : FrameOK(t, c)
    PROVE  AllClimb(above)'
<1>1. TypeOK
  BY LockFacts
<1>2. calls'[t] = r /\ \A u \in Thread \ {t} : calls'[u] = calls[u]
  BY <1>1 DEF TypeOK
<1>3. \A u \in Thread \ {t} : ThreadOK(above, u)'
  BY <1>2, OtherClimbs
<1>4. \A c \in CallsIn(calls'[t]) : FrameOK(t, c)'
  BY <1>2, FrameStays
<1>5. /\ CallsIn(calls[t])' = CallsIn(calls'[t])
      /\ Climbs(above, calls[t])' = Climbs(above, calls'[t])
  BY DEF CallsIn, Climbs
<1>6. ThreadOK(above, t)'
  BY <1>2, <1>4, <1>5 DEF ThreadOK
<1> QED BY <1>3, <1>6 DEF AllClimb

\* A worker that is in no call goes on, and may make one.
LEMMA WorkerGoesUp ==
    ASSUME NEW above, LInv(above), NEW w \in Worker, calls[w] = <<>>, UNCHANGED target,
           \A u \in Worker \ {w} : exec'[u] = exec[u],
           exec'[w].at \in {"messageTaken", "clearAllowQueue"} => exec'[w].node \in MessageNode,
           \/ UNCHANGED calls
           \/ \E c \in Frame :
                /\ Enter(w, c)
                /\ FrameOK(w, c)
                /\ exec'[w].at \notin {"gather", "setOutputs", "clearAllowQueue",
                                       "clearExecQueued"}
                /\ exec'[w].at = "badInput" =>
                    c.op \in Climbing /\ c.node \in Reach(above, exec'[w].node)
    PROVE  AllClimb(above)'
<1>1. TypeOK /\ w \in Thread
  BY ThreadFacts, LockFacts
<1>2. \A u \in Thread \ {w} : calls'[u] = calls[u]
  BY <1>1 DEF TypeOK, Enter
<1>3. \A u \in Thread \ {w} : ThreadOK(above, u)'
  BY <1>1, <1>2, OtherClimbs
<1>4. /\ CallsIn(calls[w])' = CallsIn(calls'[w])
      /\ Climbs(above, calls[w])' = Climbs(above, calls'[w])
      /\ Reach(above, exec[w].node)' = Reach(above, exec'[w].node)
  <2>1. \A n : InputsOf(n)' = InputsOf(n)
    BY DEF InputsOf
  <2> QED BY <2>1 DEF CallsIn, Climbs, Reach, Upward, InputsOf
<1>5. CASE UNCHANGED calls
  <2>1. calls'[w] = <<>>
    BY <1>5
  <2>2. CallsIn(calls'[w]) = {} /\ Climbs(above, calls'[w])
    BY <2>1 DEF CallsIn, Climbs
  <2>3. ThreadOK(above, w)'
    BY <1>4, <2>1, <2>2 DEF ThreadOK, WorkerClimbs
  <2> QED BY <1>3, <2>3 DEF AllClimb
<1>6. ASSUME NEW c \in Frame, Enter(w, c), FrameOK(w, c),
             exec'[w].at \notin {"gather", "setOutputs", "clearAllowQueue", "clearExecQueued"},
             exec'[w].at = "badInput" =>
                c.op \in Climbing /\ c.node \in Reach(above, exec'[w].node)
      PROVE  AllClimb(above)'
  <2>1. calls'[w] = <<c>> \o <<>>
    BY <1>1, <1>6 DEF TypeOK, Enter
  <2>2. CallsIn(calls'[w]) = {c} /\ Climbs(above, calls'[w])
    BY <2>1, ClimbOne
  <2>3. FrameOK(w, c)'
    BY <1>6, FrameStays
  <2>4. WorkerClimbs(above, w)'
    BY <1>4, <1>6, <2>2 DEF WorkerClimbs
  <2>5. ThreadOK(above, w)'
    BY <1>4, <2>2, <2>3, <2>4 DEF ThreadOK
  <2> QED BY <1>3, <2>5 DEF AllClimb
<1> QED BY <1>5, <1>6

-----------------------------------------------------------------------------
(* Every step keeps threads climbing *)

\* Calls of which the invariant asks nothing.
LEMMA PlainFrame ==
    ASSUME NEW t, NEW c, c.op \notin Linking \cup Clearing \cup Allowing \cup {"refuse"}
    PROVE  FrameOK(t, c)
  BY DEF FrameOK, Linking, Clearing, Allowing, LinkingOutput

LEMMA SameTargets ==
    ASSUME NEW t, UNCHANGED target
    PROVE  Relinks(t)
  BY DEF Relinks

LEMMA DecidingClimbs ==
    ASSUME NEW above, Ordered(above), LInv(above), NEW t \in Thread,
           \/ CheckAddSched(t) \/ Conditions(t) \/ EnsureValidInput(t) \/ SetExecQueued(t)
           \/ AddJob(t)
    PROVE  AllClimb(above)'
<1> DEFINE c == Top(t)
           d(f) == [c EXCEPT !.op = f]
<1>1. /\ TypeOK
      /\ calls[t] # <<>>
      /\ c.op \in {"checkAddSched", "conditions", "ensureValidInput", "setExecQueued", "addJob"}
      /\ c \in Frame
      /\ Relinks(t)
      /\ UNCHANGED exec
  BY LockFacts, TopFrame, SameTargets
     DEF CheckAddSched, Conditions, EnsureValidInput, SetExecQueued, AddJob, In, Top, graph
<1>2. CASE Return(t)
  BY <1>1, <1>2, ReturnClimbs
<1>3. ASSUME NEW f \in {"conditions", "ensureValidInput", "setExecQueued", "addJob"}, Become(t, d(f))
      PROVE  AllClimb(above)'
  <2>1. d(f) \in Frame /\ d(f).op = f /\ d(f).node = c.node
    BY <1>1 DEF Frame, Operations
  <2>2. d(f).op \in Climbing /\ d(f).op \notin Linking \cup Clearing \cup Allowing \cup {"refuse"}
        /\ d(f).op \notin LinkingOutput
    BY <2>1 DEF Climbing, Checking, Linking, Clearing, Allowing, LinkingOutput
  <2> HIDE DEF d
  <2>3. FrameOK(t, d(f))
    BY <2>2, PlainFrame
  <2> QED BY <1>1, <1>3, <2>1, <2>2, <2>3, BecomeClimbs
<1>4. ASSUME EnsureValidInput(t), ~Return(t), ~Become(t, d("setExecQueued"))
      PROVE  AllClimb(above)'
  <2> DEFINE invalid == {i \in InputsOf(c.node) \ Optional : ~Valid(i)}
             parents == {target[i] : i \in invalid} \ {NoOutput}
             r == [c EXCEPT !.op = "refuse", !.outs = parents]
  <2>1. Become(t, r)
    BY <1>4 DEF EnsureValidInput
  <2>2. {target[i] : i \in invalid} \ {NoOutput} \subseteq {Wire[i] : i \in InputsOf(c.node) \cap Wired}
    BY DEF LInv, TargetsWired, Wired, InputsOf
  <2>3. {target[i] : i \in invalid} \ {NoOutput} \subseteq Output
    BY <1>1 DEF TypeOK, InputsOf
  <2>4. /\ r \in Frame
        /\ r.op = "refuse"
        /\ r.node = c.node
        /\ r.outs = parents
    <3>1. parents \subseteq Output /\ "refuse" \in Operations
      BY <2>3 DEF Operations
    <3> HIDE DEF parents
    <3> QED BY <1>1, <3>1 DEF Frame
  <2> HIDE DEF r
  <2>5. FrameOK(t, r) /\ r.op \in Climbing /\ r.op \notin LinkingOutput
    BY <2>2, <2>4 DEF FrameOK, Linking, Clearing, Allowing, LinkingOutput, Climbing, Checking
  <2> QED BY <1>1, <2>1, <2>4, <2>5, BecomeClimbs
<1>5. \/ Return(t)
      \/ \E f \in {"conditions", "ensureValidInput", "setExecQueued", "addJob"} : Become(t, d(f))
      \/ EnsureValidInput(t) /\ ~Return(t) /\ ~Become(t, d("setExecQueued"))
  BY DEF CheckAddSched, Conditions, EnsureValidInput, SetExecQueued, AddJob
<1> QED BY <1>2, <1>3, <1>4, <1>5

LEMMA NotingClimbs ==
    ASSUME NEW above, Ordered(above), LInv(above), NEW t \in Thread,
           \/ SetNewOutputDemanded(t) \/ SetNewInput(t) \/ SetAllowQueue(t) \/ AllowNode(t)
           \/ DemandNewParentInput(t)
    PROVE  AllClimb(above)'
<1> DEFINE n == Top(t).node
<1>1. /\ TypeOK
      /\ calls[t] # <<>>
      /\ Top(t).op \in {"setNewOutputDemanded", "setNewInput", "setAllowQueue", "allowNode",
                        "demandNewParentInput"}
      /\ n \in Node
      /\ Relinks(t)
      /\ UNCHANGED <<exec, target>>
  BY LockFacts, TopFrame, SameTargets
     DEF SetNewOutputDemanded, SetNewInput, SetAllowQueue, AllowNode, DemandNewParentInput, In,
         Top, graph
<1>2. CASE Become(t, Check(n, "AllNew"))
  <2>1. Check(n, "AllNew") \in Frame /\ Check(n, "AllNew").node = n
    BY <1>1, CheckFrame DEF Modes
  <2>2. Check(n, "AllNew").op = "checkAddSched"
    BY DEF Check, Call
  <2> DEFINE d == Check(n, "AllNew")
  <2> HIDE DEF d
  <2>3. FrameOK(t, d) /\ d.op \in Climbing
    BY <2>2, PlainFrame DEF d, Linking, Clearing, Allowing, Climbing
  <2>4. d \in Frame /\ d.node = Top(t).node /\ Become(t, d)
    BY <1>2, <2>1 DEF d
  <2> QED BY <1>1, <2>3, <2>4, BecomeClimbs
<1>3. CASE DemandNewParentInput(t)
  <2> DEFINE d == [Call("demandEach", n) EXCEPT
                     !.outs = {target[i] : i \in InputsOf(n)} \ {NoOutput}]
  <2>1. {target[i] : i \in InputsOf(n)} \ {NoOutput} \subseteq Output
    BY <1>1 DEF TypeOK, InputsOf
  <2>2. d \in Frame /\ d.op = "demandEach" /\ d.node = n
    BY <1>1, <2>1 DEF Call, Frame, Operations, Modes
  <2>3. Become(t, d) /\ Top(t).op \notin Climbing
    BY <1>3 DEF DemandNewParentInput, In, Top, Climbing, Checking
  <2> HIDE DEF d
  <2>4. FrameOK(t, d)
    BY <2>2, PlainFrame DEF Linking, Clearing, Allowing
  <2> QED BY <1>1, <2>2, <2>3, <2>4, BecomeClimbs
<1>4. CASE SetAllowQueue(t)
  <2> DEFINE d == [Top(t) EXCEPT !.op = "allowNode"]
  <2>1. Become(t, d) /\ Top(t).op = "setAllowQueue"
    BY <1>4 DEF SetAllowQueue, In, Top
  <2>2. Top(t) \in Frame /\ FrameOK(t, Top(t))
    BY <1>1, LockFacts DEF ThreadOK
  <2>3. d \in Frame /\ d.op = "allowNode" /\ d.node = n
    BY <2>2 DEF Frame, Operations
  <2> HIDE DEF d
  <2>4. FrameOK(t, d)
    BY <2>1, <2>2, <2>3 DEF FrameOK, Linking, Clearing, Allowing, LinkingOutput
  <2>5. Top(t).op \notin Climbing /\ d.op \notin LinkingOutput
    BY <2>1, <2>3 DEF Climbing, Checking, LinkingOutput
  <2> QED BY <1>1, <2>1, <2>3, <2>4, <2>5, BecomeClimbs
<1> QED BY <1>2, <1>3, <1>4 DEF SetNewOutputDemanded, SetNewInput, AllowNode

LEMMA EachClimbs ==
    ASSUME NEW above, Ordered(above), LInv(above), NEW t \in Thread,
           DemandEach(t) \/ NotifyEach(t)
    PROVE  AllClimb(above)'
<1> DEFINE c == Top(t)
<1>1. /\ TypeOK
      /\ calls[t] # <<>>
      /\ c.op \in {"demandEach", "refuse", "notifyEach"}
      /\ c \in Frame
      /\ c.outs \subseteq Output
      /\ c.ins \subseteq Input
      /\ Relinks(t)
      /\ UNCHANGED <<exec, target>>
      /\ FrameOK(t, c)
  BY LockFacts, TopFrame, SameTargets DEF DemandEach, NotifyEach, In, Top, graph, ThreadOK
<1>2. CASE Return(t)
  BY <1>1, <1>2, ReturnClimbs
<1>3. ASSUME NEW o \in c.outs, c.op \in {"demandEach", "refuse"},
             calls' = [calls EXCEPT ![t] = <<Demand(o), [c EXCEPT !.outs = @ \ {o}]>> \o Tail(@)]
      PROVE  AllClimb(above)'
  <2> DEFINE d == [c EXCEPT !.outs = @ \ {o}]
  <2>1. d \in Frame /\ d.op = c.op /\ d.node = c.node /\ d.outs \subseteq c.outs
    BY <1>1 DEF Frame
  <2>2. Demand(o) \in Frame /\ Demand(o).op = "setNewOutputDemanded" /\ Demand(o).node = OutputOf[o]
    BY <1>1, DemandFrame DEF Demand, Call
  <2> DEFINE e == Demand(o)
  <2>3. calls' = [calls EXCEPT ![t] = <<e, d>> \o Tail(@)]
    BY <1>3
  <2>4. e \in Frame /\ e.op = "setNewOutputDemanded" /\ e.node = OutputOf[o]
    BY <2>2
  <2> HIDE DEF d, e
  <2>5. FrameOK(t, e) /\ e.op \notin LinkingOutput /\ e.op \in Climbing
    BY <2>4, PlainFrame DEF Linking, Clearing, Allowing, LinkingOutput, Climbing
  <2>6. FrameOK(t, d) /\ d.op \notin LinkingOutput
    BY <1>1, <2>1 DEF FrameOK, Linking, Clearing, Allowing, LinkingOutput
  <2>7. ASSUME d.op \in Climbing PROVE e.node \in above[d.node]
    <3>1. c.op = "refuse"
      BY <1>1, <2>1, <2>7 DEF Climbing, Checking
    <3>2. PICK i \in InputsOf(c.node) \cap Wired : o = Wire[i]
      BY <1>1, <1>3, <3>1 DEF FrameOK
    <3> QED BY <2>1, <2>4, <3>2 DEF Ordered, Parent, InputsOf
  <2> QED BY <1>1, <2>1, <2>3, <2>4, <2>5, <2>6, <2>7, LoopClimbs
<1>4. ASSUME NEW i \in c.ins, c.op = "notifyEach",
             calls' = [calls EXCEPT ![t] = <<NewInput(i), [c EXCEPT !.ins = @ \ {i}]>> \o Tail(@)]
      PROVE  AllClimb(above)'
  <2> DEFINE d == [c EXCEPT !.ins = @ \ {i}]
             e == NewInput(i)
  <2>1. d \in Frame /\ d.op = c.op /\ d.node = c.node
    BY <1>1 DEF Frame
  <2>2. e \in Frame /\ e.op = "setNewInput"
    BY <1>1, NewInputFrame DEF NewInput, Call
  <2>3. calls' = [calls EXCEPT ![t] = <<e, d>> \o Tail(@)]
    BY <1>4
  <2> HIDE DEF d, e
  <2>4. FrameOK(t, e) /\ FrameOK(t, d)
    BY <1>4, <2>1, <2>2, PlainFrame DEF Linking, Clearing, Allowing
  <2>5. e.op \notin LinkingOutput /\ d.op \notin LinkingOutput /\ d.op \notin Climbing
    BY <1>4, <2>1, <2>2 DEF LinkingOutput, Climbing, Checking
  <2> QED BY <1>1, <2>1, <2>2, <2>3, <2>4, <2>5, LoopClimbs
<1>5. \/ Return(t)
      \/ \E o \in c.outs : /\ c.op \in {"demandEach", "refuse"}
                           /\ calls' = [calls EXCEPT ![t] =
                                <<Demand(o), [c EXCEPT !.outs = @ \ {o}]>> \o Tail(@)]
      \/ \E i \in c.ins : /\ c.op = "notifyEach"
                          /\ calls' = [calls EXCEPT ![t] =
                                <<NewInput(i), [c EXCEPT !.ins = @ \ {i}]>> \o Tail(@)]
  BY DEF DemandEach, NotifyEach, In, Top
<1> QED BY <1>2, <1>3, <1>4, <1>5

\* Where exec has met a bad input, no other call that is not checkAddSched's
\* gets at the inputs.
LEMMA BadInputIsLocked ==
    ASSUME NEW above, LInv(above), NEW t \in Thread, calls[t] # <<>>, Top(t).op \notin Climbing,
           NEW w \in Worker, exec[w].at = "badInput"
    PROVE  InputsLocked(t, exec[w].node)
<1>1. w \in Thread
  BY ThreadFacts
<1>2. w # t
  BY LockFacts DEF ThreadOK, WorkerClimbs
<1> QED BY <1>1, <1>2 DEF InputsLocked, HoldsInputs

LEMMA LinkingClimbs ==
    ASSUME NEW above, Ordered(above), LInv(above), NEW t \in Thread,
           SetOutput(t) \/ LinkOutput(t) \/ SetInput(t)
    PROVE  AllClimb(above)'
<1> DEFINE c == Top(t)
<1>1. /\ TypeOK
      /\ calls[t] # <<>>
      /\ c.op \in Linking
      /\ c \in Frame
      /\ c \in Open
      /\ UNCHANGED exec
      /\ FrameOK(t, c)
      /\ c.op \notin Climbing
  BY LockFacts, TopFrame, TopIsOpen
     DEF SetOutput, LinkOutput, SetInput, In, Top, graph, ThreadOK, Linking, Clearing, Climbing, Checking
<1>2. CASE SetOutput(t)
  <2> DEFINE d == [c EXCEPT !.op = "linkOutput"]
  <2>1. Become(t, d) /\ UNCHANGED target /\ c.op = "setOutput"
    BY <1>2 DEF SetOutput, graph, In, Top
  <2>2. d \in Frame /\ d.op = "linkOutput" /\ d.node = c.node /\ d.ins = c.ins
    BY <1>1 DEF Frame, Operations
  <2> HIDE DEF d
  <2>3. FrameOK(t, d)
    BY <1>1, <2>1, <2>2 DEF FrameOK, LinksFirst, Linking, Clearing, Allowing, LinkingOutput
  <2> QED BY <1>1, <2>1, <2>2, <2>3, SameTargets, BecomeClimbs
<1>3. CASE LinkOutput(t)
  <2>1. Return(t) /\ UNCHANGED target
    BY <1>3 DEF LinkOutput
  <2> QED BY <1>1, <2>1, SameTargets, ReturnClimbs
<1>4. CASE SetInput(t)
  <2> DEFINE d == [c EXCEPT !.op = "setNewInput"]
  <2>1. /\ Become(t, d)
        /\ c.op = "setInput"
        /\ ~InputsLocked(t, c.node)
        /\ \A i \in Input \ c.ins : target'[i] = target[i]
    BY <1>1, <1>4 DEF SetInput, In, Top, TypeOK
  <2>2. c.ins \subseteq InputsOf(c.node)
    BY <1>1, <2>1 DEF LInv, WInv, Wakes, CallsOK, CallOK
  <2>3. Relinks(t)
    <3>1. ASSUME NEW w \in Worker, exec[w].at = "badInput", NEW i \in InputsOf(exec[w].node)
          PROVE  target'[i] = target[i]
      BY <1>1, <2>1, <2>2, <3>1, BadInputIsLocked DEF InputsOf
    <3> QED BY <2>1, <3>1 DEF Relinks
  <2>4. d \in Frame /\ d.op = "setNewInput" /\ d.node = c.node
    BY <1>1 DEF Frame, Operations
  <2> HIDE DEF d
  <2>5. FrameOK(t, d) /\ d.op \notin LinkingOutput
    BY <2>4, PlainFrame DEF Linking, Clearing, Allowing, LinkingOutput
  <2> QED BY <1>1, <2>1, <2>3, <2>4, <2>5, BecomeClimbs
<1> QED BY <1>2, <1>3, <1>4

LEMMA UnlinkingClimbs ==
    ASSUME NEW above, Ordered(above), LInv(above), NEW t \in Thread,
           \/ ClearOutput(t) \/ ClearInput(t) \/ UnlinkParents(t) \/ UnlinkChildren(t)
           \/ ClearOutputs(t) \/ ClearInputs(t) \/ MessageHandled(t)
    PROVE  AllClimb(above)'
<1> DEFINE c == Top(t)
           plain == {"unlinkParents", "unlinkChildren", "clearOutputs", "clearInputs"}
<1>1. /\ TypeOK
      /\ calls[t] # <<>>
      /\ c.op \in plain \cup {"clearOutput", "clearInput", "onMessage"}
      /\ c \in Frame
      /\ UNCHANGED exec
      /\ FrameOK(t, c)
      /\ c.op \notin Climbing
  BY LockFacts, TopFrame
     DEF ClearOutput, ClearInput, UnlinkParents, UnlinkChildren, ClearOutputs, ClearInputs,
         MessageHandled, In, Top, ThreadOK, Climbing, Checking
<1>2. \A w \in Worker : exec[w].at = "badInput" => InputsLocked(t, exec[w].node)
  BY <1>1, BadInputIsLocked
<1>3. Relinks(t)
  <2>1. CASE UNCHANGED target
    BY <2>1, SameTargets
  <2>2. CASE ClearInput(t)
    <3>1. /\ ~InputsLocked(t, c.node)
          /\ c.ins \subseteq InputsOf(c.node)
          /\ target' = [i \in Input |-> IF i \in c.ins THEN NoOutput ELSE target[i]]
      BY <1>1, <2>2 DEF ClearInput, FrameOK, In, Top
    <3> QED BY <1>2, <3>1 DEF Relinks, InputsOf
  <2>3. CASE ClearInputs(t)
    <3>1. /\ ~InputsLocked(t, c.node)
          /\ target' = [i \in Input |-> IF InputOf[i] = c.node THEN NoOutput ELSE target[i]]
      BY <2>3 DEF ClearInputs, Top
    <3> QED BY <1>2, <3>1 DEF Relinks, InputsOf
  <2>4. ASSUME NEW i \in c.ins, ~InputsLocked(t, InputOf[i]),
               target' = [j \in Input |-> IF InputOf[j] = InputOf[i] /\ target[j] \in OutputsOf(c.node)
                                          THEN NoOutput ELSE target[j]]
        PROVE  Relinks(t)
    BY <1>2, <2>4 DEF Relinks, InputsOf
  <2> QED BY <2>1, <2>2, <2>3, <2>4
     DEF ClearOutput, UnlinkParents, UnlinkChildren, ClearOutputs, MessageHandled, graph
<1>4. CASE Return(t)
  BY <1>1, <1>3, <1>4, ReturnClimbs
<1>5. ASSUME NEW d \in Frame, Become(t, d), d.node = c.node, d.op \in plain
      PROVE  AllClimb(above)'
  <2>1. FrameOK(t, d) /\ d.op \notin LinkingOutput
    BY <1>5, PlainFrame DEF Linking, Clearing, Allowing, LinkingOutput
  <2> QED BY <1>1, <1>3, <1>5, <2>1, BecomeClimbs
<1>6. ASSUME NEW f \in plain, Become(t, [c EXCEPT !.op = f])
      PROVE  AllClimb(above)'
  <2> DEFINE d == [c EXCEPT !.op = f]
  <2>1. d \in Frame /\ d.node = c.node /\ d.op = f
    BY <1>1 DEF Frame, Operations
  <2>2. Become(t, d)
    BY <1>6
  <2> HIDE DEF d
  <2> QED BY <1>5, <2>1, <2>2
<1>7. ASSUME NEW S, c.op \in plain, Become(t, [c EXCEPT !.outs = @ \ S])
      PROVE  AllClimb(above)'
  <2> DEFINE d == [c EXCEPT !.outs = @ \ S]
  <2>1. d \in Frame /\ d.node = c.node /\ d.op = c.op
    BY <1>1 DEF Frame
  <2>2. Become(t, d)
    BY <1>7
  <2> HIDE DEF d
  <2> QED BY <1>5, <1>7, <2>1, <2>2
<1>8. ASSUME NEW S, c.op \in plain, Become(t, [c EXCEPT !.ins = @ \ S])
      PROVE  AllClimb(above)'
  <2> DEFINE d == [c EXCEPT !.ins = @ \ S]
  <2>1. d \in Frame /\ d.node = c.node /\ d.op = c.op
    BY <1>1 DEF Frame
  <2>2. Become(t, d)
    BY <1>8
  <2> HIDE DEF d
  <2> QED BY <1>5, <1>8, <2>1, <2>2
<1>9. CASE ClearOutput(t) \/ ClearInput(t) \/ ClearInputs(t) \/ MessageHandled(t)
  BY <1>4, <1>9 DEF ClearOutput, ClearInput, ClearInputs, MessageHandled
<1>10. CASE UnlinkParents(t)
  <2>1. c.op \in plain
    BY <1>10 DEF UnlinkParents, In, Top
  <2>2. \/ Become(t, [c EXCEPT !.op = "unlinkChildren"])
        \/ \E o \in c.outs : Become(t, [c EXCEPT !.outs = @ \ OutputsOf(OutputOf[o])])
    BY <1>10 DEF UnlinkParents
  <2>3. ASSUME NEW o \in c.outs, Become(t, [c EXCEPT !.outs = @ \ OutputsOf(OutputOf[o])])
        PROVE  AllClimb(above)'
    <3> DEFINE S == OutputsOf(OutputOf[o])
    <3>1. Become(t, [c EXCEPT !.outs = @ \ S])
      BY <2>3
    <3> HIDE DEF S
    <3> QED BY <1>7, <2>1, <3>1
  <2> QED BY <1>6, <2>2, <2>3
<1>11. CASE UnlinkChildren(t)
  <2>1. c.op \in plain
    BY <1>11 DEF UnlinkChildren, In, Top
  <2>2. \/ Become(t, [c EXCEPT !.op = "clearOutputs"])
        \/ \E i \in c.ins : Become(t, [c EXCEPT !.ins = @ \ InputsOf(InputOf[i])])
    BY <1>11 DEF UnlinkChildren
  <2>3. ASSUME NEW i \in c.ins, Become(t, [c EXCEPT !.ins = @ \ InputsOf(InputOf[i])])
        PROVE  AllClimb(above)'
    <3> DEFINE S == InputsOf(InputOf[i])
    <3>1. Become(t, [c EXCEPT !.ins = @ \ S])
      BY <2>3
    <3> HIDE DEF S
    <3> QED BY <1>8, <2>1, <3>1
  <2> QED BY <1>6, <2>2, <2>3
<1>12. CASE ClearOutputs(t)
  BY <1>6, <1>12 DEF ClearOutputs
<1> QED BY <1>9, <1>10, <1>11, <1>12

\* The mailbox thread is given a message, or a timer goes off.
LEMMA StartClimbs ==
    ASSUME NEW above, LInv(above), ParentsFirst = {}, StartStep
    PROVE  AllClimb(above)'
<1>1. TypeOK
  BY DEF LInv, WInv, IInv
<1>2. Mailbox \in Thread \ Worker /\ Asynchronous \subseteq Thread \ Worker
  BY ThreadFacts, ThreadAssumption
<1>3. ASSUME NEW t \in Thread \ Worker, calls[t] = <<>>, NEW c \in Frame, Enter(t, c), FrameOK(t, c),
             UNCHANGED <<target, exec>>
      PROVE  AllClimb(above)'
  <2> DEFINE r == <<c>> \o <<>>
  <2>1. calls' = [calls EXCEPT ![t] = r] /\ Climbs(above, r) /\ CallsIn(r) = {c}
    BY <1>3, ClimbOne DEF Enter
  <2> HIDE DEF r
  <2> QED BY <1>3, <2>1, EnterClimbs
<1>4. ASSUME NEW c \in Frame, NEW d \in Frame, calls' = [calls EXCEPT ![Mailbox] = <<c, d>>],
             FrameOK(Mailbox, c), FrameOK(Mailbox, d), d.op \notin Checking, d.op \notin LinkingOutput,
             UNCHANGED <<target, exec>>
      PROVE  AllClimb(above)'
  <2> DEFINE r == <<c, d>>
  <2>1. calls' = [calls EXCEPT ![Mailbox] = r] /\ Climbs(above, r) /\ CallsIn(r) = {c, d}
    BY <1>4, ClimbTwo
  <2> HIDE DEF r
  <2> QED BY <1>2, <1>4, <2>1, EnterClimbs
<1>5. ASSUME NEW i \in Input, AddArc(i) PROVE AllClimb(above)'
  <2> DEFINE c == LinkParent(i)
             d == LinkInput(i)
  <2>1. /\ c \in Frame /\ d \in Frame
        /\ Wire[i] # NoOutput /\ target[i] = NoOutput
        /\ calls' = [calls EXCEPT ![Mailbox] = <<c, d>>]
        /\ UNCHANGED <<target, exec>>
    BY <1>5, LinkFrames DEF AddArc, graph
  <2>2. /\ c.op = "setOutput" /\ c.node = Parent(i) /\ c.ins = {i}
        /\ d.op = "setInput"
    BY DEF LinkParent, LinkInput, Call, Parent
  <2> HIDE DEF c, d
  <2>3. FrameOK(Mailbox, c)
    BY <2>1, <2>2 DEF FrameOK, LinksFirst, Wired, Linking, Clearing, Allowing
  <2>4. FrameOK(Mailbox, d) /\ d.op \notin Checking /\ d.op \notin LinkingOutput
    BY <2>2 DEF FrameOK, Checking, Linking, Clearing, Allowing, LinkingOutput
  <2> QED BY <1>4, <2>1, <2>3, <2>4
<1>6. ASSUME NEW i \in Rewired, RemoveArc(i) PROVE AllClimb(above)'
  <2> DEFINE c == [Call("clearOutput", OutputOf[target[i]]) EXCEPT !.ins = {i}]
             d == [Call("clearInput", InputOf[i]) EXCEPT !.ins = {i}]
  <2>1. i \in Input /\ InputOf[i] \in Node /\ OutputOf[target[i]] \in Node
    BY <1>1, <1>6, WiringAssumption DEF RemoveArc, TypeOK
  <2>2. /\ c \in Frame /\ c.op = "clearOutput"
        /\ d \in Frame /\ d.op = "clearInput" /\ d.ins = {i} /\ d.node = InputOf[i]
        /\ calls' = [calls EXCEPT ![Mailbox] = <<c, d>>]
        /\ UNCHANGED <<target, exec>>
    BY <1>6, <2>1 DEF RemoveArc, graph, Call, Frame, Operations, Modes
  <2> HIDE DEF c, d
  <2>3. FrameOK(Mailbox, c)
    BY <2>2 DEF FrameOK, Linking, LinkingOutput, Clearing, Allowing
  <2>4. FrameOK(Mailbox, d) /\ d.op \notin Checking /\ d.op \notin LinkingOutput
    BY <2>1, <2>2 DEF FrameOK, Checking, Linking, Clearing, Allowing, LinkingOutput, InputsOf
  <2> QED BY <1>4, <2>2, <2>3, <2>4
<1>7. ASSUME NEW n \in Removable, RemoveNode(n) PROVE AllClimb(above)'
  <2> DEFINE parents == {target[i] : i \in InputsOf(n)} \ {NoOutput}
             children == UNION {links[o] : o \in OutputsOf(n)}
             c == [Call("unlinkParents", n) EXCEPT !.outs = parents, !.ins = children]
  <2>1. /\ n \in Node
        /\ {target[i] : i \in InputsOf(n)} \ {NoOutput} \subseteq Output
        /\ UNION {links[o] : o \in OutputsOf(n)} \subseteq Input
    BY <1>1, NodeAssumption DEF TypeOK, InputsOf, OutputsOf
  <2>2. c \in Frame /\ c.op = "unlinkParents"
    <3>1. parents \subseteq Output /\ children \subseteq Input /\ "unlinkParents" \in Operations
      BY <2>1 DEF Operations
    <3> HIDE DEF parents, children
    <3> QED BY <2>1, <3>1 DEF Call, Frame, Modes
  <2>3. calls[Mailbox] = <<>> /\ Enter(Mailbox, c) /\ UNCHANGED <<target, exec>>
    BY <1>7 DEF RemoveNode
  <2> HIDE DEF c
  <2>4. FrameOK(Mailbox, c)
    BY <2>2, PlainFrame DEF Linking, Clearing, Allowing
  <2> QED BY <1>2, <1>3, <2>2, <2>3, <2>4
<1>8. ASSUME NEW i \in Settable, SetParam(i) PROVE AllClimb(above)'
  <2> DEFINE c == NewInput(i)
  <2>1. c \in Frame /\ c.op = "setNewInput"
    BY WiringAssumption, NewInputFrame DEF NewInput, Call
  <2>2. calls[Mailbox] = <<>> /\ Enter(Mailbox, c) /\ UNCHANGED <<target, exec>>
    BY <1>8 DEF SetParam, graph
  <2> HIDE DEF c
  <2>3. FrameOK(Mailbox, c)
    BY <2>1, PlainFrame DEF Linking, Clearing, Allowing
  <2> QED BY <1>2, <1>3, <2>1, <2>2, <2>3
<1>9. ASSUME NEW n \in Forced, ForceExec(n) PROVE AllClimb(above)'
  <2> DEFINE c == Check(n, "Force")
  <2>1. c \in Frame /\ c.op = "checkAddSched"
    BY NodeAssumption, CheckFrame DEF Check, Call, Modes
  <2>2. calls[Mailbox] = <<>> /\ Enter(Mailbox, c) /\ UNCHANGED <<target, exec>>
    BY <1>9 DEF ForceExec, graph
  <2> HIDE DEF c
  <2>3. FrameOK(Mailbox, c)
    BY <2>1, PlainFrame DEF Linking, Clearing, Allowing
  <2> QED BY <1>2, <1>3, <2>1, <2>2, <2>3
<1>10. ASSUME NEW n \in MessageNode, OnMessage(n) PROVE AllClimb(above)'
  <2> DEFINE c == Call("setAllowQueue", n)
             d == Call("onMessage", n)
  <2>1. n \in Node
    BY NodeAssumption DEF MessageNode
  <2>2. /\ c \in Frame /\ c.op = "setAllowQueue"
        /\ d \in Frame /\ d.op = "onMessage"
    BY <2>1, CallFrame DEF Operations
  <2>3. calls' = [calls EXCEPT ![Mailbox] = <<c, d>>] /\ UNCHANGED <<target, exec>>
    BY <1>10 DEF OnMessage, graph
  <2> HIDE DEF c, d
  <2>4. c.node = n
    BY DEF c, Call
  <2>6. FrameOK(Mailbox, c) /\ FrameOK(Mailbox, d)
    BY <2>2, <2>4 DEF FrameOK, Linking, Clearing, Allowing, LinkingOutput
  <2>5. d.op \notin Checking /\ d.op \notin LinkingOutput
    BY <2>2 DEF Checking, LinkingOutput
  <2> QED BY <1>4, <2>2, <2>3, <2>5, <2>6
<1>11. ASSUME NEW n \in Asynchronous, TimerCallback(n) PROVE AllClimb(above)'
  <2> DEFINE c == Call("demandNewParentInput", n)
  <2>1. n \in Node /\ n \in Thread \ Worker
    BY <1>2, ThreadFacts
  <2>2. c \in Frame /\ c.op = "demandNewParentInput"
    BY <2>1, CallFrame DEF Operations
  <2>3. calls[n] = <<>> /\ Enter(n, c) /\ UNCHANGED <<target, exec>>
    BY <1>11 DEF TimerCallback, graph
  <2> HIDE DEF c
  <2>4. FrameOK(n, c)
    BY <2>2, PlainFrame DEF Linking, Clearing, Allowing
  <2> QED BY <1>3, <2>1, <2>2, <2>3, <2>4
<1> QED BY <1>5, <1>6, <1>7, <1>8, <1>9, <1>10, <1>11 DEF StartStep

LEMMA ExecClimbs ==
    ASSUME NEW above, LInv(above), NEW w \in Worker, ExecStep(w)
    PROVE  AllClimb(above)'
<1> DEFINE n == exec[w].node
<1>1. TypeOK /\ w \in Thread /\ exec \in [Worker -> {Idle} \cup Running]
  BY ThreadFacts DEF LInv, WInv, IInv, TypeOK
<1>2. ASSUME calls[w] = <<>>, UNCHANGED <<target, calls>>, \A u \in Worker \ {w} : exec'[u] = exec[u],
             exec'[w].at \in {"messageTaken", "clearAllowQueue"} => exec'[w].node \in MessageNode
      PROVE  AllClimb(above)'
  BY <1>2, WorkerGoesUp
<1>3. ASSUME calls[w] = <<>>, UNCHANGED target, \A u \in Worker \ {w} : exec'[u] = exec[u],
             NEW c \in Frame, Enter(w, c), c.op \notin Linking \cup Clearing \cup Allowing \cup {"refuse"},
             exec'[w].at \in {"doWork", "lockOutputs", "finish", "waitNextJob"}
      PROVE  AllClimb(above)'
  BY <1>3, WorkerGoesUp, PlainFrame
<1>4. CASE \/ WaitNextJob(w) \/ LockInputs(w) \/ UnlockInputs(w) \/ TakeMessage(w)
           \/ LockAllowQueue(w) \/ ClearAllowQueue(w) \/ LockOutputs(w) \/ LockExecQueued(w)
           \/ \E i \in Input : GetImage(w, i)
           \/ \E o \in Output : SetOutputValue(w, o)
  <2>1. calls[w] = <<>> /\ UNCHANGED <<target, calls>>
    BY <1>4 DEF WaitNextJob, LockInputs, UnlockInputs, TakeMessage, LockAllowQueue, ClearsNow,
                ClearAllowQueue, LockOutputs, LockExecQueued, GetImage, SetOutputValue, At, graph
  <2>2. \A u \in Worker \ {w} : exec'[u] = exec[u]
    BY <1>1, <1>4 DEF WaitNextJob, LockInputs, UnlockInputs, TakeMessage, LockAllowQueue,
                ClearAllowQueue, LockOutputs, LockExecQueued, GetImage, SetOutputValue, Goto
  <2>3. exec'[w].at \in {"messageTaken", "clearAllowQueue"} => exec'[w].node \in MessageNode
    <3>1. exec[w].at = "messageTaken" => exec[w].node \in MessageNode
      BY <1>1, LockFacts DEF ThreadOK, WorkerClimbs
    <3>2. CASE TakeMessage(w)
      BY <1>1, <3>2 DEF TakeMessage, Goto, MessageNode, Running, Idle
    <3>3. CASE LockAllowQueue(w)
      BY <1>1, <3>1, <3>3 DEF LockAllowQueue, ClearsNow, At, Goto, MessageNode, Running, Idle
    <3>4. CASE WaitNextJob(w)
      BY <1>1, <3>4 DEF WaitNextJob, Idle
    <3>5. CASE \/ LockInputs(w) \/ UnlockInputs(w) \/ ClearAllowQueue(w) \/ LockOutputs(w)
               \/ LockExecQueued(w)
      BY <1>1, <3>5 DEF LockInputs, UnlockInputs, ClearAllowQueue, LockOutputs, LockExecQueued,
                        Goto, Running, Idle
    <3>6. CASE (\E i \in Input : GetImage(w, i)) \/ (\E o \in Output : SetOutputValue(w, o))
      <4>1. exec'[w].at = exec[w].at /\ exec[w].at \in {"gather", "setOutputs"}
        <5>1. ASSUME NEW i \in Input, GetImage(w, i)
              PROVE  exec'[w].at = exec[w].at /\ exec[w].at = "gather"
          BY <1>1, <5>1 DEF GetImage, At, Running, Idle
        <5>2. ASSUME NEW o \in Output, SetOutputValue(w, o)
              PROVE  exec'[w].at = exec[w].at /\ exec[w].at = "setOutputs"
          BY <1>1, <5>2 DEF SetOutputValue, At, Running, Idle
        <5> QED BY <3>6, <5>1, <5>2
      <4> QED BY <4>1
    <3> QED BY <1>4, <3>2, <3>3, <3>4, <3>5, <3>6
  <2> QED BY <1>2, <2>1, <2>2, <2>3
<1>5. CASE ClearNewInput(w) \/ DoWork(w)
  <2>1. /\ calls[w] = <<>> /\ UNCHANGED target
        /\ exec[w].at # "waitNextJob"
        /\ UNCHANGED calls \/ Enter(w, Call("demandNewParentInput", n))
    BY <1>5 DEF ClearNewInput, DoWork, At, graph
  <2>2. /\ \A u \in Worker \ {w} : exec'[u] = exec[u]
        /\ exec'[w].at \in {"doWork", "lockOutputs"}
    BY <1>1, <1>5 DEF ClearNewInput, DoWork, Goto, Running, Idle
  <2> DEFINE c == Call("demandNewParentInput", n)
  <2>3. c \in Frame /\ c.op = "demandNewParentInput"
    BY <1>1, <2>1, RunningWorker, CallFrame DEF Operations
  <2>4. UNCHANGED calls \/ Enter(w, c)
    BY <2>1
  <2> HIDE DEF c
  <2> QED BY <1>2, <1>3, <2>1, <2>2, <2>3, <2>4 DEF Linking, Clearing, Allowing
<1>6. CASE NotifyChildren(w)
  <2> DEFINE c == [Call("notifyEach", n) EXCEPT !.ins = exec[w].kids]
  <2>1. calls[w] = <<>> /\ UNCHANGED target /\ exec[w].at = "setOutputs" /\ Enter(w, c)
    BY <1>6 DEF NotifyChildren, At, graph
  <2>2. /\ \A u \in Worker \ {w} : exec'[u] = exec[u]
        /\ exec'[w].at = "finish"
    BY <1>1, <1>6 DEF NotifyChildren, Goto, Running, Idle
  <2>3. c \in Frame /\ c.op = "notifyEach"
    BY <1>1, <2>1, RunningWorker DEF Call, Frame, Operations, Modes
  <2> HIDE DEF c
  <2> QED BY <1>3, <2>1, <2>2, <2>3 DEF Linking, Clearing, Allowing
<1>7. CASE ClearExecQueued(w)
  <2> DEFINE c == Check(n, "AllNew")
  <2>1. calls[w] = <<>> /\ UNCHANGED target /\ exec[w].at = "clearExecQueued" /\ Enter(w, c)
    BY <1>7 DEF ClearExecQueued, At, graph
  <2>2. /\ \A u \in Worker \ {w} : exec'[u] = exec[u]
        /\ exec'[w].at = "waitNextJob"
    BY <1>1, <1>7 DEF ClearExecQueued, Idle
  <2>3. c \in Frame /\ c.op = "checkAddSched"
    BY <1>1, <2>1, RunningWorker, CheckFrame DEF Modes, Check, Call
  <2> HIDE DEF c
  <2> QED BY <1>3, <2>1, <2>2, <2>3 DEF Linking, Clearing, Allowing
<1>8. ASSUME NEW i \in Input, BadInput(w, i) PROVE AllClimb(above)'
  <2>1. /\ calls[w] = <<>> /\ UNCHANGED target
        /\ exec[w].at = "gather"
        /\ i \in InputsOf(n)
        /\ UNCHANGED calls \/ (target[i] # NoOutput /\ Enter(w, Demand(target[i])))
    BY <1>8 DEF BadInput, At, graph, LInv, WInv, Wakes, WorkOK
  <2>2. /\ \A u \in Worker \ {w} : exec'[u] = exec[u]
        /\ exec'[w].at = "badInput"
        /\ exec'[w].node = n
    BY <1>1, <1>8 DEF BadInput, Goto, Running, Idle
  <2>3. CASE UNCHANGED calls
    BY <1>2, <2>1, <2>2, <2>3
  <2>4. CASE target[i] # NoOutput /\ Enter(w, Demand(target[i]))
    <3> DEFINE c == Demand(target[i])
    <3>1. target[i] \in Output
      BY <1>1, <2>4 DEF TypeOK
    <3>2. c \in Frame /\ c.op = "setNewOutputDemanded" /\ c.node = OutputOf[target[i]]
      BY <3>1, DemandFrame DEF Demand, Call
    <3>3. Enter(w, c)
      BY <2>4
    <3> HIDE DEF c
    <3>4. FrameOK(w, c) /\ c.op \in Climbing
      BY <3>2, PlainFrame DEF Linking, Clearing, Allowing, Climbing
    <3>5. c.node \in Reach(above, n)
      BY <2>1, <2>4, <3>2 DEF Reach, Upward
    <3> QED BY <2>1, <2>2, <3>2, <3>3, <3>4, <3>5, WorkerGoesUp
  <2> QED BY <2>1, <2>3, <2>4
<1> QED BY <1>4, <1>5, <1>6, <1>7, <1>8 DEF ExecStep

LEMMA TargetsStayWired ==
    ASSUME NEW above, LInv(above), [Next]_vars
    PROVE  TargetsWired'
<1> SUFFICES \A i \in Input : target'[i] \in {Wire[i], NoOutput, target[i]}
  BY DEF LInv, TargetsWired
<1>1. CASE UNCHANGED target
  BY <1>1
<1>2. ASSUME NEW t \in Thread,
             SetInput(t) \/ ClearInput(t) \/ UnlinkChildren(t) \/ ClearInputs(t)
      PROVE  \A i \in Input : target'[i] \in {Wire[i], NoOutput, target[i]}
  BY <1>2 DEF SetInput, ClearInput, UnlinkChildren, ClearInputs
<1>3. ASSUME NEW t \in Thread, CallStep(t),
             ~(SetInput(t) \/ ClearInput(t) \/ UnlinkChildren(t) \/ ClearInputs(t))
      PROVE  UNCHANGED target
  BY <1>3 DEF CallStep, CheckAddSched, Conditions, EnsureValidInput, SetExecQueued, AddJob,
       DemandEach, NotifyEach, DemandNewParentInput, SetNewOutputDemanded, SetNewInput,
       SetAllowQueue, AllowNode, SetOutput, LinkOutput,
       MessageHandled, ClearOutput, UnlinkParents, ClearOutputs, graph
<1>4. ASSUME NEW w \in Worker, ExecStep(w) PROVE UNCHANGED target
  BY <1>4 DEF ExecStep, WaitNextJob, LockInputs, UnlockInputs, ClearNewInput, TakeMessage,
       LockAllowQueue, ClearAllowQueue, DoWork, LockOutputs, NotifyChildren, LockExecQueued,
       ClearExecQueued, GetImage, BadInput, SetOutputValue, graph
<1>5. ASSUME StartStep PROVE UNCHANGED target
  <2>1. /\ \A i \in Input : AddArc(i) => UNCHANGED target
        /\ \A i \in Settable : SetParam(i) => UNCHANGED target
        /\ \A i \in Rewired : RemoveArc(i) => UNCHANGED target
    BY DEF AddArc, SetParam, RemoveArc, graph
  <2>2. /\ \A n \in Forced : ForceExec(n) => UNCHANGED target
        /\ \A n \in MessageNode : OnMessage(n) => UNCHANGED target
        /\ \A n \in Asynchronous : TimerCallback(n) => UNCHANGED target
    BY DEF ForceExec, OnMessage, TimerCallback, graph
  <2>3. ASSUME NEW n \in Removable, RemoveNode(n) PROVE UNCHANGED target
    BY <2>3, Zenon DEF RemoveNode
  <2> QED BY <1>5, <2>1, <2>2, <2>3 DEF StartStep
<1>6. CASE Next
  BY <1>1, <1>2, <1>3, <1>4, <1>5, <1>6 DEF Next, Build, Disturb, StartStep
<1> QED BY <1>1, <1>6 DEF vars

LEMMA LocksInvariance ==
    ASSUME NEW above, Ordered(above), ParentsFirst = {}
    PROVE  Spec => []LInv(above)
<1>1. ASSUME Init PROVE LInv(above)
  <2>1. \A t \in Thread : CallsIn(calls[t]) = {} /\ Climbs(above, calls[t])
    BY <1>1 DEF Init, CallsIn, Climbs
  <2>2. \A w \in Worker : WorkerClimbs(above, w)
    BY <1>1, <2>1 DEF Init, Idle, WorkerClimbs
  <2>3. TargetsWired
    BY <1>1 DEF Init, TargetsWired
  <2> QED BY <1>1, <2>1, <2>2, <2>3, InitWakes DEF LInv, AllClimb, ThreadOK
<1>2. ASSUME LInv(above), [Next]_vars PROVE LInv(above)'
  <2>1. WInv' /\ TargetsWired'
    BY <1>2, NextWakes, TargetsStayWired DEF LInv
  <2>2. CASE UNCHANGED vars
    <3>1. UNCHANGED <<calls, exec, target>>
      BY <2>2 DEF vars
    <3>2. ASSUME NEW t \in Thread PROVE ThreadOK(above, t)'
      <4>1. ThreadOK(above, t)
        BY <1>2 DEF LInv, AllClimb
      <4>2. \A c : FrameOK(t, c) => FrameOK(t, c)'
        BY <3>1, FrameStays
      <4>3. t \in Worker => WorkerClimbs(above, t)'
        BY <3>1, <4>1, WorkerStays DEF ThreadOK
      <4>4. CallsIn(calls[t])' = CallsIn(calls[t]) /\ Climbs(above, calls[t])' = Climbs(above, calls[t])
        BY <3>1 DEF CallsIn, Climbs
      <4> QED BY <4>1, <4>2, <4>3, <4>4 DEF ThreadOK
    <3>3. AllClimb(above)'
      BY <3>2 DEF AllClimb
    <3> QED BY <2>1, <3>3 DEF LInv
  <2>3. ASSUME NEW t \in Thread, CallStep(t) PROVE AllClimb(above)'
    BY <1>2, <2>3, DecidingClimbs, NotingClimbs, EachClimbs, LinkingClimbs, UnlinkingClimbs
       DEF CallStep
  <2>4. ASSUME NEW w \in Worker, ExecStep(w) PROVE AllClimb(above)'
    BY <1>2, <2>4, ExecClimbs
  <2>5. ASSUME StartStep PROVE AllClimb(above)'
    BY <1>2, <2>5, StartClimbs
  <2>6. CASE Next
    <3>1. AllClimb(above)'
      BY <2>3, <2>4, <2>5, <2>6 DEF Next, Build, Disturb, StartStep
    <3> QED BY <2>1, <3>1 DEF LInv
  <2> QED BY <1>2, <2>2, <2>6
<1> QED BY <1>1, <1>2, PTL DEF Spec

-----------------------------------------------------------------------------
(* Threads that wait for each other *)

\* The threads of S wait for each other, and none for the lock of a flag.
Stuck(S) == \A t \in S : ~In(t, "addJob") /\ \E u \in S : WaitsForNode(t, u)
HeldIn(S, n) == \E u \in S : HoldsChecking(u, n) \/ HoldsInputs(u, n)

LEMMA HeldNode ==
    ASSUME NEW above, LInv(above), NEW S \in SUBSET Thread, NEW n, HeldIn(S, n)
    PROVE  n \in Node
<1>1. PICK u \in S : HoldsChecking(u, n) \/ HoldsInputs(u, n)
  BY DEF HeldIn
<1>2. CASE HoldsChecking(u, n)
  BY <1>1, <1>2, LockFacts DEF HoldsChecking, CallsIn, Frame
<1>3. CASE HoldsInputs(u, n)
  <2>1. TypeOK
    BY LockFacts DEF LInv, WInv, IInv
  <2> QED BY <1>3, <2>1, RunningWorker, TopFrame DEF HoldsInputs, In
<1> QED BY <1>1, <1>2, <1>3

\* A thread that waits with a m_outputs_lock held is linking an output.
LEMMA OutputsHolder ==
    ASSUME NEW above, LInv(above), NEW S \in SUBSET Thread, Stuck(S),
           NEW u \in S, NEW n, HoldsOutputs(u, n)
    PROVE  u = Mailbox /\ In(u, "linkOutput") /\ Top(u).node = n
<1>1. ThreadOK(above, u) /\ u \in Thread
  BY LockFacts
<1>2. CASE u \in Worker /\ exec[u].node = n /\ exec[u].at = "setOutputs"
  <2>1. calls[u] = <<>>
    BY <1>1, <1>2 DEF ThreadOK, WorkerClimbs
  <2>2. \A v : ~WaitsForNode(u, v)
    BY <1>2, <2>1 DEF WaitsForNode, In, At
  <2> QED BY <2>2 DEF Stuck
<1>3. CASE In(u, "linkOutput") /\ Top(u).node = n
  <2>1. Top(u) \in CallsIn(calls[u]) /\ Top(u).op = "linkOutput"
    BY <1>1, <1>3, LockFacts DEF In, Top
  <2> QED BY <1>1, <1>3, <2>1 DEF ThreadOK, FrameOK, Linking, Clearing
<1> QED BY <1>2, <1>3 DEF HoldsOutputs

\* A thread inside of checkAddSched or of a demand waits for a lock of that node.
LEMMA ClimberWaits ==
    ASSUME NEW S, Stuck(S), NEW u \in S, calls[u] # <<>>, Top(u).op \in Climbing
    PROVE  /\ HeldIn(S, Top(u).node)
           /\ Top(u).op \in Checking => \E v \in S : HoldsInputs(v, Top(u).node)
<1>1. PICK v \in S : WaitsForNode(u, v)
  BY DEF Stuck
<1>2. \/ Top(u).op = "checkAddSched" /\ HoldsChecking(v, Top(u).node)
      \/ HoldsInputs(v, Top(u).node)
  BY <1>1 DEF WaitsForNode, In, At, Top, Climbing, Checking
<1> QED BY <1>2 DEF HeldIn, Checking

\* Whoever holds a m_checking_sched_lock waits for the inputs of that node, or above.
LEMMA CheckingHolder ==
    ASSUME NEW above, LInv(above), NEW S \in SUBSET Thread, Stuck(S),
           NEW u \in S, NEW n, HoldsChecking(u, n)
    PROVE  \/ \E v \in S : HoldsInputs(v, n)
           \/ \E m \in above[n] : HeldIn(S, m)
<1>1. PICK k \in DOMAIN calls[u] : calls[u][k].node = n /\ calls[u][k].op \in Checking
  BY DEF HoldsChecking
<1>2. /\ TypeOK
      /\ u \in Thread
      /\ calls[u] \in Seq(Frame)
      /\ Climbs(above, calls[u])
  BY LockFacts DEF ThreadOK
<1>3. /\ calls[u] # <<>>
      /\ Top(u) = calls[u][1]
      /\ 1 \in DOMAIN calls[u]
      /\ k = 1 \/ 1 < k
  BY <1>1, <1>2, TopFrame
<1>4. CASE k = 1
  BY <1>1, <1>3, <1>4, ClimberWaits DEF Climbing
<1>5. CASE 1 < k
  <2>1. Top(u).op \in Climbing /\ Top(u).node \in above[n]
    BY <1>1, <1>2, <1>3, <1>5 DEF Climbs
  <2> QED BY <1>3, <2>1, ClimberWaits
<1> QED BY <1>3, <1>4, <1>5

\* Whoever holds a m_inputs_lock waits for an output of a parent, or above.
LEMMA InputsHolder ==
    ASSUME NEW above, LInv(above), NEW S \in SUBSET Thread, Stuck(S),
           NEW u \in S, NEW n, HoldsInputs(u, n)
    PROVE  \/ \E i \in InputsOf(n) : target[i] # NoOutput
                /\ \E v \in S : HoldsOutputs(v, OutputOf[target[i]])
           \/ \E m \in Reach(above, n) : HeldIn(S, m)
<1>1. ThreadOK(above, u) /\ u \in Worker /\ exec[u].node = n /\ exec[u].at \in {"gather", "badInput"}
  BY LockFacts DEF HoldsInputs, Stuck
<1>2. WorkerClimbs(above, u) /\ exec[u].ins \subseteq InputsOf(n)
  BY <1>1 DEF ThreadOK, LInv, WInv, Wakes, WorkOK
<1>3. PICK v \in S : WaitsForNode(u, v)
  BY DEF Stuck
<1>4. CASE calls[u] = <<>>
  BY <1>2, <1>3, <1>4 DEF WaitsForNode, In
<1>5. CASE calls[u] # <<>>
  <2>1. exec[u].at = "badInput"
    BY <1>1, <1>2, <1>5 DEF WorkerClimbs
  <2>2. Top(u).op \in Climbing /\ Top(u).node \in Reach(above, n)
    BY <1>1, <1>2, <1>5, <2>1, LockFacts DEF WorkerClimbs
  <2> QED BY <1>5, <2>2, ClimberWaits
<1> QED BY <1>4, <1>5

\* No thread of a stuck set holds anything in a region that is closed upwards
\* and in which none of them links an output: nobody would hold the highest lock.
LEMMA NothingHeldAbove ==
    ASSUME NEW above, Ordered(above), LInv(above), NEW S \in SUBSET Thread, Stuck(S),
           NEW R \in SUBSET Node, \A n \in R : above[n] \subseteq R,
           \A u \in S : In(u, "linkOutput") => Top(u).node \notin R,
           NEW n0 \in R, HeldIn(S, n0)
    PROVE  FALSE
<1> DEFINE K == {n \in R : HeldIn(S, n)}
<1>1. PICK n \in K : above[n] \cap K = {}
  BY DEF Ordered
<1>2. n \in R /\ n \in Node /\ HeldIn(S, n)
  OBVIOUS
<1>3. \A m \in above[n] : m \in R /\ ~HeldIn(S, m)
  BY <1>1, <1>2
<1> HIDE DEF K
<1>4. \E u \in S : HoldsInputs(u, n)
  BY <1>2, <1>3, CheckingHolder DEF HeldIn
<1>5. \A i \in InputsOf(n) : target[i] # NoOutput =>
        OutputOf[target[i]] \in above[n] /\ Upward(above, OutputOf[target[i]]) \subseteq above[n]
  <2> SUFFICES ASSUME NEW i \in InputsOf(n), target[i] # NoOutput
               PROVE  OutputOf[target[i]] \in above[n] /\ Upward(above, OutputOf[target[i]]) \subseteq above[n]
    OBVIOUS
  <2>1. i \in Wired /\ InputOf[i] = n /\ target[i] = Wire[i]
    BY DEF InputsOf, LInv, TargetsWired, Wired
  <2>2. OutputOf[target[i]] \in above[n]
    BY <2>1 DEF Ordered, Parent
  <2> QED BY <1>2, <2>2 DEF Ordered, Upward
<1>6. Reach(above, n) \subseteq above[n]
  BY <1>5 DEF Reach
<1>7. PICK i \in InputsOf(n) : target[i] # NoOutput /\ \E v \in S : HoldsOutputs(v, OutputOf[target[i]])
  BY <1>3, <1>4, <1>6, InputsHolder
<1>8. OutputOf[target[i]] \in R
  BY <1>3, <1>5, <1>7
<1> QED BY <1>7, <1>8, OutputsHolder

\* An output is linked to a child whose other parents lead up elsewhere.
LEMMA NobodyLinks ==
    ASSUME NEW above \in [Node -> SUBSET Node], Ordered(above), NoShortcut(above), LInv(above),
           NEW S \in SUBSET Thread, Stuck(S), NEW t \in S, In(t, "linkOutput")
    PROVE  FALSE
<1>1. Top(t) \in CallsIn(calls[t]) /\ Top(t).op = "linkOutput" /\ ThreadOK(above, t)
  BY LockFacts DEF In, Top
<1>2. FrameOK(t, Top(t))
  BY <1>1 DEF ThreadOK
<1>3. t = Mailbox /\ LinksFirst(Top(t))
  BY <1>1, <1>2 DEF FrameOK, Linking, Clearing, LinkingOutput
<1>4. PICK i \in Wired : Top(t).ins = {i} /\ Top(t).node = Parent(i) /\ target[i] = NoOutput
  BY <1>3 DEF LinksFirst
<1> DEFINE n == InputOf[i]
           R == UNION {Upward(above, Parent(j)) : j \in {k \in Wired : k # i /\ InputOf[k] = n}}
<1>5. \A j \in Wired : Parent(j) \in Node
  BY WiringAssumption DEF Wired, Parent
<1>6. R \subseteq Node /\ \A m \in R : above[m] \subseteq R
  <2>1. ASSUME NEW m \in R PROVE m \in Node /\ above[m] \subseteq R
    <3>1. PICK j \in Wired : j # i /\ InputOf[j] = n /\ m \in Upward(above, Parent(j))
      OBVIOUS
    <3>2. Upward(above, Parent(j)) \subseteq R
      BY <3>1
    <3> QED BY <1>5, <3>1, <3>2 DEF Upward, Ordered
  <2> QED BY <2>1
<1>7. Parent(i) \notin R
  BY DEF NoShortcut
<1>8. \A j \in InputsOf(n) : target[j] # NoOutput =>
        /\ OutputOf[target[j]] \in R
        /\ Upward(above, OutputOf[target[j]]) \subseteq R
  <2> SUFFICES ASSUME NEW j \in InputsOf(n), target[j] # NoOutput
               PROVE  /\ OutputOf[target[j]] \in R
                      /\ Upward(above, OutputOf[target[j]]) \subseteq R
    OBVIOUS
  <2>1. j \in Wired /\ j # i /\ InputOf[j] = n /\ OutputOf[target[j]] = Parent(j)
    BY <1>4 DEF InputsOf, LInv, TargetsWired, Wired, Parent
  <2> QED BY <2>1 DEF Upward
<1> HIDE DEF R
<1>9. Reach(above, n) \subseteq R
  BY <1>8 DEF Reach
<1>10. \A u \in S : \A m : HoldsOutputs(u, m) => m = Parent(i)
  BY <1>3, <1>4, OutputsHolder
<1>11. \A u \in S : In(u, "linkOutput") => Top(u).node \notin R
  BY <1>7, <1>10 DEF HoldsOutputs
<1>12. PICK u \in S : WaitsForNode(t, u)
  BY DEF Stuck
<1>13. HoldsInputs(u, n)
  BY <1>1, <1>4, <1>12 DEF WaitsForNode, In, Top, At
<1>14. \E m \in R : HeldIn(S, m)
  BY <1>7, <1>8, <1>9, <1>10, <1>13, InputsHolder
<1> QED BY <1>6, <1>11, <1>14, NothingHeldAbove

\* Whoever holds the lock of a flag waits for nothing but the lock of the other flag.
LEMMA AllowQueueHolder ==
    ASSUME NEW above, LInv(above), NEW t \in Thread, NEW n, HoldsAllowQueue(t, n)
    PROVE  n \in MessageNode /\ \A u : WaitsFor(t, u) => HoldsExecQueued(u, n)
<1>1. ThreadOK(above, t)
  BY LockFacts
<1>2. CASE In(t, "allowNode") /\ Top(t).node = n
  <2>1. Top(t) \in CallsIn(calls[t]) /\ Top(t).op = "allowNode" /\ calls[t] # <<>>
    BY <1>2, LockFacts DEF In, Top
  <2>2. n \in MessageNode
    BY <1>1, <1>2, <2>1 DEF ThreadOK, FrameOK, Allowing
  <2>3. ASSUME NEW u, WaitsFor(t, u) PROVE HoldsExecQueued(u, n)
    BY <1>2, <2>1, <2>3
       DEF WaitsFor, WaitsForNode, WaitsForFlag, NeedsAllowQueue, NeedsExecQueued, In, At,
           ClearsNow
  <2> QED BY <2>2, <2>3
<1>3. CASE t \in Worker /\ exec[t].node = n /\ exec[t].at = "clearAllowQueue"
  <2>1. calls[t] = <<>> /\ n \in MessageNode
    BY <1>1, <1>3 DEF ThreadOK, WorkerClimbs
  <2>2. ASSUME NEW u, WaitsFor(t, u) PROVE HoldsExecQueued(u, n)
    BY <1>3, <2>1, <2>2
       DEF WaitsFor, WaitsForNode, WaitsForFlag, NeedsAllowQueue, NeedsExecQueued, In, At,
           ClearsNow
  <2> QED BY <2>1, <2>2
<1> QED BY <1>2, <1>3 DEF HoldsAllowQueue

LEMMA ExecQueuedHolder ==
    ASSUME NEW above, LInv(above), NEW t \in Thread, NEW n, HoldsExecQueued(t, n)
    PROVE  \A u : WaitsFor(t, u) => HoldsAllowQueue(u, n)
<1>1. ThreadOK(above, t)
  BY LockFacts
<1>2. CASE In(t, "addJob") /\ Top(t).node = n
  <2>1. Top(t).op = "addJob" /\ calls[t] # <<>>
    BY <1>2 DEF In, Top
  <2> QED BY <1>2, <2>1
     DEF WaitsFor, WaitsForNode, WaitsForFlag, NeedsAllowQueue, NeedsExecQueued, In, At,
         ClearsNow
<1>3. CASE t \in Worker /\ exec[t].node = n /\ exec[t].at = "clearExecQueued"
  <2>1. calls[t] = <<>>
    BY <1>1, <1>3 DEF ThreadOK, WorkerClimbs
  <2> QED BY <1>3, <2>1
     DEF WaitsFor, WaitsForNode, WaitsForFlag, NeedsAllowQueue, NeedsExecQueued, In, At,
         ClearsNow
<1> QED BY <1>2, <1>3 DEF HoldsExecQueued

\* Threads that wait in a circle include two that hold the two flags of a node.
LEMMA CirclesCross ==
    ASSUME NEW above \in [Node -> SUBSET Node], Ordered(above), NoShortcut(above), LInv(above),
           NEW S \in Circles
    PROVE  \E t, u \in S, n \in MessageNode : FlagsCross(t, u, n)
<1>1. S \in (SUBSET Thread) \ {{}} /\ \A t \in S : \E u \in S : WaitsFor(t, u)
  BY DEF Circles
<1>2. ASSUME NEW t \in S, NEW n, HoldsAllowQueue(t, n)
      PROVE  \E u \in S : n \in MessageNode /\ FlagsCross(t, u, n)
  <2>1. PICK u \in S : WaitsFor(t, u)
    BY <1>1
  <2>2. n \in MessageNode /\ HoldsExecQueued(u, n)
    BY <1>1, <1>2, <2>1, AllowQueueHolder
  <2> QED BY <1>2, <2>2 DEF FlagsCross
<1>3. ASSUME NEW t \in S, NEW n, HoldsExecQueued(t, n)
      PROVE  \E u \in S : HoldsAllowQueue(u, n)
  <2>1. PICK u \in S : WaitsFor(t, u)
    BY <1>1
  <2> QED BY <1>1, <1>3, <2>1, ExecQueuedHolder
<1>4. ASSUME \A t \in S : \A n : ~HoldsAllowQueue(t, n) PROVE FALSE
  <2>1. \A t \in S : \A n : ~HoldsExecQueued(t, n)
    BY <1>3, <1>4
  <2>2. ASSUME NEW t \in S PROVE ~In(t, "addJob") /\ \E u \in S : WaitsForNode(t, u)
    <3>1. ~In(t, "addJob")
      BY <2>1 DEF HoldsExecQueued
    <3>2. PICK u \in S : WaitsFor(t, u)
      BY <1>1
    <3> QED BY <1>4, <2>1, <3>1, <3>2 DEF WaitsFor, WaitsForFlag
  <2>3. S \in SUBSET Thread /\ Stuck(S)
    BY <1>1, <2>2 DEF Stuck
  <2>4. \A u \in S : ~In(u, "linkOutput")
    BY <2>3, NobodyLinks
  <2>5. \A u \in S : \A n : ~HoldsOutputs(u, n)
    BY <2>3, <2>4, OutputsHolder
  <2>6. PICK t \in S : TRUE
    BY <1>1
  <2>7. PICK u \in S : WaitsForNode(t, u)
    BY <2>2
  <2>8. \E n : HeldIn(S, n)
    BY <2>5, <2>7 DEF WaitsForNode, HeldIn
  <2>9. PICK n \in Node : HeldIn(S, n)
    BY <2>3, <2>8, HeldNode
  <2> QED BY <2>3, <2>4, <2>9, NothingHeldAbove
<1> QED BY <1>2, <1>4

\* The only circles in which threads of the pipeline come to wait for each other
\* (Node's locks for its inputs, its outputs, checkAddSched and the two flags) are
\* those of a node that is fed by messages: one thread holds the lock of one of its
\* flags and wants the other's, and so on back (node.cpp:1266-1303).  This provided
\* that the pipeline has no cycle, no two inputs of a node that lead up to one
\* parent of it, and is linked by messages that link outputs first (AddArc and
\* SetPipeline).  Of these none can be left out: see the runs.
THEOREM OnlyFlagsBlock ==
    ASSUME NEW above \in [Node -> SUBSET Node], Ordered(above), NoShortcut(above),
           ParentsFirst = {}
    PROVE  Spec => []OnlyFlagsCross
<1>1. LInv(above) => OnlyFlagsCross
  BY CirclesCross DEF OnlyFlagsCross
<1>2. Spec => []LInv(above)
  BY LocksInvariance
<1> QED BY <1>1, <1>2, PTL

\* In a pipeline of which no node is fed by messages, no threads ever wait for each
\* other in a circle.
THEOREM NoThreadsWaitInACircle ==
    ASSUME NEW above \in [Node -> SUBSET Node], Ordered(above), NoShortcut(above),
           ParentsFirst = {}, MessageNode = {}
    PROVE  Spec => []NoDeadlock
<1>1. OnlyFlagsCross => NoDeadlock
  BY DEF OnlyFlagsCross, NoDeadlock
<1> QED BY <1>1, OnlyFlagsBlock, PTL

-----------------------------------------------------------------------------
(* Pipelines that never stall *)

\* The calls of removeNode that cut links, with the node that is removed.
Unlinking == {"unlinkParents", "unlinkChildren", "clearOutputs", "clearInputs"}

\* A call that will demand a value for input i, or mark it New, or cut it.
Serves(c, i) ==
    \/ c.op \in {"setNewOutputDemanded", "demandEach", "refuse"} /\ target[i] \in c.outs
    \/ c.op = "demandNewParentInput" /\ c.node = InputOf[i]
    \/ c.op \in {"setInput", "setNewInput", "notifyEach", "clearInput"} /\ i \in c.ins

\* A worker that will: in an exec that has still to demand, or to notify.
Working == {"doWork", "messageTaken", "clearAllowQueue", "doWork2"}
WillServe(w, i) ==
    \/ exec[w].at \in Working /\ exec[w].node = InputOf[i] /\ InputOf[i] \notin Slow
    \/ exec[w].at = "setOutputs" /\ i \in exec[w].kids

Owed(i) ==
    \/ \E c \in Open : Serves(c, i)
    \/ \E w \in Worker : WillServe(w, i)
    \/ InputOf[i] \in armed

\* A linked input whose value has been used, or was missing, is demanded from
\* its parent, or somebody is about to see to it.
LookedAfter(i) ==
    \/ target[i] = NoOutput \/ status[i] = "New"
    \/ target[i] \in demanded
    \/ Owed(i)

\* The parent of a linked input knows of it, but while the link is being cut.
Leaving(i) == \E c \in Open : c.op = "clearInput" /\ i \in c.ins
Known(i) == target[i] # NoOutput => i \in links[Wire[i]] \/ Leaving(i)

\* What the handlers that link and cut have done and have still to do.
HandlerOK(c) ==
    /\ c.op = "setInput" => \A i \in c.ins :
        /\ i \in Wired
        /\ i \in links[Wire[i]] \/ \E d \in Open : d.op \in LinkingOutput /\ i \in d.ins
    /\ c.op = "clearOutput" => \A i \in c.ins : Leaving(i) \/ target[i] = NoOutput
    /\ c.op \in Unlinking => c.node \in Removable
    /\ c.op \in Linking => ~\E d \in Open : d.op \in Clearing

Allowed == Node \ MessageNode \subseteq allowQueue
Demanding ==
    /\ Allowed
    /\ \A i \in Input : LookedAfter(i) /\ Known(i)
    /\ \A c \in Open : HandlerOK(c)
DInv(above) == LInv(above) /\ Demanding

\* No cycle; arcs are linked outputs first; only nodes that demand first may
\* throw, or leave outputs unset; no node with an arc is removed.
Steady(above) ==
    /\ Ordered(above)
    /\ ParentsFirst = {}
    /\ Faulty \subseteq Slow
    /\ \A i \in Wired : {InputOf[i], Parent(i)} \cap Removable = {}

\* What keeps a pipeline going: sources that need no message, and an output node;
\* each output node has a parent, and so has each input that must be new or must
\* have an image.
Flows(above) ==
    /\ Steady(above)
    /\ MessageNode = {}
    /\ OutputNode # {}
    /\ \A n \in OutputNode : InputsOf(n) \cap Wired # {}
    /\ MustBeNew \cup (ImageInput \ Optional) \subseteq Wired

\* What a step may put in the place of what served input i.
Instead(C, i) ==
    \/ target'[i] = NoOutput \/ status'[i] = "New"
    \/ target[i] \in demanded'
    \/ InputOf[i] \in armed'
    \/ \E c \in C : Serves(c, i)
    \/ \E w \in Worker : WillServe(w, i)'

LEMMA SameServes ==
    ASSUME NEW i, target'[i] = target[i], NEW c
    PROVE  Serves(c, i)' <=> Serves(c, i)
  BY DEF Serves

LEMMA LookedKept ==
    ASSUME NEW t \in Thread, NEW C, Swaps(t, C), NEW i \in Input, LookedAfter(i),
           target'[i] \in {target[i], NoOutput},
           status[i] = "New" => Instead(C, i),
           target[i] \in demanded => Instead(C, i),
           InputOf[i] \in armed => Instead(C, i),
           calls[t] # <<>> /\ Serves(Top(t), i) => Instead(C, i),
           \A w \in Worker : WillServe(w, i) => Instead(C, i)
    PROVE  LookedAfter(i)'
<1> SUFFICES ASSUME target'[i] = target[i], target[i] # NoOutput PROVE LookedAfter(i)'
  BY DEF LookedAfter
<1>1. \A c : Serves(c, i)' <=> Serves(c, i)
  BY SameServes
<1>2. ASSUME NEW c \in Open', Serves(c, i) PROVE LookedAfter(i)'
  <2>1. Owed(i)'
    BY <1>1, <1>2 DEF Owed
  <2> QED BY <2>1 DEF LookedAfter
<1>3. Instead(C, i) => LookedAfter(i)'
  <2>1. \A w \in Worker : WillServe(w, i)' => Owed(i)'
    BY DEF Owed
  <2>2. InputOf[i] \in armed' => Owed(i)'
    BY DEF Owed
  <2> QED BY <1>2, <2>1, <2>2 DEF Instead, LookedAfter, Swaps
<1>4. ASSUME NEW c \in Open, Serves(c, i) PROVE LookedAfter(i)'
  BY <1>2, <1>3, <1>4 DEF Swaps
<1> QED BY <1>3, <1>4 DEF LookedAfter, Owed

\* Links and handlers, in all steps but those that link and cut arcs.
LEMMA HandlersKept ==
    ASSUME NEW above, DInv(above), NEW t \in Thread, NEW C, Swaps(t, C),
           \A i \in Wired : i \in links[Wire[i]] => i \in links'[Wire[i]],
           \A i \in Input : target'[i] \in {target[i], NoOutput},
           calls[t] # <<>> => Top(t).op \notin LinkingOutput \cup {"clearInput"},
           \A c \in C : /\ c.op \notin Linking \cup Clearing
                        /\ c.op \in Unlinking => c.node \in Removable
    PROVE  (\A i \in Input : Known(i))' /\ (\A c \in Open : HandlerOK(c))'
<1>1. \A i \in Input : Leaving(i) => Leaving(i)'
  BY DEF Swaps, Leaving
<1>2. ASSUME NEW i \in Input PROVE Known(i)'
  <2>1. Known(i) /\ target[i] \in {Wire[i], NoOutput}
    BY DEF DInv, Demanding, LInv, TargetsWired
  <2>2. target[i] # NoOutput => i \in Wired
    BY <2>1 DEF Wired
  <2> QED BY <1>1, <2>1, <2>2 DEF Known
<1>3. ASSUME NEW c \in Open' PROVE HandlerOK(c)'
  <2>1. CASE c \in C
    <3>1. c.op # "setInput" /\ c.op # "clearOutput"
      BY <2>1 DEF Linking, Clearing
    <3>2. c.op \notin Linking /\ (c.op \in Unlinking => c.node \in Removable)
      BY <2>1
    <3> QED BY <3>1, <3>2 DEF HandlerOK
  <2>2. CASE c \in Open
    <3>0. HandlerOK(c) /\ c.ins \subseteq Input
      BY <2>2, OpenFacts DEF DInv, Demanding, LInv, WInv, IInv
    <3>1. ASSUME c.op = "setInput", NEW i \in c.ins
          PROVE  i \in Wired /\ (i \in links'[Wire[i]] \/ \E d \in Open' : d.op \in LinkingOutput /\ i \in d.ins)
      BY <3>0, <3>1 DEF HandlerOK, Swaps
    <3>2. ASSUME c.op = "clearOutput", NEW i \in c.ins
          PROVE  Leaving(i)' \/ target'[i] = NoOutput
      BY <1>1, <3>0, <3>2 DEF HandlerOK
    <3>3. c.op \in Linking => ~\E d \in Open' : d.op \in Clearing
      <4>1. c.op \in Linking => ~\E d \in Open : d.op \in Clearing
        BY <3>0 DEF HandlerOK
      <4>2. \A d \in C : d.op \notin Clearing
        OBVIOUS
      <4> QED BY <4>1, <4>2 DEF Swaps
    <3> QED BY <3>0, <3>1, <3>2, <3>3 DEF HandlerOK, Wired
  <2> QED BY <2>1, <2>2 DEF Swaps
<1> QED BY <1>2, <1>3

LEMMA CallLooks ==
    ASSUME NEW above, DInv(above), NEW t \in Thread, NEW C, Swaps(t, C),
           UNCHANGED <<exec, armed>>, demanded \subseteq demanded', NEW i \in Input,
           target'[i] \in {target[i], NoOutput}, status'[i] \in {status[i], "New"},
           calls[t] # <<>> => (Serves(Top(t), i) => Instead(C, i))
    PROVE  LookedAfter(i)'
<1>1. \A w \in Worker : WillServe(w, i)' <=> WillServe(w, i)
  BY DEF WillServe
<1>2. LookedAfter(i)
  BY DEF DInv, Demanding
<1>3. status[i] = "New" \/ target[i] \in demanded \/ InputOf[i] \in armed => Instead(C, i)
  BY DEF Instead
<1>4. \A w \in Worker : WillServe(w, i) => Instead(C, i)
  BY <1>1 DEF Instead
<1> QED BY <1>2, <1>3, <1>4, LookedKept

\* A step of calls that neither links nor cuts an arc.
LEMMA CallDemands ==
    ASSUME NEW above, DInv(above), NEW t \in Thread, NEW C, Swaps(t, C),
           UNCHANGED <<exec, armed>>, Allowed', demanded \subseteq demanded',
           \A i \in Wired : i \in links[Wire[i]] => i \in links'[Wire[i]],
           \A i \in Input : target'[i] \in {target[i], NoOutput} /\ status'[i] \in {status[i], "New"},
           calls[t] # <<>> => /\ Top(t).op \notin LinkingOutput \cup {"clearInput"}
                              /\ \A i \in Input : Serves(Top(t), i) => Instead(C, i),
           \A c \in C : /\ c.op \notin Linking \cup Clearing
                        /\ c.op \in Unlinking => c.node \in Removable
    PROVE  Demanding'
<1>1. \A i \in Input : LookedAfter(i)'
  BY CallLooks
<1>2. (\A i \in Input : Known(i))' /\ (\A c \in Open : HandlerOK(c))'
  BY HandlersKept
<1> QED BY <1>1, <1>2 DEF Demanding, Allowed

\* The same for steps that change nothing but calls and the queue.
Unmoved == UNCHANGED <<exec, armed, links, target, status, demanded, allowQueue>>

LEMMA UnmovedDemands ==
    ASSUME NEW above, DInv(above), NEW t \in Thread, NEW C, Swaps(t, C), Unmoved,
           calls[t] # <<>> => Top(t).op \notin LinkingOutput \cup {"clearInput"},
           calls[t] # <<>> => \A i \in Input : Serves(Top(t), i) =>
                                target[i] = NoOutput \/ \E c \in C : Serves(c, i),
           \A c \in C : c.op \notin Linking \cup Clearing,
           \A c \in C : c.op \in Unlinking => c.node \in Removable
    PROVE  Demanding'
<1>1. Allowed'
  BY DEF Unmoved, DInv, Demanding, Allowed
<1>2. ASSUME NEW i \in Input, target[i] = NoOutput \/ \E c \in C : Serves(c, i) PROVE Instead(C, i)
  BY <1>2 DEF Instead, Unmoved
<1> QED BY <1>1, <1>2, CallDemands DEF Unmoved

LEMMA UnmovedReturn ==
    ASSUME NEW above, DInv(above), NEW t \in Thread, calls[t] # <<>>, Return(t), Unmoved,
           Top(t).op \notin LinkingOutput \cup {"clearInput"},
           \A i \in Input : ~Serves(Top(t), i)
    PROVE  Demanding'
<1> DEFINE C == {}
<1>1. Swaps(t, C)
  BY SwapsReturn DEF DInv, LInv, WInv, IInv
<1>2. /\ \A c \in C : c.op \notin Linking \cup Clearing
      /\ \A c \in C : c.op \in Unlinking => c.node \in Removable
  OBVIOUS
<1> HIDE DEF C
<1> QED BY <1>1, <1>2, UnmovedDemands

LEMMA UnmovedBecome ==
    ASSUME NEW above, DInv(above), NEW t \in Thread, calls[t] # <<>>, NEW c \in Frame, Become(t, c), Unmoved,
           Top(t).op \notin LinkingOutput \cup {"clearInput"},
           \A i \in Input : Serves(Top(t), i) => target[i] = NoOutput \/ Serves(c, i),
           c.op \notin Linking \cup Clearing \cup Unlinking
    PROVE  Demanding'
<1> DEFINE C == {c}
<1>1. Swaps(t, C)
  BY SwapsBecome DEF DInv, LInv, WInv, IInv
<1>2. /\ \A d \in C : d.op \notin Linking \cup Clearing
      /\ \A d \in C : d.op \in Unlinking => d.node \in Removable
      /\ \A i \in Input : Serves(Top(t), i) => target[i] = NoOutput \/ \E d \in C : Serves(d, i)
  OBVIOUS
<1> HIDE DEF C
<1> QED BY <1>1, <1>2, UnmovedDemands

\* checkAddSched, up to the queue, and the end of a handler.
LEMMA DecidingDemands ==
    ASSUME NEW above, DInv(above), NEW t \in Thread,
           \/ CheckAddSched(t) \/ Conditions(t) \/ EnsureValidInput(t) \/ SetExecQueued(t)
           \/ AddJob(t) \/ MessageHandled(t)
    PROVE  Demanding'
<1> DEFINE c == Top(t)
<1>1. /\ TypeOK
      /\ calls[t] # <<>>
      /\ c.op \in {"checkAddSched", "conditions", "ensureValidInput", "setExecQueued", "addJob",
                    "onMessage"}
      /\ c \in Frame
      /\ Unmoved
  BY TopFrame
     DEF CheckAddSched, Conditions, EnsureValidInput, SetExecQueued, AddJob, MessageHandled,
         In, Top, DInv, LInv, WInv, IInv, Unmoved, graph, flags, devices
<1>2. c.op \notin LinkingOutput \cup {"clearInput"} /\ \A i \in Input : ~Serves(c, i)
  BY <1>1 DEF LinkingOutput, Serves
<1>3. CASE Return(t)
  BY <1>1, <1>2, <1>3, UnmovedReturn
<1>4. ASSUME NEW d \in Frame, Become(t, d), d.op \in Checking
      PROVE  Demanding'
  <2>1. d.op \notin Linking \cup Clearing \cup Unlinking
    BY <1>4 DEF Checking, Linking, Clearing, Unlinking
  <2> QED BY <1>1, <1>2, <1>4, <2>1, UnmovedBecome
<1>5. ASSUME NEW f \in Checking, Become(t, [c EXCEPT !.op = f])
      PROVE  Demanding'
  <2> DEFINE d == [c EXCEPT !.op = f]
  <2>1. d \in Frame /\ d.op = f
    BY <1>1 DEF Frame, Operations, Checking
  <2> HIDE DEF d
  <2> QED BY <1>4, <1>5, <2>1 DEF d
<1>6. ASSUME NEW I \in SUBSET Input,
             Become(t, [c EXCEPT !.op = "refuse", !.outs = {target[i] : i \in I} \ {NoOutput}])
      PROVE  Demanding'
  <2> DEFINE parents == {target[i] : i \in I} \ {NoOutput}
             d == [c EXCEPT !.op = "refuse", !.outs = parents]
  <2>1. Become(t, d)
    BY <1>6
  <2>2. parents \subseteq Output /\ "refuse" \in Operations
    BY <1>1 DEF TypeOK, Operations
  <2> HIDE DEF parents
  <2>3. d \in Frame /\ d.op = "refuse" /\ "refuse" \in Checking
    BY <1>1, <2>2 DEF Frame, Checking
  <2>4. d.op \in Checking
    BY <2>3, Zenon
  <2>5. d \in Frame
    BY <2>3
  <2> HIDE DEF d
  <2> QED BY <1>4, <2>1, <2>4, <2>5, Zenon
<1>7. CASE EnsureValidInput(t)
  <2> DEFINE invalid == {i \in InputsOf(c.node) \ Optional : ~Valid(i)}
  <2>1. invalid \in SUBSET Input
    BY DEF InputsOf
  <2>2. \/ Become(t, [c EXCEPT !.op = "setExecQueued"])
        \/ Become(t, [c EXCEPT !.op = "refuse", !.outs = {target[i] : i \in invalid} \ {NoOutput}])
    BY <1>7, Zenon DEF EnsureValidInput
  <2>3. "setExecQueued" \in Checking
    BY DEF Checking
  <2> HIDE DEF invalid
  <2> QED BY <1>5, <1>6, <2>1, <2>2, <2>3, Zenon
<1> QED BY <1>3, <1>5, <1>7
        DEF CheckAddSched, Conditions, SetExecQueued, AddJob, MessageHandled, Checking

\* Loops over links hand each one to a call.
LEMMA LoopDemands ==
    ASSUME NEW above, DInv(above), NEW t \in Thread, DemandEach(t) \/ NotifyEach(t)
    PROVE  Demanding'
<1> DEFINE c == Top(t)
<1>1. /\ TypeOK
      /\ calls[t] # <<>>
      /\ c.op \in {"demandEach", "refuse", "notifyEach"}
      /\ c \in Frame
      /\ c.outs \subseteq Output
      /\ c.ins \subseteq Input
      /\ Unmoved
  BY TopFrame DEF DemandEach, NotifyEach, In, Top, DInv, LInv, WInv, IInv, Unmoved, graph, flags, devices
<1>2. c.op \notin LinkingOutput \cup {"clearInput"}
  BY <1>1 DEF LinkingOutput
<1>3. CASE Return(t) /\ c.op \in {"demandEach", "refuse"} /\ c.outs = {}
  <2>1. \A i \in Input : ~Serves(c, i)
    BY <1>3 DEF Serves
  <2> QED BY <1>1, <1>2, <1>3, <2>1, UnmovedReturn
<1>4. CASE Return(t) /\ c.op = "notifyEach" /\ c.ins = {}
  <2>1. \A i \in Input : ~Serves(c, i)
    BY <1>4 DEF Serves
  <2> QED BY <1>1, <1>2, <1>4, <2>1, UnmovedReturn
<1>5. ASSUME c.op \in {"demandEach", "refuse"}, NEW o \in c.outs,
             calls' = [calls EXCEPT ![t] = <<Demand(o), [c EXCEPT !.outs = @ \ {o}]>> \o Tail(@)]
      PROVE  Demanding'
  <2> DEFINE e == Demand(o)
             d == [c EXCEPT !.outs = @ \ {o}]
             C == {e, d}
  <2>1. d \in Frame /\ d.op = c.op /\ d.outs = c.outs \ {o}
    BY <1>1 DEF Frame
  <2>2. e \in Frame /\ e.op = "setNewOutputDemanded" /\ e.outs = {o}
    BY <1>1, DemandFrame DEF Demand, Call
  <2>3. calls' = [calls EXCEPT ![t] = <<e, d>> \o Tail(@)]
    BY <1>5
  <2> HIDE DEF d, e
  <2>4. Swaps(t, C)
    BY <1>1, <2>1, <2>2, <2>3, SwapsLoop
  <2>5. \A i \in Input : Serves(c, i) => Serves(d, i) \/ Serves(e, i)
    BY <1>5, <2>1, <2>2 DEF Serves
  <2>6. d.op \notin Linking \cup Clearing \cup Unlinking /\ e.op \notin Linking \cup Clearing \cup Unlinking
    BY <1>5, <2>1, <2>2 DEF Linking, Clearing, Unlinking
  <2>7. /\ \A x \in C : x.op \notin Linking \cup Clearing
        /\ \A x \in C : x.op \in Unlinking => x.node \in Removable
        /\ \A i \in Input : Serves(c, i) => \E x \in C : Serves(x, i)
    BY <2>5, <2>6
  <2> HIDE DEF C
  <2> QED BY <1>1, <1>2, <2>4, <2>7, UnmovedDemands
<1>6. ASSUME c.op = "notifyEach", NEW j \in c.ins,
             calls' = [calls EXCEPT ![t] = <<NewInput(j), [c EXCEPT !.ins = @ \ {j}]>> \o Tail(@)]
      PROVE  Demanding'
  <2> DEFINE e == NewInput(j)
             d == [c EXCEPT !.ins = @ \ {j}]
             C == {e, d}
  <2>1. d \in Frame /\ d.op = c.op /\ d.ins = c.ins \ {j}
    BY <1>1 DEF Frame
  <2>2. e \in Frame /\ e.op = "setNewInput" /\ e.ins = {j}
    BY <1>1, NewInputFrame DEF NewInput, Call
  <2>3. calls' = [calls EXCEPT ![t] = <<e, d>> \o Tail(@)]
    BY <1>6
  <2> HIDE DEF d, e
  <2>4. Swaps(t, C)
    BY <1>1, <2>1, <2>2, <2>3, SwapsLoop
  <2>5. \A i \in Input : Serves(c, i) => Serves(d, i) \/ Serves(e, i)
    BY <1>6, <2>1, <2>2 DEF Serves
  <2>6. d.op \notin Linking \cup Clearing \cup Unlinking /\ e.op \notin Linking \cup Clearing \cup Unlinking
    BY <1>6, <2>1, <2>2 DEF Linking, Clearing, Unlinking
  <2>7. /\ \A x \in C : x.op \notin Linking \cup Clearing
        /\ \A x \in C : x.op \in Unlinking => x.node \in Removable
        /\ \A i \in Input : Serves(c, i) => \E x \in C : Serves(x, i)
    BY <2>5, <2>6
  <2> HIDE DEF C
  <2> QED BY <1>1, <1>2, <2>4, <2>7, UnmovedDemands
<1> QED BY <1>1, <1>3, <1>4, <1>5, <1>6 DEF DemandEach, NotifyEach, In, Top

\* Calls that note a demand or an input, or allow a node on the queue.
LEMMA NotingDemands ==
    ASSUME NEW above, DInv(above), NEW t \in Thread,
           \/ DemandNewParentInput(t) \/ SetNewOutputDemanded(t)
           \/ SetNewInput(t) \/ SetAllowQueue(t) \/ AllowNode(t)
    PROVE  Demanding'
<1> DEFINE c == Top(t)
<1>1. /\ TypeOK
      /\ calls[t] # <<>>
      /\ c.op \in {"demandNewParentInput", "setNewOutputDemanded", "setNewInput",
                    "setAllowQueue", "allowNode"}
      /\ c \in Frame /\ c.node \in Node
      /\ UNCHANGED <<exec, armed, links, target>>
      /\ Allowed
  BY TopFrame
     DEF DemandNewParentInput, SetNewOutputDemanded, SetNewInput, SetAllowQueue, AllowNode, In, Top,
         DInv, LInv, WInv, IInv, Demanding, graph, flags, devices
<1>2. c.op \notin LinkingOutput \cup {"clearInput"}
  BY <1>1 DEF LinkingOutput
<1>3. CASE DemandNewParentInput(t)
  <2> DEFINE O == {target[i] : i \in InputsOf(c.node)} \ {NoOutput}
             d == [Call("demandEach", c.node) EXCEPT !.outs = O]
  <2>0. Become(t, d) /\ c.op = "demandNewParentInput" /\ Unmoved
    BY <1>3 DEF DemandNewParentInput, In, Top, Unmoved, graph, flags, devices
  <2>1. O \subseteq Output
    BY <1>1 DEF TypeOK, InputsOf
  <2>2. \A i \in Input : c.node = InputOf[i] => target[i] = NoOutput \/ target[i] \in O
    BY DEF InputsOf
  <2> HIDE DEF O
  <2>3. d \in Frame /\ d.op = "demandEach" /\ d.outs = O
    BY <1>1, <2>1 DEF Call, Frame, Operations, Modes
  <2> HIDE DEF d
  <2>4. \A i \in Input : Serves(c, i) => target[i] = NoOutput \/ Serves(d, i)
    BY <2>0, <2>2, <2>3 DEF Serves
  <2>5. d.op \notin Linking \cup Clearing \cup Unlinking
    BY <2>3 DEF Linking, Clearing, Unlinking
  <2> QED BY <1>1, <1>2, <2>0, <2>3, <2>4, <2>5, UnmovedBecome
<1>4. ASSUME Become(t, Check(c.node, "AllNew")), Allowed', demanded \subseteq demanded',
             \A i \in Input : status'[i] \in {status[i], "New"},
             \A i \in Input : Serves(c, i) => status'[i] = "New" \/ target[i] \in demanded'
      PROVE  Demanding'
  <2> DEFINE d == Check(c.node, "AllNew")
             C == {d}
  <2>1. d \in Frame /\ d.op = "checkAddSched"
    BY <1>1, CheckFrame DEF Modes, Check, Call
  <2>2. Become(t, d)
    BY <1>4
  <2> HIDE DEF d
  <2>3. Swaps(t, C)
    BY <1>1, <2>1, <2>2, SwapsBecome
  <2>4. \A x \in C : x.op \notin Linking \cup Clearing /\ (x.op \in Unlinking => x.node \in Removable)
    BY <2>1 DEF Linking, Clearing, Unlinking
  <2> HIDE DEF C
  <2>5. \A i \in Input : Serves(c, i) => Instead(C, i)
    BY <1>4 DEF Instead
  <2> QED BY <1>1, <1>2, <1>4, <2>3, <2>4, <2>5, CallDemands
<1>5. CASE SetNewOutputDemanded(t)
  <2>1. /\ Become(t, Check(c.node, "AllNew"))
        /\ c.op = "setNewOutputDemanded"
        /\ demanded' = demanded \cup c.outs
        /\ Allowed'
        /\ status' = status
    BY <1>1, <1>5 DEF SetNewOutputDemanded, In, Top, Allowed
  <2>2. \A i \in Input : Serves(c, i) => target[i] \in demanded'
    BY <2>1 DEF Serves
  <2> QED BY <1>4, <2>1, <2>2
<1>6. CASE SetNewInput(t)
  <2>1. /\ Become(t, Check(c.node, "AllNew"))
        /\ c.op = "setNewInput"
        /\ demanded' = demanded
        /\ Allowed'
        /\ \A i \in Input : status'[i] = IF i \in c.ins THEN "New" ELSE status[i]
    BY <1>1, <1>6 DEF SetNewInput, In, Top, Allowed, flags
  <2>2. \A i \in Input : Serves(c, i) => i \in c.ins
    BY <2>1 DEF Serves
  <2> QED BY <1>4, <2>1, <2>2
<1>7. CASE AllowNode(t)
  <2>1. /\ Become(t, Check(c.node, "AllNew"))
        /\ c.op = "allowNode"
        /\ demanded' = demanded
        /\ allowQueue' = allowQueue \cup {c.node}
        /\ status' = status
    BY <1>1, <1>7 DEF AllowNode, In, Top
  <2>2. Allowed'
    BY <1>1, <2>1 DEF Allowed
  <2>3. \A i \in Input : ~Serves(c, i)
    BY <2>1 DEF Serves
  <2> QED BY <1>4, <2>1, <2>2, <2>3
<1>8. CASE SetAllowQueue(t)
  <2> DEFINE d == [c EXCEPT !.op = "allowNode"]
  <2>1. Become(t, d) /\ c.op = "setAllowQueue" /\ Unmoved
    BY <1>8 DEF SetAllowQueue, In, Top, Unmoved, graph, flags, devices
  <2>2. d \in Frame /\ d.op = "allowNode"
    BY <1>1 DEF Frame, Operations
  <2> HIDE DEF d
  <2>3. (\A i \in Input : ~Serves(c, i)) /\ d.op \notin Linking \cup Clearing \cup Unlinking
    BY <2>1, <2>2 DEF Serves, Linking, Clearing, Unlinking
  <2> QED BY <1>1, <1>2, <2>1, <2>2, <2>3, UnmovedBecome
<1> QED BY <1>3, <1>5, <1>6, <1>7, <1>8

\* Removal of a node cuts no arc that is in the pipeline to stay.
LEMMA UnlinkingDemands ==
    ASSUME NEW above, Steady(above), DInv(above), NEW t \in Thread,
           UnlinkParents(t) \/ UnlinkChildren(t) \/ ClearOutputs(t) \/ ClearInputs(t)
    PROVE  Demanding'
<1> DEFINE c == Top(t)
<1>1. /\ TypeOK
      /\ calls[t] # <<>>
      /\ c.op \in Unlinking
      /\ c \in Frame /\ c.node \in Node
      /\ UNCHANGED <<exec, armed, demanded, status, allowQueue>>
      /\ Allowed
  BY TopFrame
     DEF UnlinkParents, UnlinkChildren, ClearOutputs, ClearInputs, In, Top, Unlinking,
         DInv, LInv, WInv, IInv, Demanding, flags, devices
<1>2. c.op \notin LinkingOutput \cup {"clearInput"} /\ \A i \in Input : ~Serves(c, i)
  BY <1>1 DEF LinkingOutput, Unlinking, Serves
<1>3. c.node \in Removable
  BY <1>1, TopIsOpen DEF DInv, Demanding, HandlerOK
<1>4. \A i \in Wired : InputOf[i] # c.node /\ OutputOf[Wire[i]] # c.node /\ Wire[i] \in Output /\ i \in Input
  BY <1>3, WiringAssumption DEF Steady, Parent, Wired
<1>5. \A i \in Wired : i \in links[Wire[i]] => i \in links'[Wire[i]]
  <2>1. CASE UNCHANGED links
    BY <2>1
  <2>2. CASE UnlinkParents(t)
    <3>1. ASSUME NEW o \in Output,
                 links' = [p \in Output |-> IF OutputOf[p] = OutputOf[o]
                                            THEN links[p] \ InputsOf(c.node) ELSE links[p]]
          PROVE  \A i \in Wired : i \in links[Wire[i]] => i \in links'[Wire[i]]
      BY <1>4, <3>1 DEF InputsOf
    <3>2. c.outs \subseteq Output
      BY <1>1, TopFrame DEF Frame
    <3> QED BY <2>1, <2>2, <3>1, <3>2 DEF UnlinkParents
  <2>3. CASE ClearOutputs(t)
    BY <1>4, <2>3 DEF ClearOutputs
  <2> QED BY <2>1, <2>2, <2>3 DEF UnlinkChildren, ClearInputs
<1>6. \A i \in Input : target'[i] \in {target[i], NoOutput}
  BY DEF UnlinkParents, UnlinkChildren, ClearOutputs, ClearInputs
<1>7. ASSUME NEW C, Swaps(t, C), \A x \in C : x.op \in Unlinking /\ x.node = c.node PROVE Demanding'
  <2>1. \A x \in C : x.op \notin Linking \cup Clearing
    BY <1>7 DEF Linking, Clearing, Unlinking
  <2>2. Allowed'
    BY <1>1 DEF Allowed
  <2>3. \A x \in C : x.op \in Unlinking => x.node \in Removable
    BY <1>3, <1>7
  <2> QED BY <1>1, <1>2, <1>5, <1>6, <1>7, <2>1, <2>2, <2>3, CallDemands
<1>8. CASE Return(t)
  <2> DEFINE C == {}
  <2>1. Swaps(t, C) /\ \A x \in C : x.op \in Unlinking /\ x.node = c.node
    BY <1>1, <1>8, SwapsReturn
  <2> HIDE DEF C
  <2> QED BY <1>7, <2>1
<1>9. ASSUME NEW d \in Frame, Become(t, d), d.op \in Unlinking, d.node = c.node PROVE Demanding'
  <2> DEFINE C == {d}
  <2>1. Swaps(t, C) /\ \A x \in C : x.op \in Unlinking /\ x.node = c.node
    BY <1>1, <1>9, SwapsBecome
  <2> HIDE DEF C
  <2> QED BY <1>7, <2>1
<1>10. ASSUME NEW f \in {"unlinkChildren", "clearOutputs", "clearInputs"}, Become(t, [c EXCEPT !.op = f])
       PROVE  Demanding'
  <2> DEFINE d == [c EXCEPT !.op = f]
  <2>1. d \in Frame /\ d.op \in Unlinking /\ d.node = c.node
    BY <1>1 DEF Frame, Operations, Unlinking
  <2>2. Become(t, d)
    BY <1>10
  <2> HIDE DEF d
  <2> QED BY <1>9, <2>1, <2>2
<1>11. ASSUME NEW O, Become(t, [c EXCEPT !.outs = @ \ O]) PROVE Demanding'
  <2> DEFINE d == [c EXCEPT !.outs = @ \ O]
  <2>1. d \in Frame /\ d.op \in Unlinking /\ d.node = c.node
    BY <1>1 DEF Frame
  <2>2. Become(t, d)
    BY <1>11
  <2> HIDE DEF d
  <2> QED BY <1>9, <2>1, <2>2
<1>12. ASSUME NEW I, Become(t, [c EXCEPT !.ins = @ \ I]) PROVE Demanding'
  <2> DEFINE d == [c EXCEPT !.ins = @ \ I]
  <2>1. d \in Frame /\ d.op \in Unlinking /\ d.node = c.node
    BY <1>1 DEF Frame
  <2>2. Become(t, d)
    BY <1>12
  <2> HIDE DEF d
  <2> QED BY <1>9, <2>1, <2>2
<1> QED BY <1>8, <1>10, <1>11, <1>12 DEF UnlinkParents, UnlinkChildren, ClearOutputs, ClearInputs

\* Only the mailbox thread links or cuts, and it does one after the other.
LEMMA Handlers ==
    ASSUME NEW above, DInv(above), NEW c \in Open, c.op \in Linking \cup Clearing
    PROVE  /\ c \in CallsIn(calls[Mailbox])
           /\ calls[Mailbox] # <<>>
           /\ c.op \in LinkingOutput => c = Top(Mailbox)
<1>1. PICK t \in Thread : c \in CallsIn(calls[t])
  BY DEF Open
<1>2. ThreadOK(above, t)
  BY DEF DInv, LInv, AllClimb
<1>3. t = Mailbox
  BY <1>1, <1>2 DEF ThreadOK, FrameOK
<1>4. PICK k \in DOMAIN calls[Mailbox] : calls[Mailbox][k] = c
  BY <1>1, <1>3 DEF CallsIn
<1>5. calls[Mailbox] # <<>>
  BY <1>4
<1>6. c.op \in LinkingOutput => k = 1
  BY <1>2, <1>3, <1>4 DEF ThreadOK, Climbs
<1> QED BY <1>1, <1>3, <1>4, <1>5, <1>6 DEF Top

\* Links and handlers, in a step of the mailbox thread that links an arc.
LEMMA LinkingDemands ==
    ASSUME NEW above, DInv(above), NEW t \in Thread, SetOutput(t) \/ LinkOutput(t) \/ SetInput(t)
    PROVE  Demanding'
<1> DEFINE c == Top(t)
<1>1. /\ TypeOK
      /\ calls[t] # <<>>
      /\ c.op \in Linking
      /\ c \in Frame /\ c \in Open
      /\ c.ins \subseteq Input
      /\ UNCHANGED <<exec, armed, demanded, allowQueue>>
      /\ Allowed'
  BY TopFrame, TopIsOpen
     DEF SetOutput, LinkOutput, SetInput, In, Top, Linking,
         DInv, LInv, WInv, IInv, Demanding, Allowed, flags, devices
<1>2. t = Mailbox
  <2>1. ThreadOK(above, t) /\ c \in CallsIn(calls[t])
    BY <1>1, LockFacts DEF DInv
  <2> QED BY <1>1, <2>1 DEF ThreadOK, FrameOK
<1>3. HandlerOK(c) /\ \A d \in Open : d.op \notin Clearing
  <2>1. HandlerOK(c)
    BY <1>1 DEF DInv, Demanding
  <2> QED BY <1>1, <2>1 DEF HandlerOK
<1>4. \A i \in Input : target[i] # NoOutput => i \in links[Wire[i]]
  <2>1. \A i : ~Leaving(i)
    BY <1>3 DEF Leaving, Clearing
  <2> QED BY <2>1 DEF DInv, Demanding, Known
<1>5. ASSUME NEW C, Swaps(t, C), \A d \in C : d.op \notin Clearing \cup Unlinking \cup {"setInput"},
             \A i \in Input : target'[i] # NoOutput => i \in links'[Wire[i]],
             \A d \in Open' : d.op = "setInput" => \A i \in d.ins :
                i \in links'[Wire[i]] \/ \E e \in Open' : e.op \in LinkingOutput /\ i \in e.ins
      PROVE  (\A i \in Input : Known(i))' /\ (\A d \in Open : HandlerOK(d))'
  <2>1. (\A i \in Input : Known(i))'
    BY <1>5 DEF Known
  <2>2. \A d \in Open' : d.op \notin Clearing
    BY <1>3, <1>5 DEF Swaps
  <2>3. ASSUME NEW d \in Open' PROVE HandlerOK(d)'
    <3>1. d.op # "clearOutput"
      BY <2>2 DEF Clearing
    <3>2. d.op = "setInput" => d \in Open /\ \A i \in d.ins : i \in Wired
      BY <1>5 DEF Swaps, DInv, Demanding, HandlerOK
    <3>3. d.op \in Unlinking => d.node \in Removable
      BY <1>5 DEF Swaps, DInv, Demanding, HandlerOK
    <3> QED BY <1>5, <2>2, <3>1, <3>2, <3>3 DEF HandlerOK, Wired
  <2> QED BY <2>1, <2>3
<1>6. CASE SetOutput(t)
  <2> DEFINE d == [c EXCEPT !.op = "linkOutput"]
             C == {d}
  <2>1. Become(t, d) /\ UNCHANGED <<target, links, status>> /\ c.op = "setOutput"
    BY <1>6 DEF SetOutput, graph, In, Top
  <2>2. d \in Frame /\ d.op = "linkOutput" /\ d.ins = c.ins
    BY <1>1 DEF Frame, Operations
  <2> HIDE DEF d
  <2>3. Swaps(t, C)
    BY <1>1, <2>1, <2>2, SwapsBecome
  <2>4. \A i \in Input : ~Serves(c, i)
    BY <2>1 DEF Serves
  <2>5. \A i \in Input : LookedAfter(i)'
    <3> HIDE DEF C
    <3> QED BY <1>1, <2>1, <2>3, <2>4, CallLooks
  <2>6. \A e \in C : e.op \notin Clearing \cup Unlinking \cup {"setInput"}
    BY <2>2 DEF Clearing, Unlinking
  <2>7. ASSUME NEW e \in Open', e.op = "setInput", NEW i \in e.ins
        PROVE  i \in links'[Wire[i]] \/ \E x \in Open' : x.op \in LinkingOutput /\ i \in x.ins
    <3>1. e \in Open
      BY <2>3, <2>6, <2>7 DEF Swaps
    <3>2. i \in links[Wire[i]] \/ \E x \in Open : x.op \in LinkingOutput /\ i \in x.ins
      BY <2>7, <3>1 DEF DInv, Demanding, HandlerOK
    <3>3. d \in Open' /\ d.op \in LinkingOutput
      BY <2>2, <2>3 DEF Swaps, LinkingOutput
    <3> QED BY <2>1, <2>2, <2>3, <3>2, <3>3 DEF Swaps
  <2> HIDE DEF C
  <2>8. (\A i \in Input : Known(i))' /\ (\A e \in Open : HandlerOK(e))'
    BY <1>4, <1>5, <2>1, <2>3, <2>6, <2>7
  <2> QED BY <1>1, <2>5, <2>8 DEF Demanding, Allowed
<1>7. CASE LinkOutput(t)
  <2> DEFINE C == {}
  <2>1. /\ Return(t) /\ UNCHANGED <<target, status>> /\ c.op = "linkOutput"
        /\ links' = [o \in Output |-> links[o] \cup {i \in c.ins : Wire[i] = o}]
    BY <1>7 DEF LinkOutput, In, Top
  <2>3. Swaps(t, C)
    BY <1>1, <2>1, SwapsReturn
  <2>4. \A i \in Input : ~Serves(c, i)
    BY <2>1 DEF Serves
  <2>5. \A i \in Input : LookedAfter(i)'
    <3> HIDE DEF C
    <3> QED BY <1>1, <2>1, <2>3, <2>4, CallLooks
  <2>6. \A i \in Wired : Wire[i] \in Output
    BY WiringAssumption DEF Wired
  <2>7. ASSUME NEW e \in Open', e.op = "setInput", NEW i \in e.ins
        PROVE  i \in links'[Wire[i]] \/ \E x \in Open' : x.op \in LinkingOutput /\ i \in x.ins
    <3>1. e \in Open
      BY <2>3 DEF Swaps
    <3>2. i \in Wired /\ (i \in links[Wire[i]] \/ \E x \in Open : x.op \in LinkingOutput /\ i \in x.ins)
      BY <2>7, <3>1 DEF DInv, Demanding, HandlerOK
    <3>3. i \in links[Wire[i]] \/ i \in c.ins => i \in links'[Wire[i]]
      BY <2>1, <2>6, <3>2
    <3> QED BY <2>3, <3>2, <3>3 DEF Swaps
  <2>8. \A i \in Input : target'[i] # NoOutput => i \in links'[Wire[i]]
    <3>1. \A i \in Input : target[i] # NoOutput => i \in Wired
      BY DEF DInv, LInv, TargetsWired, Wired
    <3> QED BY <1>4, <2>1, <2>6, <3>1
  <2>9. \A e \in C : e.op \notin Clearing \cup Unlinking \cup {"setInput"}
    OBVIOUS
  <2> HIDE DEF C
  <2>10. (\A i \in Input : Known(i))' /\ (\A e \in Open : HandlerOK(e))'
    BY <1>5, <2>3, <2>7, <2>8, <2>9
  <2> QED BY <1>1, <2>5, <2>10 DEF Demanding, Allowed
<1>8. CASE SetInput(t)
  <2> DEFINE d == [c EXCEPT !.op = "setNewInput"]
             C == {d}
  <2>1. /\ Become(t, d) /\ UNCHANGED links /\ c.op = "setInput"
        /\ \A i \in Input : target'[i] = IF i \in c.ins THEN Wire[i] ELSE target[i]
        /\ \A i \in Input : status'[i] = IF i \in c.ins THEN "Old" ELSE status[i]
    BY <1>8 DEF SetInput, In, Top
  <2>2. d \in Frame /\ d.op = "setNewInput" /\ d.ins = c.ins
    BY <1>1 DEF Frame, Operations
  <2> HIDE DEF d
  <2>3. Swaps(t, C)
    BY <1>1, <2>1, <2>2, SwapsBecome
  <2>4. ASSUME NEW i \in Input PROVE LookedAfter(i)'
    <3>1. CASE i \in c.ins
      <4>1. PICK x \in Open' : x.op = "setNewInput" /\ i \in x.ins
        BY <2>2, <2>3, <3>1 DEF Swaps
      <4>2. Serves(x, i)'
        BY <4>1 DEF Serves
      <4> QED BY <4>1, <4>2 DEF LookedAfter, Owed
    <3>2. CASE i \notin c.ins
      <4>1. ~Serves(c, i)
        BY <2>1, <3>2 DEF Serves
      <4> HIDE DEF C
      <4> QED BY <1>1, <2>1, <2>3, <3>2, <4>1, CallLooks
    <3> QED BY <3>1, <3>2
  <2>5. \A e \in Open : e.op \notin LinkingOutput
    <3>1. c.op \notin LinkingOutput
      BY <2>1 DEF LinkingOutput
    <3> QED BY <1>2, <3>1, Handlers DEF Linking, LinkingOutput
  <2>6. \A e \in Open : e.op = "setInput" => \A i \in e.ins : i \in links[Wire[i]]
    BY <2>5 DEF DInv, Demanding, HandlerOK
  <2>7. \A e \in C : e.op \notin Clearing \cup Unlinking \cup {"setInput"}
    BY <2>2 DEF Clearing, Unlinking
  <2>8. \A e \in Open' : e.op = "setInput" => \A i \in e.ins : i \in links'[Wire[i]]
    BY <2>1, <2>3, <2>6, <2>7 DEF Swaps
  <2>9. \A i \in Input : target'[i] # NoOutput => i \in links'[Wire[i]]
    BY <1>1, <1>4, <2>1, <2>6
  <2> HIDE DEF C
  <2>10. (\A i \in Input : Known(i))' /\ (\A e \in Open : HandlerOK(e))'
    BY <1>5, <2>3, <2>7, <2>8, <2>9
  <2> QED BY <1>1, <2>4, <2>10 DEF Demanding, Allowed
<1> QED BY <1>6, <1>7, <1>8

\* An arc is cut on its parent's side while the handler has the child's to cut.
LEMMA ClearingDemands ==
    ASSUME NEW above, DInv(above), NEW t \in Thread, ClearOutput(t) \/ ClearInput(t)
    PROVE  Demanding'
<1> DEFINE c == Top(t)
           C == {}
<1>1. /\ TypeOK
      /\ calls[t] # <<>>
      /\ c.op \in Clearing
      /\ c \in Open
      /\ Return(t)
      /\ UNCHANGED <<exec, armed, demanded, status, allowQueue>>
      /\ Allowed'
  BY TopIsOpen
     DEF ClearOutput, ClearInput, In, Top, Clearing,
         DInv, LInv, WInv, IInv, Demanding, Allowed, flags, devices
<1>2. Swaps(t, C)
  BY <1>1, SwapsReturn
<1>3. \A d \in Open' : d \in Open
  BY <1>2 DEF Swaps
<1>4. \A d \in Open : d.op \notin Linking /\ d.op # "setInput"
  <2>1. \A d \in Open : HandlerOK(d)
    BY DEF DInv, Demanding
  <2> QED BY <1>1, <2>1 DEF HandlerOK, Linking
<1>5. \A i \in Input : target'[i] \in {target[i], NoOutput}
  BY DEF ClearOutput, ClearInput
<1>6. \A i \in Input : Leaving(i) => Leaving(i)' \/ target'[i] = NoOutput
  <2> SUFFICES ASSUME NEW i \in Input, Leaving(i) PROVE Leaving(i)' \/ target'[i] = NoOutput
    OBVIOUS
  <2>1. PICK d \in Open : d.op = "clearInput" /\ i \in d.ins
    BY DEF Leaving
  <2>2. CASE d = c
    BY <2>1, <2>2 DEF ClearOutput, ClearInput, In, Top
  <2>3. CASE d # c
    BY <1>2, <2>1, <2>3 DEF Swaps, Leaving
  <2> QED BY <2>2, <2>3
<1>7. \A i \in Input : Known(i)'
  <2> SUFFICES ASSUME NEW i \in Input, target'[i] # NoOutput PROVE i \in links'[Wire[i]] \/ Leaving(i)'
    BY DEF Known
  <2>1. target'[i] = target[i] /\ i \in Wired
    BY <1>5 DEF DInv, LInv, TargetsWired, Wired
  <2>2. i \in links[Wire[i]] \/ Leaving(i)
    BY <2>1 DEF DInv, Demanding, Known
  <2>3. i \in links'[Wire[i]] \/ i \notin links[Wire[i]] \/ Leaving(i)
    <3>1. CASE ClearInput(t)
      BY <3>1 DEF ClearInput
    <3>2. CASE ClearOutput(t)
      <4>1. HandlerOK(c) /\ c.op = "clearOutput"
        BY <1>1, <3>2 DEF DInv, Demanding, ClearOutput, In, Top
      <4>2. i \in c.ins => Leaving(i)
        BY <2>1, <4>1 DEF HandlerOK
      <4>3. Wire[i] \in Output
        BY <2>1, WiringAssumption DEF Wired
      <4>4. links'[Wire[i]] \in {links[Wire[i]] \ c.ins, links[Wire[i]]}
        BY <3>2, <4>3 DEF ClearOutput
      <4> QED BY <4>2, <4>4
    <3> QED BY <3>1, <3>2
  <2> QED BY <1>6, <2>2, <2>3
<1>8. ASSUME NEW d \in Open' PROVE HandlerOK(d)'
  <2>1. HandlerOK(d) /\ d.op \notin Linking /\ d.op # "setInput" /\ d.ins \subseteq Input
    BY <1>1, <1>3, <1>4, OpenFacts DEF DInv, Demanding
  <2>2. d.op = "clearOutput" => \A i \in d.ins : Leaving(i)' \/ target'[i] = NoOutput
    BY <1>5, <1>6, <2>1 DEF HandlerOK
  <2> QED BY <2>1, <2>2 DEF HandlerOK
<1>9. ASSUME NEW i \in Input PROVE LookedAfter(i)'
  <2>1. Serves(c, i) => target'[i] = NoOutput
    BY DEF ClearOutput, ClearInput, In, Top, Serves
  <2>2. Serves(c, i) => Instead(C, i)
    BY <2>1 DEF Instead
  <2> HIDE DEF C
  <2> QED BY <1>1, <1>2, <1>5, <2>2, CallLooks
<1> QED BY <1>1, <1>7, <1>8, <1>9 DEF Demanding, Allowed

\* The mailbox thread is given a message, or a timer goes off.
LEMMA StartDemands ==
    ASSUME NEW above, Steady(above), DInv(above), StartStep
    PROVE  Demanding'
<1>1. TypeOK /\ Mailbox \in Thread /\ Allowed
  BY ThreadFacts DEF DInv, LInv, WInv, IInv, Demanding, Allowed
<1>2. calls[Mailbox] = <<>> => \A c \in Open : c.op \notin Linking \cup Clearing
  BY Handlers
<1>3. ASSUME calls[Mailbox] = <<>>, NEW c \in Frame, Enter(Mailbox, c),
             c.op \notin Linking \cup Clearing, c.op \in Unlinking => c.node \in Removable,
             UNCHANGED <<exec, armed, links, target, demanded, allowQueue>>,
             \A i \in Input : status'[i] \in {status[i], "New"}
      PROVE  Demanding'
  <2> DEFINE C == {c}
  <2>1. Swaps(Mailbox, C) /\ \A d \in C : d.op \notin Linking \cup Clearing /\ (d.op \in Unlinking => d.node \in Removable)
    BY <1>1, <1>3, SwapsEnter
  <2> HIDE DEF C
  <2>2. Allowed'
    BY <1>1, <1>3 DEF Allowed
  <2> QED BY <1>1, <1>3, <2>1, <2>2, CallDemands
<1>4. ASSUME NEW i \in Input, AddArc(i) PROVE Demanding'
  <2> DEFINE c == LinkParent(i)
             d == LinkInput(i)
             C == {c, d}
  <2>1. /\ c \in Frame /\ d \in Frame
        /\ i \in Wired /\ calls[Mailbox] = <<>>
        /\ calls' = [calls EXCEPT ![Mailbox] = <<c, d>>]
        /\ UNCHANGED <<exec, armed, links, target, status, demanded, allowQueue>>
    BY <1>4, LinkFrames DEF AddArc, graph, flags, devices, Wired, Steady
  <2>2. c.op = "setOutput" /\ c.ins = {i} /\ d.op = "setInput" /\ d.ins = {i}
    BY DEF LinkParent, LinkInput, Call
  <2> HIDE DEF c, d
  <2>3. Swaps(Mailbox, C)
    BY <1>1, <2>1, SwapsEnterTwo
  <2>4. \A j \in Input : Leaving(j) => Leaving(j)'
    BY <2>1, <2>3 DEF Swaps, Leaving
  <2>5. \A e \in Open' : e.op \notin Clearing
    BY <1>2, <2>1, <2>2, <2>3 DEF Swaps, Clearing
  <2>6. c \in Open' /\ c.op \in LinkingOutput
    BY <2>2, <2>3 DEF Swaps, LinkingOutput
  <2>7. ASSUME NEW e \in Open' PROVE HandlerOK(e)'
    <3>1. e.op # "clearOutput"
      BY <2>5 DEF Clearing
    <3>2. e.op = "setInput" => e = d
      BY <1>2, <2>1, <2>2, <2>3 DEF Swaps, Linking
    <3>3. e.op \in Unlinking => e \in Open
      BY <2>2, <2>3 DEF Swaps, Unlinking
    <3>4. e.op \in Unlinking => e.node \in Removable
      BY <3>3 DEF DInv, Demanding, HandlerOK
    <3>5. e.op = "setInput" => \A j \in e.ins : j \in Wired /\ \E x \in Open' : x.op \in LinkingOutput /\ j \in x.ins
      BY <2>1, <2>2, <2>6, <3>2
    <3> QED BY <2>5, <3>1, <3>4, <3>5 DEF HandlerOK, Wired
  <2>8. (\A j \in Input : Known(j))'
    BY <2>1, <2>4 DEF DInv, Demanding, Known
  <2> HIDE DEF C
  <2>9. \A j \in Input : LookedAfter(j)'
    BY <1>1, <2>1, <2>3, CallLooks
  <2> QED BY <1>1, <2>1, <2>7, <2>8, <2>9 DEF Demanding, Allowed
<1>5. ASSUME NEW i \in Rewired, RemoveArc(i) PROVE Demanding'
  <2> DEFINE c == [Call("clearOutput", OutputOf[target[i]]) EXCEPT !.ins = {i}]
             d == [Call("clearInput", InputOf[i]) EXCEPT !.ins = {i}]
             C == {c, d}
  <2>1. i \in Input /\ InputOf[i] \in Node /\ OutputOf[target[i]] \in Node
    BY <1>1, <1>5, WiringAssumption DEF RemoveArc, TypeOK
  <2>2. /\ c \in Frame /\ c.op = "clearOutput" /\ c.ins = {i}
        /\ d \in Frame /\ d.op = "clearInput" /\ d.ins = {i}
        /\ calls[Mailbox] = <<>>
        /\ calls' = [calls EXCEPT ![Mailbox] = <<c, d>>]
        /\ UNCHANGED <<exec, armed, links, target, status, demanded, allowQueue>>
    BY <1>5, <2>1 DEF RemoveArc, graph, flags, devices, Call, Frame, Operations, Modes
  <2> HIDE DEF c, d
  <2>3. Swaps(Mailbox, C)
    BY <1>1, <2>2, SwapsEnterTwo
  <2>4. \A j \in Input : Leaving(j) => Leaving(j)'
    BY <2>2, <2>3 DEF Swaps, Leaving
  <2>5. Leaving(i)'
    <3>1. \E x \in Open' : x.op = "clearInput" /\ i \in x.ins
      BY <2>2, <2>3 DEF Swaps
    <3> QED BY <3>1 DEF Leaving
  <2>6. \A e \in Open' : e.op \notin Linking
    BY <1>2, <2>2, <2>3 DEF Swaps, Linking
  <2>7. ASSUME NEW e \in Open' PROVE HandlerOK(e)'
    <3>1. e.op # "setInput"
      BY <2>6 DEF Linking
    <3>2. e.op = "clearOutput" => e.ins = {i}
      BY <1>2, <2>2, <2>3 DEF Swaps, Clearing
    <3>3. e.op \in Unlinking => e \in Open
      BY <2>2, <2>3 DEF Swaps, Unlinking
    <3>4. e.op \in Unlinking => e.node \in Removable
      BY <3>3 DEF DInv, Demanding, HandlerOK
    <3>5. e.op = "clearOutput" => \A j \in e.ins : Leaving(j)' \/ target'[j] = NoOutput
      BY <2>5, <3>2
    <3> QED BY <2>6, <3>1, <3>4, <3>5 DEF HandlerOK
  <2>8. (\A j \in Input : Known(j))'
    BY <2>2, <2>4 DEF DInv, Demanding, Known
  <2> HIDE DEF C
  <2>9. \A j \in Input : LookedAfter(j)'
    BY <1>1, <2>2, <2>3, CallLooks
  <2> QED BY <1>1, <2>2, <2>7, <2>8, <2>9 DEF Demanding, Allowed
<1>6. ASSUME NEW n \in Removable, RemoveNode(n) PROVE Demanding'
  <2> DEFINE parents == {target[i] : i \in InputsOf(n)} \ {NoOutput}
             children == UNION {links[o] : o \in OutputsOf(n)}
             c == [Call("unlinkParents", n) EXCEPT !.outs = parents, !.ins = children]
  <2>1. /\ n \in Node
        /\ {target[i] : i \in InputsOf(n)} \ {NoOutput} \subseteq Output
        /\ UNION {links[o] : o \in OutputsOf(n)} \subseteq Input
    BY <1>1, NodeAssumption DEF TypeOK, InputsOf, OutputsOf
  <2>2. c \in Frame /\ c.op = "unlinkParents" /\ c.node = n
    <3>1. parents \subseteq Output /\ children \subseteq Input /\ "unlinkParents" \in Operations
      BY <2>1 DEF Operations
    <3> HIDE DEF parents, children
    <3> QED BY <2>1, <3>1 DEF Call, Frame, Modes
  <2>3. /\ calls[Mailbox] = <<>> /\ Enter(Mailbox, c)
        /\ UNCHANGED <<exec, armed, links, target, status, demanded, allowQueue>>
    BY <1>6 DEF RemoveNode, flags, devices
  <2> HIDE DEF c
  <2> QED BY <1>3, <2>2, <2>3 DEF Linking, Clearing
<1>7. ASSUME NEW i \in Settable, SetParam(i) PROVE Demanding'
  <2> DEFINE c == NewInput(i)
  <2>1. c \in Frame /\ c.op = "setNewInput"
    BY WiringAssumption, NewInputFrame DEF NewInput, Call
  <2>2. /\ calls[Mailbox] = <<>> /\ Enter(Mailbox, c)
        /\ UNCHANGED <<exec, armed, links, target, demanded, allowQueue>>
        /\ \A j \in Input : status'[j] \in {status[j], "New"}
    BY <1>1, <1>7 DEF SetParam, graph, flags, devices, TypeOK
  <2> HIDE DEF c
  <2> QED BY <1>3, <2>1, <2>2 DEF Linking, Clearing, Unlinking
<1>8. ASSUME NEW n \in Forced, ForceExec(n) PROVE Demanding'
  <2> DEFINE c == Check(n, "Force")
  <2>1. c \in Frame /\ c.op = "checkAddSched"
    BY NodeAssumption, CheckFrame DEF Check, Call, Modes
  <2>2. /\ calls[Mailbox] = <<>> /\ Enter(Mailbox, c)
        /\ UNCHANGED <<exec, armed, links, target, status, demanded, allowQueue>>
    BY <1>8 DEF ForceExec, graph, flags, devices
  <2> HIDE DEF c
  <2> QED BY <1>3, <2>1, <2>2 DEF Linking, Clearing, Unlinking
<1>9. ASSUME NEW n \in Asynchronous, TimerCallback(n) PROVE Demanding'
  <2> DEFINE c == Call("demandNewParentInput", n)
             C == {c}
  <2>1. n \in Node /\ n \in Thread
    BY NodeAssumption DEF Thread
  <2>2. c \in Frame /\ c.op = "demandNewParentInput" /\ c.node = n
    BY <2>1, CallFrame DEF Operations
  <2>3. /\ calls[n] = <<>> /\ Enter(n, c) /\ armed' = armed \ {n}
        /\ UNCHANGED <<exec, links, target, status, demanded, allowQueue>>
    BY <1>9 DEF TimerCallback, graph, flags
  <2> HIDE DEF c
  <2>4. Swaps(n, C)
    BY <1>1, <2>1, <2>2, <2>3, SwapsEnter
  <2>5. ASSUME NEW i \in Input PROVE LookedAfter(i)'
    <3>1. InputOf[i] = n => Serves(c, i)
      BY <2>2 DEF Serves
    <3>2. InputOf[i] \in armed => Instead(C, i)
      BY <2>3, <3>1 DEF Instead
    <3>3. status[i] = "New" \/ target[i] \in demanded => Instead(C, i)
      BY <2>3 DEF Instead
    <3>4. \A w \in Worker : WillServe(w, i) => Instead(C, i)
      BY <2>3 DEF Instead, WillServe
    <3>5. LookedAfter(i)
      BY DEF DInv, Demanding
    <3> HIDE DEF C
    <3> QED BY <2>1, <2>3, <2>4, <3>2, <3>3, <3>4, <3>5, LookedKept
  <2>6. \A d \in C : /\ d.op \notin Linking \cup Clearing
                     /\ d.op \in Unlinking => d.node \in Removable
    BY <2>2 DEF Linking, Clearing, Unlinking
  <2> HIDE DEF C
  <2>7. (\A i \in Input : Known(i))' /\ (\A d \in Open : HandlerOK(d))'
    BY <2>1, <2>3, <2>4, <2>6, HandlersKept
  <2> QED BY <1>1, <2>3, <2>5, <2>7 DEF Demanding, Allowed
<1>10. ASSUME NEW n \in MessageNode, OnMessage(n) PROVE Demanding'
  <2> DEFINE c == Call("setAllowQueue", n)
             d == Call("onMessage", n)
             C == {c, d}
  <2>1. n \in Node
    BY NodeAssumption DEF MessageNode
  <2>2. c \in Frame /\ c.op = "setAllowQueue" /\ d \in Frame /\ d.op = "onMessage"
    BY <2>1, CallFrame DEF Operations
  <2>3. /\ calls[Mailbox] = <<>>
        /\ calls' = [calls EXCEPT ![Mailbox] = <<c, d>>]
        /\ UNCHANGED <<exec, armed, links, target, status, demanded, allowQueue>>
    BY <1>10 DEF OnMessage, graph, flags
  <2> HIDE DEF c, d
  <2>4. Swaps(Mailbox, C)
    BY <1>1, <2>2, <2>3, SwapsEnterTwo
  <2>5. \A x \in C : /\ x.op \notin Linking \cup Clearing
                     /\ x.op \in Unlinking => x.node \in Removable
    BY <2>2 DEF Linking, Clearing, Unlinking
  <2> HIDE DEF C
  <2>6. Allowed'
    BY <1>1, <2>3 DEF Allowed
  <2> QED BY <1>1, <2>3, <2>4, <2>5, <2>6, CallDemands
<1> QED BY <1>4, <1>5, <1>6, <1>7, <1>8, <1>9, <1>10 DEF StartStep

\* A step of exec: inputs are served by what the step puts in the place of what
\* it does away with; a demand that is dropped may belong to an arc being cut.
LEMMA WorkDemands ==
    ASSUME NEW above, DInv(above), NEW w \in Worker, calls[w] = <<>>,
           NEW r, exec' = [exec EXCEPT ![w] = r],
           UNCHANGED <<target, links>>, Allowed', armed \subseteq armed',
           NEW C, Swaps(w, C), \A c \in C : c.op \notin Linking \cup Clearing \cup Unlinking,
           \A i \in Input : target[i] # NoOutput =>
             /\ status[i] = "New" => Instead(C, i)
             /\ target[i] \in demanded => Instead(C, i) \/ Leaving(i)
             /\ WillServe(w, i) => Instead(C, i)
    PROVE  Demanding'
<1>1. w \in Thread
  BY ThreadFacts
<1>2. ASSUME NEW i \in Input PROVE LookedAfter(i)'
  <2>1. LookedAfter(i)
    BY DEF DInv, Demanding
  <2>2. CASE target[i] = NoOutput
    BY <2>2 DEF LookedAfter
  <2>3. CASE Leaving(i)
    <3>1. PICK c \in Open : c.op = "clearInput" /\ i \in c.ins
      BY <2>3 DEF Leaving
    <3>2. c \in Open' /\ Serves(c, i)'
      BY <3>1 DEF Swaps, Serves
    <3> QED BY <3>2 DEF LookedAfter, Owed
  <2>4. CASE target[i] # NoOutput /\ ~Leaving(i)
    <3>1. ASSUME NEW v \in Worker, WillServe(v, i) PROVE Instead(C, i)
      <4>1. CASE v = w
        BY <2>4, <3>1, <4>1
      <4>2. CASE v # w
        <5>1. exec'[v] = exec[v]
          BY <4>2 DEF DInv, LInv, WInv, IInv, TypeOK
        <5>2. WillServe(v, i)'
          BY <3>1, <5>1 DEF WillServe
        <5> QED BY <5>2 DEF Instead
      <4> QED BY <4>1, <4>2
    <3>2. InputOf[i] \in armed => Instead(C, i)
      BY DEF Instead
    <3> QED BY <1>1, <2>1, <2>4, <3>1, <3>2, LookedKept
  <2> QED BY <2>2, <2>3, <2>4
<1>3. (\A i \in Input : Known(i))' /\ (\A c \in Open : HandlerOK(c))'
  BY <1>1, HandlersKept
<1> QED BY <1>2, <1>3 DEF Demanding, Allowed

\* A worker that demands what its node reads, or whose node demands later.
LEMMA ParentCallDemands ==
    ASSUME NEW above, DInv(above), NEW w \in Worker, exec[w].at # "waitNextJob", calls[w] = <<>>,
           Enter(w, Call("demandNewParentInput", exec[w].node))
    PROVE  \E C : /\ Swaps(w, C)
                  /\ \A c \in C : c.op \notin Linking \cup Clearing \cup Unlinking
                  /\ \A i \in Input : InputOf[i] = exec[w].node => Instead(C, i)
<1> DEFINE c == Call("demandNewParentInput", exec[w].node)
           C == {c}
<1>1. TypeOK /\ w \in Thread /\ exec[w].node \in Node
  BY ThreadFacts, RunningWorker DEF DInv, LInv, WInv, IInv
<1>2. c \in Frame /\ c.op = "demandNewParentInput" /\ c.node = exec[w].node
  BY <1>1, CallFrame DEF Operations
<1>3. Enter(w, c)
  OBVIOUS
<1> HIDE DEF c
<1>4. Swaps(w, C)
  BY <1>1, <1>2, <1>3, SwapsEnter
<1>5. \A d \in C : d.op \notin Linking \cup Clearing \cup Unlinking
  BY <1>2 DEF Linking, Clearing, Unlinking
<1>6. \A i \in Input : InputOf[i] = exec[w].node => Instead(C, i)
  BY <1>2 DEF Serves, Instead
<1> HIDE DEF C
<1> QED BY <1>4, <1>5, <1>6

LEMMA ExecDemands ==
    ASSUME NEW above, Steady(above), DInv(above), NEW w \in Worker, ExecStep(w)
    PROVE  Demanding'
<1> DEFINE n == exec[w].node
<1>1. TypeOK /\ w \in Thread /\ calls[w] = <<>> /\ Allowed
  BY ThreadFacts
     DEF ExecStep, WaitNextJob, LockInputs, UnlockInputs, ClearNewInput, TakeMessage,
         LockAllowQueue, ClearsNow, ClearAllowQueue, DoWork, LockOutputs, NotifyChildren,
         LockExecQueued, ClearExecQueued, GetImage, BadInput, SetOutputValue, At, DInv, LInv, WInv, IInv, Demanding
<1>0. UNCHANGED allowQueue => Allowed'
  BY <1>1 DEF Allowed
<1>2. ASSUME NEW p, Goto(w, p) PROVE exec' = [exec EXCEPT ![w] = [exec[w] EXCEPT !.at = p]]
  BY <1>2 DEF Goto
  \* Where nothing is served and nothing is lost.
<1>3. ASSUME NEW r, exec' = [exec EXCEPT ![w] = r],
             UNCHANGED <<target, links, allowQueue, armed, status, demanded>>,
             \A i \in Input : ~WillServe(w, i),
             NEW C, Swaps(w, C), \A c \in C : c.op \notin Linking \cup Clearing \cup Unlinking
      PROVE  Demanding'
  <2>1. \A i \in Input : /\ status[i] = "New" => Instead(C, i)
                         /\ target[i] \in demanded => Instead(C, i)
    BY <1>3 DEF Instead
  <2> QED BY <1>0, <1>1, <1>3, <2>1, WorkDemands
<1>4. ASSUME NEW r, exec' = [exec EXCEPT ![w] = r],
             UNCHANGED <<target, links, allowQueue, armed, status, demanded, calls>>,
             exec[w].at \notin Working \cup {"setOutputs"}
      PROVE  Demanding'
  <2> DEFINE C == {}
  <2>1. Swaps(w, C) /\ \A c \in C : c.op \notin Linking \cup Clearing \cup Unlinking
    BY <1>1, <1>4, SwapsNone
  <2>2. \A i \in Input : ~WillServe(w, i)
    BY <1>4 DEF WillServe
  <2> HIDE DEF C
  <2> QED BY <1>3, <1>4, <2>1, <2>2
<1>5. CASE WaitNextJob(w)
  BY <1>4, <1>5 DEF WaitNextJob, At, Working, graph, flags, devices
<1>6. CASE LockInputs(w)
  <2> DEFINE r == [exec[w] EXCEPT !.at = "gather", !.ins = InputsOf(n) \cap ImageInput]
  <2>1. exec' = [exec EXCEPT ![w] = r]
    BY <1>6 DEF LockInputs
  <2> HIDE DEF r
  <2> QED BY <1>4, <1>6, <2>1 DEF LockInputs, At, Working, graph, flags, devices
<1>7. CASE UnlockInputs(w)
  <2>1. PICK p \in Points : Goto(w, p)
    BY <1>7 DEF UnlockInputs, Points
  <2> DEFINE r == [exec[w] EXCEPT !.at = p]
  <2>2. exec' = [exec EXCEPT ![w] = r]
    BY <1>2, <2>1
  <2> HIDE DEF r
  <2> QED BY <1>4, <1>7, <2>2 DEF UnlockInputs, At, Working, graph, flags, devices
<1>8. CASE LockOutputs(w)
  <2> DEFINE r == [exec[w] EXCEPT !.at = "setOutputs"]
  <2>2. exec' = [exec EXCEPT ![w] = r]
    BY <1>2, <1>8 DEF LockOutputs
  <2> HIDE DEF r
  <2> QED BY <1>4, <1>8, <2>2 DEF LockOutputs, At, Working, graph, flags, devices
<1>9. ASSUME NEW i \in Input, GetImage(w, i) PROVE Demanding'
  <2> DEFINE r == [exec[w] EXCEPT !.ins = @ \ {i}]
  <2>2. exec' = [exec EXCEPT ![w] = r]
    BY <1>9 DEF GetImage
  <2> HIDE DEF r
  <2> QED BY <1>4, <1>9, <2>2 DEF GetImage, At, Working, graph, flags, devices
<1>10. CASE ClearExecQueued(w)
  <2> DEFINE c == Check(n, "AllNew")
             C == {c}
  <2>1. n \in Node /\ exec[w].at = "clearExecQueued"
    BY <1>1, <1>10, RunningWorker DEF ClearExecQueued, At
  <2>2. c \in Frame /\ c.op = "checkAddSched"
    BY <2>1, CheckFrame DEF Modes, Check, Call
  <2>3. /\ Enter(w, c) /\ exec' = [exec EXCEPT ![w] = Idle]
        /\ UNCHANGED <<target, links, allowQueue, armed, status, demanded>>
    BY <1>10 DEF ClearExecQueued, graph, devices
  <2> HIDE DEF c
  <2>4. Swaps(w, C) /\ \A d \in C : d.op \notin Linking \cup Clearing \cup Unlinking
    BY <1>1, <2>2, <2>3, SwapsEnter DEF Linking, Clearing, Unlinking
  <2>5. \A i \in Input : ~WillServe(w, i)
    BY <2>1 DEF WillServe, Working
  <2> HIDE DEF C
  <2> QED BY <1>3, <2>3, <2>4, <2>5
<1>11. CASE ClearNewInput(w)
  <2> DEFINE r == [exec[w] EXCEPT !.at = "doWork"]
  <2>1. /\ exec[w].at = "clearNewInput"
        /\ Goto(w, "doWork")
        /\ UNCHANGED <<target, links, allowQueue, armed, demanded>>
        /\ \A i \in Input : InputOf[i] # n => status'[i] = status[i]
        /\ IF n \in Slow THEN Enter(w, Call("demandNewParentInput", n)) ELSE UNCHANGED calls
    BY <1>11 DEF ClearNewInput, At, graph, flags, devices, DemandsBeforeWork
  <2>2. exec' = [exec EXCEPT ![w] = r]
    BY <1>2, <2>1
  <2>3. exec[w] \in Running
    BY <1>1, <2>1, RunningWorker
  <2>4. r.at = "doWork" /\ r.node = n /\ exec'[w] = r
    BY <1>1, <2>2, <2>3 DEF TypeOK, Running
  <2>5. \A i \in Input : ~WillServe(w, i)
    BY <2>1 DEF WillServe, Working
  <2> HIDE DEF r
  <2>6. PICK C : /\ Swaps(w, C)
                 /\ \A c \in C : c.op \notin Linking \cup Clearing \cup Unlinking
                 /\ \A i \in Input : InputOf[i] = n => Instead(C, i)
    <3>1. CASE n \in Slow
      BY <1>1, <2>1, <3>1, ParentCallDemands
    <3>2. CASE n \notin Slow
      <4> DEFINE C == {}
      <4>1. Swaps(w, C) /\ \A c \in C : c.op \notin Linking \cup Clearing \cup Unlinking
        BY <1>1, <2>1, <3>2, SwapsNone
      <4>2. \A i \in Input : InputOf[i] = n => WillServe(w, i)'
        BY <2>4, <3>2 DEF WillServe, Working
      <4> HIDE DEF C
      <4>3. \A i \in Input : InputOf[i] = n => Instead(C, i)
        BY <4>2 DEF Instead
      <4> QED BY <4>1, <4>3
    <3> QED BY <3>1, <3>2
  <2>7. \A i \in Input : /\ status[i] = "New" => Instead(C, i)
                         /\ target[i] \in demanded => Instead(C, i)
    BY <2>1, <2>6 DEF Instead
  <2> QED BY <1>0, <1>1, <2>1, <2>2, <2>5, <2>6, <2>7, WorkDemands
<1>12. CASE DoWork(w)
  <2>1. /\ exec[w].at \in {"doWork", "doWork2"}
        /\ UNCHANGED allowQueue
        /\ armed \subseteq armed'
    BY <1>12 DEF DoWork, At, flags
  <2>0. Allowed'
    BY <1>0, <2>1
  <2>2. PICK made \in SUBSET OutputsOf(n), threw \in BOOLEAN :
            /\ n \notin Faulty => made = OutputsOf(n) /\ ~threw
            /\ exec' = [exec EXCEPT ![w].at = "lockOutputs", ![w].outs = made]
            /\ IF threw \/ n \in Asynchronous \/ DemandsBeforeWork(n)
               THEN UNCHANGED calls
               ELSE Enter(w, Call("demandNewParentInput", n))
    BY <1>12 DEF DoWork
  <2> DEFINE r == [exec[w] EXCEPT !.at = "lockOutputs", !.outs = made]
  <2>3. exec' = [exec EXCEPT ![w] = r]
    BY <2>2
  <2> HIDE DEF r
  <2>4. UNCHANGED <<target, links, status, demanded>>
    BY <1>12 DEF DoWork, graph, flags
  <2>5. PICK C : /\ Swaps(w, C)
                 /\ \A c \in C : c.op \notin Linking \cup Clearing \cup Unlinking
                 /\ \A i \in Input : InputOf[i] = n /\ n \notin Slow => Instead(C, i)
    <3>1. CASE UNCHANGED calls
      <4> DEFINE C == {}
      <4>1. Swaps(w, C) /\ \A c \in C : c.op \notin Linking \cup Clearing \cup Unlinking
        BY <1>1, <3>1, SwapsNone
      <4>2. ASSUME NEW i \in Input, InputOf[i] = n, n \notin Slow PROVE InputOf[i] \in armed'
        <5>1. n \notin Faulty
          BY <4>2 DEF Steady
        <5>2. ~threw /\ ~DemandsBeforeWork(n)
          BY <2>2, <4>2, <5>1 DEF DemandsBeforeWork
        <5>3. n \in Asynchronous
          <6>1. SUFFICES ASSUME n \notin Asynchronous PROVE FALSE
            OBVIOUS
          <6>2. Enter(w, Call("demandNewParentInput", n))
            BY <2>2, <5>2, <6>1
          <6>3. calls'[w] # <<>>
            BY <1>1, <6>2, EnterStack DEF Enter, TypeOK
          <6> QED BY <1>1, <3>1, <6>3
        <5> QED BY <1>12, <4>2, <5>3 DEF DoWork
      <4> HIDE DEF C
      <4>3. \A i \in Input : InputOf[i] = n /\ n \notin Slow => Instead(C, i)
        BY <4>2 DEF Instead
      <4> QED BY <4>1, <4>3
    <3>2. CASE Enter(w, Call("demandNewParentInput", n))
      BY <1>1, <2>1, <3>2, ParentCallDemands
    <3> QED BY <2>2, <3>1, <3>2
  <2>6. \A i \in Input : /\ status[i] = "New" => Instead(C, i)
                         /\ target[i] \in demanded => Instead(C, i)
                         /\ WillServe(w, i) => Instead(C, i)
    BY <2>1, <2>4, <2>5 DEF Instead, WillServe, Working
  <2> QED BY <1>1, <2>0, <2>1, <2>3, <2>4, <2>5, <2>6, WorkDemands
<1>13. CASE NotifyChildren(w)
  <2> DEFINE c == [Call("notifyEach", n) EXCEPT !.ins = exec[w].kids]
             C == {c}
             r == [exec[w] EXCEPT !.at = "finish"]
  <2>1. /\ Enter(w, c) /\ Goto(w, "finish") /\ exec[w].at = "setOutputs"
        /\ UNCHANGED <<target, links, allowQueue, armed, status, demanded>>
    BY <1>13 DEF NotifyChildren, At, graph, flags, devices
  <2>2. exec' = [exec EXCEPT ![w] = r]
    BY <1>2, <2>1
  <2>3. c \in Frame /\ c.op = "notifyEach" /\ c.ins = exec[w].kids
    BY <1>1, <2>1, RunningWorker DEF Call, Frame, Operations, Modes
  <2> HIDE DEF c, r
  <2>4. Swaps(w, C) /\ \A d \in C : d.op \notin Linking \cup Clearing \cup Unlinking
    BY <1>1, <2>1, <2>3, SwapsEnter DEF Linking, Clearing, Unlinking
  <2>5. \A i \in Input : WillServe(w, i) => Serves(c, i)
    BY <2>1, <2>3 DEF WillServe, Working, Serves
  <2>6. \A i \in Input : /\ status[i] = "New" => Instead(C, i)
                         /\ target[i] \in demanded => Instead(C, i)
                         /\ WillServe(w, i) => Instead(C, i)
    BY <2>1, <2>5 DEF Instead
  <2> HIDE DEF C
  <2> QED BY <1>0, <1>1, <2>1, <2>2, <2>4, <2>6, WorkDemands
<1>14. ASSUME NEW i \in Input, BadInput(w, i) PROVE Demanding'
  <2> DEFINE r == [exec[w] EXCEPT !.at = "badInput"]
  <2>1. /\ exec[w].at = "gather" /\ Goto(w, "badInput")
        /\ UNCHANGED <<target, links, allowQueue, armed, demanded>>
        /\ \A j \in Input : j # i => status'[j] = status[j]
        /\ IF target[i] = NoOutput THEN UNCHANGED calls ELSE Enter(w, Demand(target[i]))
    BY <1>1, <1>14 DEF BadInput, At, graph, flags, devices, TypeOK
  <2>2. exec' = [exec EXCEPT ![w] = r]
    BY <1>2, <2>1
  <2> HIDE DEF r
  <2>3. \A j \in Input : ~WillServe(w, j)
    BY <2>1 DEF WillServe, Working
  <2>4. PICK C : /\ Swaps(w, C)
                 /\ \A c \in C : c.op \notin Linking \cup Clearing \cup Unlinking
                 /\ target[i] = NoOutput \/ Instead(C, i)
    <3>1. CASE target[i] = NoOutput
      <4> DEFINE C == {}
      <4>1. Swaps(w, C) /\ \A c \in C : c.op \notin Linking \cup Clearing \cup Unlinking
        BY <1>1, <2>1, <3>1, SwapsNone
      <4> HIDE DEF C
      <4> QED BY <3>1, <4>1
    <3>2. CASE target[i] # NoOutput
      <4> DEFINE c == Demand(target[i])
                 C == {c}
      <4>1. target[i] \in Output /\ Enter(w, c)
        BY <1>1, <2>1, <3>2 DEF TypeOK
      <4>2. c \in Frame /\ c.op = "setNewOutputDemanded" /\ c.outs = {target[i]}
        BY <4>1, DemandFrame DEF Demand, Call
      <4> HIDE DEF c
      <4>3. Swaps(w, C) /\ \A d \in C : d.op \notin Linking \cup Clearing \cup Unlinking
        BY <1>1, <4>1, <4>2, SwapsEnter DEF Linking, Clearing, Unlinking
      <4>4. Instead(C, i)
        BY <4>2 DEF Instead, Serves
      <4> HIDE DEF C
      <4> QED BY <4>3, <4>4
    <3> QED BY <3>1, <3>2
  <2>5. \A j \in Input : target[j] # NoOutput =>
             /\ status[j] = "New" => Instead(C, j)
             /\ target[j] \in demanded => Instead(C, j)
             /\ WillServe(w, j) => Instead(C, j)
    BY <2>1, <2>3, <2>4 DEF Instead
  <2> QED BY <1>0, <1>1, <2>1, <2>2, <2>4, <2>5, WorkDemands
<1>15. ASSUME NEW o \in Output, SetOutputValue(w, o) PROVE Demanding'
  <2> DEFINE r == [exec[w] EXCEPT !.outs = @ \ {o}, !.kids = @ \cup links[o]]
             C == {}
  <2>1. /\ exec[w].at = "setOutputs"
        /\ exec' = [exec EXCEPT ![w] = r]
        /\ demanded' = demanded \ {o}
        /\ UNCHANGED <<target, links, allowQueue, armed, status, calls>>
    BY <1>15 DEF SetOutputValue, At, graph, devices
  <2>2. Swaps(w, C) /\ \A c \in C : c.op \notin Linking \cup Clearing \cup Unlinking
    BY <1>1, <2>1, SwapsNone
  <2>3. exec[w] \in Running
    BY <1>1, <2>1, RunningWorker
  <2>4. exec'[w] = r /\ r.at = "setOutputs" /\ r.kids = exec[w].kids \cup links[o]
    BY <1>1, <2>1, <2>3 DEF TypeOK, Running
  <2> HIDE DEF r, C
  <2>5. ASSUME NEW i \in Input, i \in exec[w].kids \cup links[o] PROVE Instead(C, i)
    <3>1. WillServe(w, i)'
      BY <2>4, <2>5 DEF WillServe
    <3> QED BY <3>1 DEF Instead
  <2>6. ASSUME NEW i \in Input, target[i] = o PROVE Instead(C, i) \/ Leaving(i)
    <3>1. Wire[i] = o
      BY <2>6, WiringAssumption DEF DInv, LInv, TargetsWired
    <3>2. i \in links[o] \/ Leaving(i)
      BY <2>6, <3>1, WiringAssumption DEF DInv, Demanding, Known
    <3> QED BY <2>5, <3>2
  <2>7. \A i \in Input :
             /\ status[i] = "New" => Instead(C, i)
             /\ target[i] \in demanded => Instead(C, i) \/ Leaving(i)
             /\ WillServe(w, i) => Instead(C, i)
    <3>1. \A i \in Input : status[i] = "New" => Instead(C, i)
      BY <2>1 DEF Instead
    <3>2. \A i \in Input : target[i] \in demanded => Instead(C, i) \/ Leaving(i)
      BY <2>1, <2>6 DEF Instead
    <3>3. \A i \in Input : WillServe(w, i) => Instead(C, i)
      BY <2>1, <2>5 DEF WillServe, Working
    <3> QED BY <3>1, <3>2, <3>3
  <2> QED BY <1>0, <1>1, <2>1, <2>2, <2>7, WorkDemands
<1>16. CASE TakeMessage(w) \/ LockAllowQueue(w) \/ ClearAllowQueue(w)
  <2> DEFINE C == {}
  <2>1. /\ exec[w].at \in Working
        /\ \E p \in Working : Goto(w, p)
        /\ UNCHANGED <<target, links, armed, status, demanded, calls>>
        /\ \/ UNCHANGED allowQueue
           \/ exec[w].at = "clearAllowQueue" /\ allowQueue' = allowQueue \ {n}
    BY <1>16 DEF TakeMessage, LockAllowQueue, ClearsNow, ClearAllowQueue, At, Working, graph,
                 flags, devices
  <2>2. PICK p \in Working : Goto(w, p)
    BY <2>1
  <2> DEFINE r == [exec[w] EXCEPT !.at = p]
  <2>3. exec' = [exec EXCEPT ![w] = r] /\ exec[w] \in Running
    BY <1>1, <1>2, <2>1, <2>2, RunningWorker DEF Working
  <2>4. exec'[w] = r /\ r.at = p /\ r.node = n
    BY <1>1, <2>3 DEF TypeOK, Running
  <2> HIDE DEF r
  <2>5. Swaps(w, C) /\ \A c \in C : c.op \notin Linking \cup Clearing \cup Unlinking
    BY <1>1, <2>1, SwapsNone
  <2>6. \A i \in Input : WillServe(w, i) => WillServe(w, i)'
    BY <2>1, <2>2, <2>4 DEF WillServe, Working
  <2> HIDE DEF C
  <2>7. \A i \in Input : /\ status[i] = "New" => Instead(C, i)
                         /\ target[i] \in demanded => Instead(C, i)
                         /\ WillServe(w, i) => Instead(C, i)
    BY <2>1, <2>6 DEF Instead
  <2>8. exec[w].at = "clearAllowQueue" => n \in MessageNode
    BY <1>1, LockFacts DEF DInv, ThreadOK, WorkerClimbs
  <2>9. Allowed'
    BY <1>1, <2>1, <2>8 DEF Allowed
  <2> QED BY <1>1, <2>1, <2>3, <2>5, <2>7, <2>9, WorkDemands
<1>17. CASE LockExecQueued(w)
  <2> DEFINE r == [exec[w] EXCEPT !.at = "clearExecQueued"]
  <2>2. exec' = [exec EXCEPT ![w] = r]
    BY <1>2, <1>17 DEF LockExecQueued
  <2> HIDE DEF r
  <2> QED BY <1>4, <1>17, <2>2 DEF LockExecQueued, At, Working, graph, flags, devices
<1> QED BY <1>5, <1>6, <1>7, <1>8, <1>9, <1>10, <1>11, <1>12, <1>13, <1>14, <1>15, <1>16, <1>17
        DEF ExecStep

LEMMA InitDemands == Init => Demanding
<1> SUFFICES ASSUME Init PROVE Demanding
  OBVIOUS
<1>1. Open = {}
  BY DEF Init, Open, CallsIn
<1>2. \A i \in Input : LookedAfter(i) /\ Known(i)
  BY DEF Init, LookedAfter, Known
<1>3. Allowed
  BY DEF Init, Allowed
<1> QED BY <1>1, <1>2, <1>3 DEF Demanding

LEMMA NextDemands ==
    ASSUME NEW above, Steady(above), DInv(above), [Next]_vars
    PROVE  Demanding'
<1>1. CASE UNCHANGED vars
  <2>1. UNCHANGED <<calls, exec, armed, links, target, status, demanded, allowQueue>>
    BY <1>1 DEF vars
  <2>2. Open' = Open
    BY <2>1 DEF Open
  <2>3. ASSUME NEW i \in Input PROVE LookedAfter(i)' /\ Known(i)'
    <3>1. (Owed(i) => Owed(i)') /\ (Leaving(i) => Leaving(i)')
      BY <2>1, <2>2 DEF Owed, Leaving, Serves, WillServe
    <3> QED BY <2>1, <3>1 DEF DInv, Demanding, LookedAfter, Known
  <2>4. \A c \in Open : HandlerOK(c) => HandlerOK(c)'
    BY <2>1, <2>2 DEF HandlerOK, Leaving
  <2> QED BY <2>1, <2>2, <2>3, <2>4 DEF DInv, Demanding, Allowed
<1>2. ASSUME NEW t \in Thread, CallStep(t) PROVE Demanding'
  BY <1>2, DecidingDemands, LoopDemands, NotingDemands, LinkingDemands, ClearingDemands,
     UnlinkingDemands
     DEF CallStep
<1>3. ASSUME NEW w \in Worker, ExecStep(w) PROVE Demanding'
  BY <1>3, ExecDemands
<1>4. StartStep => Demanding'
  BY StartDemands
<1>5. CASE Next
  BY <1>2, <1>3, <1>4, <1>5 DEF Next, Build, Disturb, StartStep
<1> QED BY <1>1, <1>5

LEMMA DemandsInvariance ==
    ASSUME NEW above, Steady(above)
    PROVE  Spec => []DInv(above)
<1>1. Init => Demanding
  BY InitDemands
<1>2. LInv(above) /\ Demanding /\ [Next]_vars => Demanding'
  BY NextDemands DEF DInv
<1>3. Spec => []LInv(above)
  BY LocksInvariance DEF Steady
<1>4. LInv(above) /\ Demanding => DInv(above)
  BY DEF DInv
<1> QED BY <1>1, <1>2, <1>3, <1>4, PTL DEF Spec

\* At rest nobody owes anything.
LEMMA AtRest ==
    ASSUME NEW above, DInv(above), Quiescent, NEW i \in Input, target[i] # NoOutput
    PROVE  status[i] = "New" \/ target[i] \in demanded
<1>1. Open = {}
  BY DEF Quiescent, Open, CallsIn
<1>2. ~Owed(i)
  BY <1>1 DEF Owed, Quiescent, WillServe, Idle, Working
<1> QED BY <1>2 DEF DInv, Demanding, LookedAfter

-----------------------------------------------------------------------------
(* The theorems on pipelines *)

\* When the pipeline rests, a linked input that has been used, or was found
\* invalid, has been demanded again from its parent (node.cpp:772), provided that
\* only nodes which demand first may throw (the run throws shows what others do),
\* that no node with an arc is removed, and the order of NoThreadsWaitInACircle.
THEOREM UsedInputsAreDemandedAgain ==
    ASSUME NEW above \in [Node -> SUBSET Node], Steady(above)
    PROVE  Spec => []UsedInputsAreDemanded
<1>1. DInv(above) => UsedInputsAreDemanded
  BY AtRest DEF UsedInputsAreDemanded
<1>2. Spec => []DInv(above)
  BY DemandsInvariance
<1> QED BY <1>1, <1>2, PTL

\* A pipeline from sources that need no message never comes to rest once it is
\* built: each node in turn is demanded, is fed and is queued, whatever threads
\* and however many, while arcs are cut and put back, parameters set and nodes
\* forced.  Of the demanded nodes one has no demanded parent; all its inputs are
\* new, so it can run, and then checkAddSched has seen to it (NoneIsLost).
THEOREM PipelinesNeverStall ==
    ASSUME NEW above \in [Node -> SUBSET Node], Flows(above)
    PROVE  Spec => []NeverStalls
<1>1. ASSUME DInv(above), Built, Quiescent PROVE FALSE
  <2> DEFINE K == {n \in Node : OutputDemanded(n)}
  <2>1. K # {} /\ K \in SUBSET Node
    BY NodeAssumption DEF Flows, OutputDemanded
  <2>2. PICK n \in K : above[n] \cap K = {}
    BY <2>1 DEF Flows, Steady, Ordered
  <2>3. n \in Node /\ OutputDemanded(n)
    BY <2>2
  <2>4. ASSUME NEW i \in InputsOf(n) \cap Wired
        PROVE  i \in Input /\ target[i] = Wire[i] /\ target[i] # NoOutput /\ status[i] = "New"
    <3>1. /\ i \in Input /\ InputOf[i] = n
          /\ target[i] = Wire[i] /\ target[i] # NoOutput
          /\ Wire[i] \in Output /\ OutputOf[Wire[i]] \in Node
      BY <1>1, WiringAssumption DEF InputsOf, Wired, Built, DInv, LInv, TargetsWired
    <3>2. OutputOf[Wire[i]] \in above[n]
      BY <2>4, <3>1 DEF Flows, Steady, Ordered, Parent
    <3>3. Wire[i] \notin demanded
      <4>1. Wire[i] \in demanded => OutputDemanded(OutputOf[Wire[i]])
        BY <3>1 DEF OutputDemanded, OutputsOf
      <4> QED BY <2>2, <3>1, <3>2, <4>1
    <3> QED BY <1>1, <3>1, <3>3, AtRest
  <2> HIDE DEF K
  <2>5. Runnable(n)
    <3>1. n \in allowQueue
      BY <1>1, <2>3 DEF DInv, Demanding, Allowed, Flows
    <3>2. AllRequiredInputsAreNew(n)
      BY <2>4 DEF AllRequiredInputsAreNew, Flows
    <3>3. \A i \in InputsOf(n) \ Optional : Valid(i)
      BY <2>4 DEF Valid, Flows
    <3>4. n \in OutputNode => \E i \in InputsOf(n) : target[i] # NoOutput
      BY <2>4 DEF Flows
    <3> QED BY <2>3, <3>1, <3>2, <3>3, <3>4 DEF Runnable
  <2>6. ~WillBeChecked(n)
    BY <1>1 DEF WillBeChecked, Open, CallsIn, Quiescent
  <2>7. n \in execQueued
    BY <1>1, <2>3, <2>5, <2>6 DEF DInv, LInv, WInv, Wakes, NoneIsLost
  <2>8. InQueue(n) \/ IsRunning(n)
    BY <1>1, <2>3, <2>7 DEF DInv, LInv, WInv, IInv, ExecQueuedIsExact
  <2> QED BY <1>1, <2>3, <2>8, WiringAssumption DEF InQueue, IsRunning, Quiescent, Idle
<1>2. DInv(above) => NeverStalls
  BY <1>1 DEF NeverStalls
<1>3. Spec => []DInv(above)
  BY DemandsInvariance DEF Flows
<1> QED BY <1>2, <1>3, PTL

-----------------------------------------------------------------------------
(* The fifth part: what messages and images are not lost to *)

\* A thread that goes on in its calls changes no other thread's.
LEMMA EveryCallSwaps ==
    ASSUME TypeOK, NEW t \in Thread, CallStep(t)
    PROVE  /\ calls[t] # <<>>
           /\ \A u \in Thread \ {t} : calls'[u] = calls[u]
           /\ \E C : Swaps(t, C)
<1>1. calls[t] # <<>>
  BY DEF CallStep, CheckAddSched, Conditions, EnsureValidInput, SetExecQueued, AddJob, DemandEach,
         NotifyEach, DemandNewParentInput, SetNewOutputDemanded, SetNewInput, SetAllowQueue,
         AllowNode, SetOutput, LinkOutput, SetInput, MessageHandled, ClearOutput, ClearInput, UnlinkParents,
         UnlinkChildren, ClearOutputs, ClearInputs, In
<1>22. \E r : calls' = [calls EXCEPT ![t] = r]
  BY DEF CallStep, CheckAddSched, Conditions, EnsureValidInput, SetExecQueued, AddJob, DemandEach,
         NotifyEach, DemandNewParentInput, SetNewOutputDemanded, SetNewInput, SetAllowQueue,
         AllowNode, SetOutput, LinkOutput, SetInput, MessageHandled, ClearOutput, ClearInput, UnlinkParents,
         UnlinkChildren, ClearOutputs, ClearInputs, Return, Become
<1>23. SUFFICES \E C : Swaps(t, C)
  BY <1>1, <1>22 DEF TypeOK
<1>2. Top(t) \in Frame /\ Top(t).node \in Node /\ Top(t).ins \subseteq Input /\ Top(t).outs \subseteq Output
  BY <1>1, TopFrame
<1>3. ASSUME Return(t) PROVE \E C : Swaps(t, C)
  BY <1>1, <1>3, SwapsReturn
<1>4. ASSUME NEW c \in Frame, Become(t, c) PROVE \E C : Swaps(t, C)
  BY <1>1, <1>4, SwapsBecome
<1>5. ASSUME NEW c \in Frame, NEW d \in Frame, calls' = [calls EXCEPT ![t] = <<c, d>> \o Tail(@)]
      PROVE  \E C : Swaps(t, C)
  BY <1>1, <1>5, SwapsLoop
<1>6. \A f \in Operations : [Top(t) EXCEPT !.op = f] \in Frame
  BY <1>2 DEF Frame
<1>7. \A I \in SUBSET Input : [Top(t) EXCEPT !.ins = I] \in Frame
  BY <1>2 DEF Frame
<1>8. \A O \in SUBSET Output : [Top(t) EXCEPT !.outs = O] \in Frame
  BY <1>2 DEF Frame
<1>9. \A n \in Node : Check(n, "AllNew") \in Frame
  BY CheckFrame DEF Modes
<1>10. CASE CheckAddSched(t)
  BY <1>3, <1>4, <1>6, <1>10 DEF CheckAddSched, Operations
<1>11. CASE Conditions(t)
  BY <1>3, <1>4, <1>6, <1>11 DEF Conditions, Operations
<1>12. CASE EnsureValidInput(t)
  <2>1. {target[i] : i \in {j \in InputsOf(Top(t).node) \ Optional : ~Valid(j)}} \ {NoOutput} \subseteq Output
    BY DEF TypeOK, InputsOf
  <2> DEFINE I == {j \in InputsOf(Top(t).node) \ Optional : ~Valid(j)}
             O == {target[i] : i \in I} \ {NoOutput}
             d == [Top(t) EXCEPT !.op = "refuse", !.outs = O]
             e == [Top(t) EXCEPT !.op = "setExecQueued"]
  <2>2. Become(t, e) \/ Become(t, d)
    BY <1>12, Zenon DEF EnsureValidInput
  <2>3. e \in Frame
    BY <1>6 DEF Operations
  <2> HIDE DEF O, e
  <2>4. d \in Frame
    BY <1>2, <2>1 DEF Frame, Operations, O
  <2> HIDE DEF d
  <2> QED BY <1>4, <2>2, <2>3, <2>4
<1>13. CASE AddJob(t) \/ LinkOutput(t) \/ MessageHandled(t) \/ ClearOutput(t) \/ ClearInput(t) \/ ClearInputs(t)
  BY <1>3, <1>13 DEF AddJob, LinkOutput, MessageHandled, ClearOutput, ClearInput, ClearInputs
<1>14. CASE DemandEach(t)
  <2>1. CASE Top(t).outs = {}
    BY <1>3, <1>14, <2>1 DEF DemandEach
  <2>2. CASE Top(t).outs # {}
    <3>1. PICK o \in Top(t).outs : calls' = [calls EXCEPT ![t] =
                <<Demand(o), [Top(t) EXCEPT !.outs = @ \ {o}]>> \o Tail(@)]
      BY <1>14, <2>2 DEF DemandEach
    <3>2. Demand(o) \in Frame
      BY <1>2, DemandFrame
    <3>3. [Top(t) EXCEPT !.outs = @ \ {o}] \in Frame
      BY <1>2, <1>8
    <3> QED BY <1>5, <3>1, <3>2, <3>3
  <2> QED BY <2>1, <2>2
<1>15. CASE NotifyEach(t)
  <2>1. CASE Top(t).ins = {}
    BY <1>3, <1>15, <2>1 DEF NotifyEach
  <2>2. CASE Top(t).ins # {}
    <3>1. PICK i \in Top(t).ins : calls' = [calls EXCEPT ![t] =
                <<NewInput(i), [Top(t) EXCEPT !.ins = @ \ {i}]>> \o Tail(@)]
      BY <1>15, <2>2 DEF NotifyEach
    <3>2. NewInput(i) \in Frame
      BY <1>2, NewInputFrame
    <3>3. [Top(t) EXCEPT !.ins = @ \ {i}] \in Frame
      BY <1>2, <1>7
    <3> QED BY <1>5, <3>1, <3>2, <3>3
  <2> QED BY <2>1, <2>2
<1>16. CASE DemandNewParentInput(t)
  <2> DEFINE O == {target[i] : i \in InputsOf(Top(t).node)} \ {NoOutput}
             c == [Call("demandEach", Top(t).node) EXCEPT !.outs = O]
  <2>1. O \subseteq Output
    BY DEF TypeOK, InputsOf
  <2> HIDE DEF O
  <2>2. c \in Frame
    BY <1>2, <2>1 DEF Call, Frame, Operations, Modes
  <2>3. Become(t, c)
    BY <1>16 DEF DemandNewParentInput, O
  <2> QED BY <1>4, <2>2, <2>3
<1>17. CASE SetNewOutputDemanded(t) \/ SetNewInput(t) \/ AllowNode(t)
  BY <1>2, <1>4, <1>9, <1>17 DEF SetNewOutputDemanded, SetNewInput, AllowNode
<1>18. CASE SetExecQueued(t) \/ SetAllowQueue(t) \/ SetOutput(t) \/ SetInput(t) \/ ClearOutputs(t)
  BY <1>4, <1>6, <1>18
     DEF SetExecQueued, SetAllowQueue, SetOutput, SetInput, ClearOutputs, Operations
<1>19. CASE UnlinkParents(t)
  <2>1. \A o : Top(t).outs \ OutputsOf(OutputOf[o]) \in SUBSET Output
    BY <1>2
  <2> QED BY <1>4, <1>6, <1>8, <1>19, <2>1 DEF UnlinkParents, Operations
<1>20. CASE UnlinkChildren(t)
  <2>1. \A i : Top(t).ins \ InputsOf(InputOf[i]) \in SUBSET Input
    BY <1>2
  <2> QED BY <1>4, <1>6, <1>7, <1>20, <2>1 DEF UnlinkChildren, Operations
<1>21. \E C : Swaps(t, C)
  BY <1>10, <1>11, <1>12, <1>13, <1>14, <1>15, <1>16, <1>17, <1>18, <1>19, <1>20 DEF CallStep
<1> QED BY <1>21

-----------------------------------------------------------------------------
(* Messages *)

\* The handler of a message for node n has still to allow the node.
Telling(n) ==
    /\ In(Mailbox, "setAllowQueue") \/ In(Mailbox, "allowNode")
    /\ Top(Mailbox).node = n
    /\ MessageLocked(n)
Taking(n) == \E w \in Worker : exec[w].node = n /\ exec[w].at = "doWork2"

\* Of nodes that clear m_allow_queue before they take the message.
Remembered == \A n \in inbox \ TakeThenClear : n \in allowQueue \/ Telling(n) \/ Taking(n)

LEMMA CallRemembers ==
    ASSUME TypeOK, Remembered, NEW t \in Thread, CallStep(t)
    PROVE  Remembered'
<1>1. calls[t] # <<>> /\ \A u \in Thread \ {t} : calls'[u] = calls[u]
  BY EveryCallSwaps
<1>2. UNCHANGED <<inbox, exec>> /\ allowQueue \subseteq allowQueue'
  BY DEF CallStep, CheckAddSched, Conditions, EnsureValidInput, SetExecQueued, AddJob, DemandEach,
         NotifyEach, DemandNewParentInput, SetNewOutputDemanded, SetNewInput, SetAllowQueue,
         AllowNode, SetOutput, LinkOutput, SetInput, MessageHandled, ClearOutput, ClearInput, UnlinkParents,
         UnlinkChildren, ClearOutputs, ClearInputs, flags, devices
<1>3. ASSUME NEW n, Telling(n) PROVE n \in allowQueue' \/ Telling(n)'
  <2>1. CASE t = Mailbox
    <3>1. SetAllowQueue(t) \/ AllowNode(t)
      BY <1>3, <2>1
         DEF Telling, CallStep, CheckAddSched, Conditions, EnsureValidInput, SetExecQueued, AddJob,
             DemandEach, NotifyEach, DemandNewParentInput, SetNewOutputDemanded, SetNewInput, SetOutput,
             LinkOutput, SetInput, MessageHandled, ClearOutput, ClearInput, UnlinkParents,
             UnlinkChildren, ClearOutputs, ClearInputs, In
    <3>2. CASE AllowNode(t)
      BY <1>3, <2>1, <3>2 DEF AllowNode, Telling
    <3>3. CASE SetAllowQueue(t)
      <4> DEFINE d == [Top(t) EXCEPT !.op = "allowNode"]
      <4>1. Top(t) \in Frame /\ calls[t] \in Seq(Frame)
        BY <1>1, TopFrame DEF TypeOK
      <4>2. d.op = "allowNode" /\ d.node = Top(t).node
        BY <4>1 DEF Frame
      <4>3. calls'[t] = <<d>> \o Tail(calls[t]) /\ Top(t).op = "setAllowQueue"
        BY <3>3 DEF SetAllowQueue, Become, TypeOK, In, Top
      <4> HIDE DEF d
      <4>4. /\ calls'[t] # <<>> /\ Head(calls'[t]) = d
            /\ \A k \in DOMAIN calls[t] \ {1} : k \in DOMAIN calls'[t] /\ calls'[t][k] = calls[t][k]
        BY <1>1, <4>1, <4>3
      <4>5. calls[t][1] = Top(t)
        BY <1>1, <4>1 DEF Top
      <4>6. MessageLocked(n)'
        BY <1>3, <2>1, <4>3, <4>4, <4>5 DEF Telling, MessageLocked
      <4> QED BY <1>3, <2>1, <4>2, <4>4, <4>6 DEF Telling, In, Top
    <3> QED BY <3>1, <3>2, <3>3
  <2>2. CASE t # Mailbox
    <3>1. calls'[Mailbox] = calls[Mailbox]
      BY <1>1, <2>2, ThreadFacts
    <3> QED BY <1>3, <3>1 DEF Telling, In, Top, MessageLocked
  <2> QED BY <2>1, <2>2
<1> QED BY <1>2, <1>3 DEF Remembered, Taking

\* Steps of other threads than the mailbox thread, which hold no handler back.
LEMMA OthersRemember ==
    ASSUME Remembered, UNCHANGED allowQueue, inbox' \subseteq inbox,
           calls[Mailbox] = <<>> \/ calls'[Mailbox] = calls[Mailbox],
           \A n \in inbox' : Taking(n) => Taking(n)'
    PROVE  Remembered'
<1>1. ASSUME NEW n, Telling(n) PROVE Telling(n)'
  <2>1. calls[Mailbox] # <<>>
    BY <1>1 DEF Telling, In
  <2> QED BY <1>1, <2>1 DEF Telling, In, Top, MessageLocked
<1> QED BY <1>1 DEF Remembered

LEMMA StartRemembers ==
    ASSUME TypeOK, Remembered, StartStep
    PROVE  Remembered'
<1>1. UNCHANGED <<exec, allowQueue>>
  BY Zenon DEF StartStep, AddArc, RemoveArc, RemoveNode, SetParam, ForceExec, OnMessage, TimerCallback, flags
<1>2. \A n : Taking(n) => Taking(n)'
  BY <1>1 DEF Taking
<1>3. CASE \E n \in MessageNode : OnMessage(n)
  <2>1. PICK n \in MessageNode : OnMessage(n)
    BY <1>3
  <2> DEFINE c == Call("setAllowQueue", n)
             d == Call("onMessage", n)
  <2>2. c.op = "setAllowQueue" /\ c.node = n /\ d.op = "onMessage" /\ d.node = n
    BY DEF Call
  <2>3. /\ inbox' = inbox \cup {n} /\ calls[Mailbox] = <<>>
        /\ calls'[Mailbox] = <<c, d>>
    BY <2>1, ThreadFacts DEF OnMessage, TypeOK
  <2> HIDE DEF c, d
  <2>4. Telling(n)'
    <3>1. /\ Head(<<c, d>>) = c /\ <<c, d>> # <<>> /\ 2 \in DOMAIN <<c, d>> /\ <<c, d>>[2] = d
      OBVIOUS
    <3>2. MessageLocked(n)'
      BY <2>2, <2>3, <3>1 DEF MessageLocked
    <3> QED BY <2>2, <2>3, <3>1, <3>2 DEF Telling, In, Top
  <2>5. \A m : ~Telling(m)
    BY <2>3 DEF Telling, In
  <2> QED BY <1>1, <1>2, <2>3, <2>4, <2>5 DEF Remembered
<1>4. CASE \E n \in Asynchronous : TimerCallback(n)
  <2>1. PICK n \in Asynchronous : TimerCallback(n)
    BY <1>4
  <2>2. n # Mailbox
    BY ThreadAssumption
  <2>3. inbox' = inbox /\ calls'[Mailbox] = calls[Mailbox]
    BY <2>1, <2>2, ThreadFacts DEF TimerCallback, Enter, TypeOK
  <2> QED BY <1>1, <1>2, <2>3, OthersRemember
<1>5. ASSUME ~\E n \in MessageNode : OnMessage(n), ~\E n \in Asynchronous : TimerCallback(n)
      PROVE  Remembered'
  <2>1. inbox' = inbox /\ calls[Mailbox] = <<>>
    BY <1>5, Zenon DEF StartStep, AddArc, RemoveArc, RemoveNode, SetParam, ForceExec, devices
  <2> QED BY <1>1, <1>2, <2>1, OthersRemember
<1> QED BY <1>3, <1>4, <1>5

LEMMA ExecRemembers ==
    ASSUME TypeOK, Remembered, NEW w \in Worker, ExecStep(w)
    PROVE  Remembered'
<1>1. w \in Thread /\ w # Mailbox
  BY ThreadFacts, ThreadAssumption
<1>2. calls'[Mailbox] = calls[Mailbox]
  <2>1. \E r : calls' = [calls EXCEPT ![w] = r] \/ calls' = calls
    BY DEF ExecStep, WaitNextJob, LockInputs, UnlockInputs, ClearNewInput, TakeMessage,
           LockAllowQueue, ClearAllowQueue, DoWork, LockOutputs, NotifyChildren, LockExecQueued,
           ClearExecQueued, GetImage, BadInput, SetOutputValue, Enter
  <2> QED BY <1>1, <2>1, ThreadFacts DEF TypeOK
<1>3. ASSUME NEW n, Telling(n) PROVE Telling(n)'
  BY <1>2, <1>3 DEF Telling, In, Top, MessageLocked
<1>4. \A v \in Worker \ {w} : exec'[v] = exec[v]
  BY DEF ExecStep, WaitNextJob, LockInputs, UnlockInputs, ClearNewInput, TakeMessage,
         LockAllowQueue, ClearAllowQueue, DoWork, LockOutputs, NotifyChildren, LockExecQueued,
         ClearExecQueued, GetImage, BadInput, SetOutputValue, Goto, TypeOK
<1>5. ASSUME NEW n, exec[w].node # n \/ exec[w].at # "doWork2", Taking(n) PROVE Taking(n)'
  BY <1>4, <1>5 DEF Taking
<1>6. CASE ClearAllowQueue(w)
  <2>1. exec[w].at = "clearAllowQueue" /\ allowQueue' = allowQueue \ {exec[w].node} /\ inbox' = inbox
    BY <1>6 DEF ClearAllowQueue, At, devices
  <2>2. exec[w] \in Running
    BY <2>1 DEF TypeOK, Idle
  <2>3. exec'[w].at = "doWork2" /\ exec'[w].node = exec[w].node
    BY <1>6, <2>2 DEF ClearAllowQueue, Goto, TypeOK, Running
  <2>4. ASSUME NEW m, m = exec[w].node PROVE Taking(m)'
    BY <2>3, <2>4 DEF Taking
  <2>5. ASSUME NEW m \in inbox' \ TakeThenClear PROVE m \in allowQueue' \/ Telling(m)' \/ Taking(m)'
    BY <1>3, <1>5, <2>1, <2>4, <2>5 DEF Remembered
  <2> QED BY <2>5 DEF Remembered
<1>7. CASE DoWork(w)
  <2> DEFINE n == exec[w].node
  <2>1. /\ inbox' = IF n \in ClearThenTake THEN inbox \ {n} ELSE inbox
        /\ allowQueue' = allowQueue
    BY <1>7 DEF DoWork, flags
  <2>2. ASSUME NEW m \in inbox' \ TakeThenClear PROVE m \in inbox \ TakeThenClear /\ m # n
    <3>1. m \in inbox
      BY <2>1, <2>2
    <3>2. m \in ClearThenTake
      BY <2>2, <3>1 DEF TypeOK, MessageNode
    <3> QED BY <2>1, <2>2, <3>1, <3>2
  <2>3. ASSUME NEW m \in inbox' \ TakeThenClear PROVE m \in allowQueue' \/ Telling(m)' \/ Taking(m)'
    BY <1>3, <1>5, <2>1, <2>2, <2>3 DEF Remembered
  <2> QED BY <2>3 DEF Remembered
<1>8. CASE ~ClearAllowQueue(w) /\ ~DoWork(w)
  <2>1. allowQueue' = allowQueue /\ inbox' \subseteq inbox /\ exec[w].at # "doWork2"
    BY <1>8
       DEF ExecStep, WaitNextJob, LockInputs, UnlockInputs, ClearNewInput, TakeMessage,
           LockAllowQueue, ClearsNow, LockOutputs, NotifyChildren, LockExecQueued, ClearExecQueued,
           GetImage, BadInput, SetOutputValue, At, flags, devices
  <2> QED BY <1>2, <1>5, <2>1, OthersRemember
<1> QED BY <1>6, <1>7, <1>8

\* No message waits for a node that nobody will queue (WaitingMessageIsAllowed),
\* where doWork clears m_allow_queue before it takes the message, as that of
\* SonarInputNode does (sonarInputNode.h); where it clears after taking, a message
\* in between is lost, as the model with a node in TakeThenClear shows.
THEOREM ClearedFirstKeepsMessages ==
    ASSUME TakeThenClear = {}
    PROVE  Spec => []WaitingMessageIsAllowed
<1>1. Init => Remembered
  BY DEF Init, Remembered
<1>2. TypeOK /\ Remembered /\ [Next]_vars => Remembered'
  <2> SUFFICES ASSUME TypeOK, Remembered, [Next]_vars PROVE Remembered'
    OBVIOUS
  <2>1. CASE UNCHANGED vars
    BY <2>1 DEF vars, Remembered, Telling, Taking, In, Top, MessageLocked
  <2>2. CASE Next
    BY <2>2, CallRemembers, StartRemembers, ExecRemembers DEF Next, Build, Disturb, StartStep
  <2> QED BY <2>1, <2>2
<1>3. Remembered => WaitingMessageIsAllowed
  BY DEF Remembered, Telling, Taking, WaitingMessageIsAllowed
<1> QED BY <1>1, <1>2, <1>3, TypeCorrect, PTL DEF Spec

-----------------------------------------------------------------------------
(* Images *)

\* Calls that will mark input i New, and workers that will make such a call.
MarksNew(c, i) == c.op \in {"setInput", "setNewInput", "notifyEach"} /\ i \in c.ins
HasToTell(w, i) == exec[w].at = "setOutputs" /\ i \in exec[w].kids
Promised(i) == (\E c \in Open : MarksNew(c, i)) \/ (\E w \in Worker : HasToTell(w, i))

\* A node that thinks an input invalid which its parent has a value for will be
\* told of that, unless the arc is being cut.
Told ==
    \A i \in Input : status[i] = "Invalid" /\ target[i] \in value => Promised(i) \/ Leaving(i)

\* A step may take a promise away by keeping it, by cutting the arc, or for
\* another promise.
LEMMA ToldKept ==
    ASSUME Told, NEW t \in Thread, NEW C, Swaps(t, C), NEW i \in Input,
           status'[i] = "Invalid", target'[i] \in value',
           (status[i] = "Invalid" /\ target[i] \in value) \/ Promised(i)' \/ Leaving(i)',
           calls[t] # <<>> =>
             /\ MarksNew(Top(t), i) => Promised(i)'
             /\ ~(Top(t).op = "clearInput" /\ i \in Top(t).ins),
           \A w \in Worker : HasToTell(w, i) => Promised(i)'
    PROVE  Promised(i)' \/ Leaving(i)'
<1>1. \A c : MarksNew(c, i)' <=> MarksNew(c, i)
  BY DEF MarksNew
<1>2. ASSUME NEW c \in Open, MarksNew(c, i) PROVE Promised(i)'
  BY <1>1, <1>2 DEF Swaps, Promised
<1>3. Leaving(i) => Leaving(i)'
  BY DEF Swaps, Leaving
<1> QED BY <1>2, <1>3 DEF Told, Promised

LEMMA CallTells ==
    ASSUME TypeOK, Told, NEW t \in Thread, CallStep(t)
    PROVE  Told'
<1> SUFFICES ASSUME NEW i \in Input, status'[i] = "Invalid", target'[i] \in value'
             PROVE  Promised(i)' \/ Leaving(i)'
  BY DEF Told
<1>1. calls[t] # <<>> /\ \E C : Swaps(t, C)
  BY EveryCallSwaps
<1>2. value' = value /\ exec' = exec
  BY DEF CallStep, CheckAddSched, Conditions, EnsureValidInput, SetExecQueued, AddJob, DemandEach,
         NotifyEach, DemandNewParentInput, SetNewOutputDemanded, SetNewInput, SetAllowQueue,
         AllowNode, SetOutput, LinkOutput, SetInput, MessageHandled, ClearOutput, ClearInput, UnlinkParents,
         UnlinkChildren, ClearOutputs, ClearInputs
<1>3. target'[i] # NoOutput /\ target[i] \in Output \cup {NoOutput}
  BY <1>2, WiringAssumption DEF TypeOK
<1>4. ASSUME NEW w \in Worker, HasToTell(w, i) PROVE Promised(i)'
  BY <1>2, <1>4 DEF HasToTell, Promised
<1>5. CASE NotifyEach(t)
  <2>1. /\ In(t, "notifyEach") /\ Top(t).op = "notifyEach"
        /\ UNCHANGED <<target, status>>
    BY <1>5 DEF NotifyEach, In, Top, graph
  <2>2. MarksNew(Top(t), i) => Promised(i)'
    <3> SUFFICES ASSUME i \in Top(t).ins PROVE Promised(i)'
      BY DEF MarksNew
    <3>1. PICK j \in Top(t).ins : calls' = [calls EXCEPT ![t] =
                <<NewInput(j), [Top(t) EXCEPT !.ins = @ \ {j}]>> \o Tail(@)]
      BY <1>5 DEF NotifyEach
    <3> DEFINE c == NewInput(j)
               d == [Top(t) EXCEPT !.ins = @ \ {j}]
               C == {c, d}
    <3>2. Top(t) \in Frame /\ Top(t).ins \subseteq Input
      BY <1>1, TopFrame
    <3>3. /\ c \in Frame /\ c.op = "setNewInput" /\ c.ins = {j}
          /\ d \in Frame /\ d.op = "notifyEach" /\ d.ins = Top(t).ins \ {j}
      BY <2>1, <3>2, NewInputFrame DEF NewInput, Call, Frame
    <3> HIDE DEF c, d
    <3>4. Swaps(t, C)
      BY <1>1, <3>1, <3>3, SwapsLoop DEF c, d
    <3>5. c \in Open' /\ d \in Open' /\ (MarksNew(c, i) \/ MarksNew(d, i))
      BY <3>3, <3>4 DEF Swaps, MarksNew
    <3> QED BY <3>5 DEF Promised, MarksNew
  <2> QED BY <1>1, <1>2, <1>4, <2>1, <2>2, ToldKept
<1>6. CASE SetNewInput(t)
  <2>1. /\ Top(t).op = "setNewInput"
        /\ status'[i] = IF i \in Top(t).ins THEN "New" ELSE status[i]
        /\ target' = target
    BY <1>6 DEF SetNewInput, In, Top, graph
  <2>2. ~MarksNew(Top(t), i)
    BY <2>1 DEF MarksNew
  <2> QED BY <1>1, <1>2, <1>4, <2>1, <2>2, ToldKept
<1>7. CASE SetInput(t)
  <2>1. /\ Top(t).op = "setInput"
        /\ status'[i] = IF i \in Top(t).ins THEN "Old" ELSE status[i]
        /\ target'[i] = IF i \in Top(t).ins THEN Wire[i] ELSE target[i]
    BY <1>7 DEF SetInput, In, Top
  <2>2. ~MarksNew(Top(t), i)
    BY <2>1 DEF MarksNew
  <2> QED BY <1>1, <1>2, <1>4, <2>1, <2>2, ToldKept
<1>8. CASE ClearInput(t) \/ UnlinkChildren(t) \/ ClearInputs(t)
  <2>1. /\ Top(t).op \in {"clearInput", "unlinkChildren", "clearInputs"}
        /\ Top(t).op = "clearInput" => target'[i] = IF i \in Top(t).ins THEN NoOutput ELSE target[i]
        /\ target'[i] \in {target[i], NoOutput}
        /\ status' = status
    BY <1>8 DEF ClearInput, UnlinkChildren, ClearInputs, In, Top
  <2>2. ~MarksNew(Top(t), i)
    BY <2>1 DEF MarksNew
  <2>3. ~(Top(t).op = "clearInput" /\ i \in Top(t).ins)
    BY <1>3, <2>1
  <2> QED BY <1>1, <1>2, <1>3, <1>4, <2>1, <2>2, <2>3, ToldKept
<1>9. CASE \/ CheckAddSched(t) \/ Conditions(t) \/ EnsureValidInput(t)
           \/ SetExecQueued(t) \/ AddJob(t) \/ DemandEach(t) \/ DemandNewParentInput(t)
           \/ SetNewOutputDemanded(t) \/ SetAllowQueue(t) \/ AllowNode(t) \/ SetOutput(t)
           \/ LinkOutput(t) \/ MessageHandled(t) \/ ClearOutput(t)
           \/ UnlinkParents(t) \/ ClearOutputs(t)
  <2>1. UNCHANGED <<target, status>>
    BY <1>9
       DEF CheckAddSched, Conditions, EnsureValidInput, SetExecQueued, AddJob, DemandEach,
           DemandNewParentInput, SetNewOutputDemanded, SetAllowQueue, AllowNode, SetOutput,
           LinkOutput, MessageHandled, ClearOutput, UnlinkParents, ClearOutputs, graph
  <2>2. Top(t).op \notin {"setInput", "setNewInput", "notifyEach", "clearInput"}
    BY <1>9
       DEF CheckAddSched, Conditions, EnsureValidInput, SetExecQueued, AddJob, DemandEach,
           DemandNewParentInput, SetNewOutputDemanded, SetAllowQueue, AllowNode, SetOutput,
           LinkOutput, MessageHandled, ClearOutput, UnlinkParents, ClearOutputs, In, Top
  <2>3. ~MarksNew(Top(t), i)
    BY <2>2 DEF MarksNew
  <2> QED BY <1>1, <1>2, <1>4, <2>1, <2>2, <2>3, ToldKept
<1> QED BY <1>5, <1>6, <1>7, <1>8, <1>9 DEF CallStep

\* A thread that was in no call makes one.
LEMMA OpensMore ==
    ASSUME TypeOK, NEW t \in Thread, calls[t] = <<>>, NEW r, calls' = [calls EXCEPT ![t] = r]
    PROVE  Open \subseteq Open'
<1>1. \A u \in Thread : u # t => calls'[u] = calls[u]
  BY DEF TypeOK
<1>2. CallsIn(calls[t]) = {}
  BY DEF CallsIn
<1> QED BY <1>1, <1>2 DEF Open

LEMMA StartTells ==
    ASSUME TypeOK, Told, StartStep
    PROVE  Told'
<1> SUFFICES ASSUME NEW i \in Input, status'[i] = "Invalid", target'[i] \in value'
             PROVE  Promised(i)' \/ Leaving(i)'
  BY DEF Told
<1>1. UNCHANGED <<exec, target, value>> /\ status'[i] = status[i]
  BY DEF StartStep, AddArc, RemoveArc, RemoveNode, SetParam, ForceExec, OnMessage, TimerCallback, graph, TypeOK
<1>2. \E t \in Thread : calls[t] = <<>> /\ \E r : calls' = [calls EXCEPT ![t] = r]
  BY ThreadFacts DEF StartStep, AddArc, RemoveArc, RemoveNode, SetParam, ForceExec, OnMessage,
     TimerCallback, Enter
<1>3. PICK t \in Thread : calls[t] = <<>> /\ \E r : calls' = [calls EXCEPT ![t] = r]
  BY <1>2
<1>4. Open \subseteq Open'
  BY <1>3, OpensMore
<1>5. Promised(i) => Promised(i)'
  BY <1>1, <1>4 DEF Promised, HasToTell, MarksNew
<1>6. Leaving(i) => Leaving(i)'
  BY <1>4 DEF Leaving
<1> QED BY <1>1, <1>5, <1>6 DEF Told

LEMMA ExecTells ==
    ASSUME NEW above, DInv(above), Told, NEW w \in Worker, ExecStep(w)
    PROVE  Told'
<1> SUFFICES ASSUME NEW i \in Input, status'[i] = "Invalid", target'[i] \in value'
             PROVE  Promised(i)' \/ Leaving(i)'
  BY DEF Told
<1>1. TypeOK /\ w \in Thread
  BY ThreadFacts DEF DInv, LInv, WInv, IInv
<1>2. /\ calls[w] = <<>> /\ target' = target
      /\ \E r : calls' = [calls EXCEPT ![w] = r] \/ calls' = calls
      /\ \A v \in Worker \ {w} : exec'[v] = exec[v]
  <2>1. calls[w] = <<>>
    BY DEF ExecStep, WaitNextJob, LockInputs, UnlockInputs, ClearNewInput, TakeMessage, LockAllowQueue,
           ClearsNow, ClearAllowQueue, DoWork, LockOutputs, NotifyChildren, LockExecQueued, ClearExecQueued,
           GetImage, BadInput, SetOutputValue, At
  <2>2. target' = target
    BY DEF ExecStep, WaitNextJob, LockInputs, UnlockInputs, ClearNewInput, TakeMessage, LockAllowQueue,
           ClearAllowQueue, DoWork, LockOutputs, NotifyChildren, LockExecQueued, ClearExecQueued,
           GetImage, BadInput, SetOutputValue, graph
  <2>3. \E r : calls' = [calls EXCEPT ![w] = r] \/ calls' = calls
    BY DEF ExecStep, WaitNextJob, LockInputs, UnlockInputs, ClearNewInput, TakeMessage, LockAllowQueue,
           ClearAllowQueue, DoWork, LockOutputs, NotifyChildren, LockExecQueued, ClearExecQueued,
           GetImage, BadInput, SetOutputValue, Enter
  <2>4. \A v \in Worker \ {w} : exec'[v] = exec[v]
    BY <1>1 DEF ExecStep, WaitNextJob, LockInputs, UnlockInputs, ClearNewInput, TakeMessage, LockAllowQueue,
           ClearAllowQueue, DoWork, LockOutputs, NotifyChildren, LockExecQueued, ClearExecQueued,
           GetImage, BadInput, SetOutputValue, Goto, TypeOK
  <2> QED BY <2>1, <2>2, <2>3, <2>4
<1>3. Open \subseteq Open'
  BY <1>1, <1>2, OpensMore DEF Open
<1>4. Leaving(i) => Leaving(i)'
  BY <1>3 DEF Leaving
<1>5. ASSUME HasToTell(w, i) => Promised(i)' PROVE Promised(i) => Promised(i)'
  BY <1>2, <1>3, <1>5 DEF Promised, HasToTell, MarksNew
<1>6. ASSUME exec[w].at # "setOutputs", status[i] = "Invalid", value' = value
      PROVE  Promised(i)' \/ Leaving(i)'
  BY <1>2, <1>4, <1>5, <1>6 DEF Told, HasToTell
<1>7. CASE \E o \in Output : SetOutputValue(w, o)
  <2>1. PICK o \in Output : SetOutputValue(w, o)
    BY <1>7
  <2> DEFINE r == [exec[w] EXCEPT !.outs = @ \ {o}, !.kids = @ \cup links[o]]
  <2>2. /\ exec[w].at = "setOutputs" /\ exec' = [exec EXCEPT ![w] = r]
        /\ value' = value \cup {o} /\ status' = status
    BY <2>1 DEF SetOutputValue, At
  <2>3. exec[w] \in Running
    BY <1>1, <2>2, RunningWorker
  <2>4. exec'[w] = r /\ r.at = "setOutputs" /\ r.kids = exec[w].kids \cup links[o]
    BY <1>1, <2>2, <2>3 DEF TypeOK, Running
  <2> HIDE DEF r
  <2>5. i \in exec[w].kids \cup links[o] => Promised(i)'
    BY <2>4 DEF Promised, HasToTell
  <2>6. CASE target[i] \in value
    BY <1>4, <1>5, <2>2, <2>5, <2>6 DEF Told, HasToTell
  <2>7. CASE target[i] = o
    <3>1. Wire[i] = o
      BY <2>7, WiringAssumption DEF DInv, LInv, TargetsWired
    <3>2. i \in links[o] \/ Leaving(i)
      BY <2>7, <3>1, WiringAssumption DEF DInv, Demanding, Known
    <3> QED BY <1>4, <2>5, <3>2
  <2> QED BY <1>2, <2>2, <2>6, <2>7
<1>8. CASE NotifyChildren(w)
  <2> DEFINE c == [Call("notifyEach", exec[w].node) EXCEPT !.ins = exec[w].kids]
             C == {c}
  <2>1. Enter(w, c) /\ exec[w].at = "setOutputs" /\ status' = status /\ value' = value
    BY <1>8 DEF NotifyChildren, At
  <2>2. c \in Frame /\ c.op = "notifyEach" /\ c.ins = exec[w].kids
    BY <1>1, <2>1, RunningWorker DEF Call, Frame, Operations, Modes
  <2> HIDE DEF c
  <2>3. Swaps(w, C)
    BY <1>1, <1>2, <2>1, <2>2, SwapsEnter
  <2>4. i \in exec[w].kids => Promised(i)'
    BY <2>2, <2>3 DEF Swaps, Promised, MarksNew
  <2> QED BY <1>2, <1>4, <1>5, <2>1, <2>4 DEF Told, HasToTell
<1>9. CASE \E j \in Input : BadInput(w, j)
  <2>1. PICK j \in Input : BadInput(w, j)
    BY <1>9
  <2>2. exec[w].at = "gather" /\ value' = value /\ target[i] \in value
    BY <1>2, <2>1 DEF BadInput, At
  <2>3. i # j => status'[i] = status[i]
    BY <1>1, <2>1 DEF BadInput, TypeOK
  <2>4. i = j => status[i] = "Invalid"
    <3>1. i = j => ~Valid(i)
      BY <2>1, <2>2 DEF BadInput
    <3>2. target[i] # NoOutput
      BY <1>1, <2>2, WiringAssumption DEF TypeOK
    <3> QED BY <3>1, <3>2 DEF Valid
  <2> QED BY <1>6, <2>2, <2>3, <2>4
<1>10. CASE ClearNewInput(w)
  <2>1. exec[w].at = "clearNewInput" /\ value' = value /\ status[i] = "Invalid"
    BY <1>10 DEF ClearNewInput, At
  <2> QED BY <1>6, <2>1
<1>11. CASE \/ WaitNextJob(w) \/ LockInputs(w) \/ UnlockInputs(w) \/ TakeMessage(w)
            \/ LockAllowQueue(w) \/ ClearAllowQueue(w) \/ DoWork(w) \/ LockOutputs(w)
            \/ LockExecQueued(w) \/ ClearExecQueued(w) \/ \E j \in Input : GetImage(w, j)
  <2>1. exec[w].at # "setOutputs" /\ value' = value /\ status' = status
    BY <1>11
       DEF WaitNextJob, LockInputs, UnlockInputs, TakeMessage, LockAllowQueue, ClearsNow,
           ClearAllowQueue, DoWork, LockOutputs, LockExecQueued, ClearExecQueued, GetImage, At
  <2> QED BY <1>6, <2>1
<1> QED BY <1>7, <1>8, <1>9, <1>10, <1>11 DEF ExecStep

\* Output nodes are told of every image that their parents have for them
\* (node.h:545), in the pipelines of UsedInputsAreDemandedAgain: a parent that is
\* linked first knows of its child before the child can ask in vain.
THEOREM OutputNodesAreTold ==
    ASSUME NEW above \in [Node -> SUBSET Node], Steady(above)
    PROVE  Spec => []OutputNodesSeeNewInput
<1>1. Init => Told
  BY DEF Init, Told
<1>2. DInv(above) /\ Told /\ [Next]_vars => Told'
  <2> SUFFICES ASSUME DInv(above), Told, [Next]_vars PROVE Told'
    OBVIOUS
  <2>1. CASE UNCHANGED vars
    BY <2>1 DEF vars, Told, Promised, Leaving, HasToTell, MarksNew, Open
  <2>2. TypeOK
    BY DEF DInv, LInv, WInv, IInv
  <2>3. CASE Next
    BY <2>2, <2>3, CallTells, StartTells, ExecTells DEF Next, Build, Disturb, StartStep
  <2> QED BY <2>1, <2>3
<1>3. Told => OutputNodesSeeNewInput
  <2> SUFFICES ASSUME Told, Quiescent, NEW i \in Input, target[i] \in value PROVE status[i] # "Invalid"
    BY DEF OutputNodesSeeNewInput
  <2>1. Open = {}
    BY DEF Quiescent, Open, CallsIn
  <2>2. ~Promised(i) /\ ~Leaving(i)
    BY <2>1 DEF Promised, Leaving, HasToTell, Quiescent, Idle
  <2> QED BY <2>2 DEF Told
<1>4. Spec => []DInv(above)
  BY DemandsInvariance
<1> QED BY <1>1, <1>2, <1>3, <1>4, PTL DEF Spec
=============================================================================
