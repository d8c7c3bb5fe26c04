----------------------------- MODULE NodeSched -----------------------------
(***************************************************************************)
(* Scheduling of the nodes of the image pipeline (auv/img-pipeline).       *)
(*                                                                         *)
(* Worker threads pop nodes from the scheduler's queue and run Node::exec. *)
(* exec pulls images from the parents, demands more from them, and tells   *)
(* the children about what it produced; each of these notes, whichever     *)
(* thread makes it, ends in Node::checkAddSched, which decides whether the *)
(* node goes back on the queue.  The mailbox thread builds the graph,      *)
(* delivers device messages and forces executions while all of this runs.  *)
(*                                                                         *)
(* A thread is a stack of calls (the member functions it is inside of,     *)
(* innermost first) and, for a worker, the point it has reached in exec.   *)
(* One action is what a thread does under one mutex.  The mutexes that are *)
(* held across several actions are not variables: who holds one is read    *)
(* off the stacks, which makes them recursive, as boost::recursive_mutex.  *)
(* No node of the program calls requireSyncInputs, so no input has a       *)
(* synchronised_with, and the branches about it are never taken.           *)
(*                                                                         *)
(* A definition named Defect... is not the code: it is what a bug would    *)
(* make of the definition after it, to show that a property can fail.      *)
(***************************************************************************)
EXTENDS Naturals, Sequences, FiniteSets

CONSTANTS
    Node, Input, Output,     \* the nodes, and the ids of their inputs and outputs
    InputOf, OutputOf,       \* the node each of them belongs to
    Wire,                    \* the output the mailbox thread links each input to, or NoOutput
    ParentsFirst,            \* inputs linked by an AddNode message: setInput before setOutput
    ImageInput,              \* inputs of type InType_Image, the others are parameters
    MustBeNew, Optional,     \* sched_type of the inputs: May_Be_Old is neither
    OutputNode,              \* isOutputNode()
    Slow,                    \* m_speed = slow, less than medium; other nodes are fast
    Asynchronous,            \* m_speed = asynchronous: a timer thread demands (ThrottleNode)
    Faulty,                  \* nodes whose doWork may throw, or leave outputs unset
    TakeThenClear,           \* doWork takes the message, then clearAllowQueue (NetInputNode)
    ClearThenTake,           \* clearAllowQueue, then the message (SonarInputNode)
    Settable,                \* parameters that SetNodeParameter messages set
    Forced,                  \* nodes that ForceExecRequest messages name
    Rewired,                 \* inputs that RemoveArc messages name; their arcs are added again
    Removable,               \* nodes that RemoveNode messages name
    Worker,                  \* the threads of the scheduler
    Mailbox,                 \* the thread that handles messages
    NoOutput, NoNode

MessageNode == TakeThenClear \cup ClearThenTake
Thread == Worker \cup {Mailbox} \cup Asynchronous

ASSUME WiringAssumption ==
    /\ InputOf \in [Input -> Node]
    /\ OutputOf \in [Output -> Node]
    /\ Wire \in [Input -> Output \cup {NoOutput}]
    /\ NoOutput \notin Output
    /\ NoNode \notin Node
    /\ ImageInput \subseteq Input
    /\ MustBeNew \subseteq Input
    /\ Optional \subseteq Input
    /\ ParentsFirst \subseteq Input
    /\ Settable \subseteq Input \ ImageInput
    /\ Rewired \subseteq Input
    /\ \A i \in Input : Wire[i] \in Output => OutputOf[Wire[i]] # InputOf[i]

ASSUME NodeAssumption ==
    /\ OutputNode \subseteq Node
    /\ Slow \subseteq Node
    /\ Asynchronous \subseteq Node \ Slow
    /\ Faulty \subseteq Node
    /\ TakeThenClear \subseteq Node
    /\ ClearThenTake \subseteq Node \ TakeThenClear
    /\ Forced \subseteq Node
    /\ Removable \subseteq Node

ASSUME ThreadAssumption ==
    /\ Mailbox \notin Worker
    /\ Asynchronous \cap (Worker \cup {Mailbox}) = {}

InputsOf(n) == {i \in Input : InputOf[i] = n}
OutputsOf(n) == {o \in Output : OutputOf[o] = n}

VARIABLES
    target,      \* Input::target
    links,       \* Output::targets
    removed,     \* the nodes that can no longer be looked up
    status,      \* Input::status
    value,       \* the outputs whose value is not NULL
    demanded,    \* m_output_demanded_on, of all nodes
    execQueued,  \* the nodes with m_exec_queued
    allowQueue,  \* the nodes with m_allow_queue
    queue,       \* Scheduler::m_queues[priority_fast]
    exec,        \* where each worker is in Node::exec
    calls,       \* the calls each thread is inside of, innermost first
    inbox,       \* message nodes holding a message that doWork has not taken
    armed,       \* asynchronous nodes whose timer is running
    unused       \* history: inputs whose parent's output no exec has read

vars == <<target, links, removed, status, value, demanded, execQueued, allowQueue,
          queue, exec, calls, inbox, armed, unused>>
graph == <<target, links, removed>>
flags == <<demanded, execQueued, allowQueue>>
devices == <<inbox, armed>>

-----------------------------------------------------------------------------
(* Threads *)

Points == {"waitNextJob", "lockInputs", "gather", "badInput", "clearNewInput",
           "doWork", "messageTaken", "clearAllowQueue", "doWork2",
           "lockOutputs", "setOutputs", "finish", "clearExecQueued"}
Operations == {"setInput", "setOutput", "linkOutput", "setNewInput",
               "setNewOutputDemanded", "demandNewParentInput", "demandEach",
               "notifyEach", "onMessage", "setAllowQueue", "allowNode", "checkAddSched",
               "conditions", "ensureValidInput", "refuse", "setExecQueued", "addJob",
               "clearOutput", "clearInput", "unlinkParents", "unlinkChildren",
               "clearOutputs", "clearInputs"}
Modes == {"AllNew", "Force"}

\* A call of member function f of node n: on which inputs or outputs, or, for
\* a loop, on which ones it has still to act.
Call(f, n) == [op |-> f, node |-> n, mode |-> "AllNew", ins |-> {}, outs |-> {}]
Check(n, m) == [Call("checkAddSched", n) EXCEPT !.mode = m]
Demand(o) == [Call("setNewOutputDemanded", OutputOf[o]) EXCEPT !.outs = {o}]
NewInput(i) == [Call("setNewInput", InputOf[i]) EXCEPT !.ins = {i}]

Idle == [at |-> "waitNextJob", node |-> NoNode, ins |-> {}, outs |-> {}, kids |-> {}]

In(t, f) == calls[t] # <<>> /\ Head(calls[t]).op = f
Enter(t, c) == calls' = [calls EXCEPT ![t] = <<c>> \o @]
Become(t, c) == calls' = [calls EXCEPT ![t] = <<c>> \o Tail(@)]
Return(t) == calls' = [calls EXCEPT ![t] = Tail(@)]
Top(t) == Head(calls[t])

\* Inside checkAddSched, after m_checking_sched_lock has been taken.
Checking == {"conditions", "ensureValidInput", "refuse", "setExecQueued", "addJob"}

\* Thread u holds m_checking_sched_lock, m_inputs_lock or m_outputs_lock of n.
\* These cover calls and loops.
HoldsChecking(u, n) ==
    \E k \in DOMAIN calls[u] : calls[u][k].node = n /\ calls[u][k].op \in Checking
HoldsInputs(u, n) ==
    \/ u \in Worker /\ exec[u].node = n /\ exec[u].at \in {"gather", "badInput"}
    \/ In(u, "addJob") /\ Top(u).node = n
DefectNotifiesLocked(u, n) ==
    u \in Worker /\ exec[u].node = n /\ exec[u].at \in {"setOutputs", "finish"}
HoldsOutputs(u, n) ==
    \/ u \in Worker /\ exec[u].node = n /\ exec[u].at = "setOutputs"
    \/ In(u, "linkOutput") /\ Top(u).node = n

\* ... m_allow_queue_lock or m_exec_queued_lock: the function that writes one of
\* these flags tells the GUI both, and reads the other under the lock of its own.
\* The write itself is left to the step that gives the lock back, since all who
\* read the flag take the lock.  Every use of a mutex that is not named here is
\* within one action, or by a thread that waits for no other meanwhile.
HoldsAllowQueue(u, n) ==
    \/ In(u, "allowNode") /\ Top(u).node = n
    \/ u \in Worker /\ exec[u].node = n /\ exec[u].at = "clearAllowQueue"
HoldsExecQueued(u, n) ==
    \/ In(u, "addJob") /\ Top(u).node = n
    \/ u \in Worker /\ exec[u].node = n /\ exec[u].at = "clearExecQueued"

CheckingLocked(t, n) == \E u \in Thread \ {t} : HoldsChecking(u, n)
InputsLocked(t, n) == \E u \in Thread \ {t} : HoldsInputs(u, n)
OutputsLocked(t, n) == \E u \in Thread \ {t} : HoldsOutputs(u, n)
AllowQueueLocked(t, n) == \E u \in Thread \ {t} : HoldsAllowQueue(u, n)
ExecQueuedLocked(t, n) == \E u \in Thread \ {t} : HoldsExecQueued(u, n)

-----------------------------------------------------------------------------
(* Node::checkAddSched and what leads to it *)

Valid(i) == i \in ImageInput => target[i] # NoOutput /\ status[i] # "Invalid"
OutputDemanded(n) == n \in OutputNode \/ demanded \cap OutputsOf(n) # {}
AllRequiredInputsAreNew(n) == \A i \in InputsOf(n) \cap MustBeNew : status[i] = "New"
AnyRequiredInputsAreNew(n) ==
    LET required == InputsOf(n) \cap MustBeNew
    IN  required # {} => \E i \in required : status[i] = "New"

\* Takes the checking lock; only SchedMode Force overrides allowQueue.
CheckAddSched(t) ==
    /\ In(t, "checkAddSched")
    /\ LET c == Top(t) IN
        /\ ~CheckingLocked(t, c.node) /\ ~ExecQueuedLocked(t, c.node)
        /\ c.node \notin execQueued /\ c.mode # "Force" => ~AllowQueueLocked(t, c.node)
        /\ IF c.node \in execQueued \/ (c.mode # "Force" /\ c.node \notin allowQueue)
           THEN Return(t)
           ELSE Become(t, [c EXCEPT !.op = "conditions"])
    /\ UNCHANGED <<graph, status, value, flags, queue, exec, devices, unused>>

DefectNoFallThrough(t) ==
    /\ In(t, "conditions")
    /\ ~InputsLocked(t, Top(t).node)
    /\ IF Top(t).mode = "Force" \/ AllRequiredInputsAreNew(Top(t).node)
       THEN Become(t, [Top(t) EXCEPT !.op = "setExecQueued"])
       ELSE Return(t)
    /\ UNCHANGED <<graph, status, value, flags, queue, exec, devices, unused>>

\* SchedMode AllNew falls through to the conditions of AnyNew.  The code reads
\* them one by one: while m_exec_queued is clear, demands and new inputs only
\* come, and an input that setInput makes old is about to be checked again.
Conditions(t) ==
    /\ In(t, "conditions")
    /\ LET c == Top(t) IN
        /\ ~InputsLocked(t, c.node)
        /\ IF c.mode = "Force"
           THEN Become(t, [c EXCEPT !.op = "setExecQueued"])
           ELSE IF /\ AllRequiredInputsAreNew(c.node)
                   /\ OutputDemanded(c.node)
                   /\ AnyRequiredInputsAreNew(c.node)
                THEN Become(t, [c EXCEPT !.op = "ensureValidInput"])
                ELSE Return(t)
    /\ UNCHANGED <<graph, status, value, flags, queue, exec, devices, unused>>

\* An invalid input that is not Optional is demanded from its parent, with the
\* node's own checking lock held, and the node is not scheduled.
EnsureValidInput(t) ==
    /\ In(t, "ensureValidInput")
    /\ LET c == Top(t)
           invalid == {i \in InputsOf(c.node) \ Optional : ~Valid(i)}
       IN  /\ ~InputsLocked(t, c.node)
           /\ IF invalid = {}
              THEN Become(t, [c EXCEPT !.op = "setExecQueued"])
              ELSE Become(t, [c EXCEPT !.op = "refuse",
                                       !.outs = {target[i] : i \in invalid} \ {NoOutput}])
    /\ UNCHANGED <<graph, status, value, flags, queue, exec, devices, unused>>

\* The inputs are locked to look for any that wait for a synchronised one.
SetExecQueued(t) ==
    /\ In(t, "setExecQueued")
    /\ ~InputsLocked(t, Top(t).node) /\ ~ExecQueuedLocked(t, Top(t).node)
    /\ Become(t, [Top(t) EXCEPT !.op = "addJob"])
    /\ UNCHANGED <<graph, status, value, flags, queue, exec, devices, unused>>

AddJob(t) ==
    /\ In(t, "addJob")
    /\ ~AllowQueueLocked(t, Top(t).node)
    /\ execQueued' = execQueued \cup {Top(t).node}
    /\ queue' = Append(queue, Top(t).node)
    /\ Return(t)
    /\ UNCHANGED <<graph, status, value, demanded, allowQueue, exec, devices, unused>>

\* Loops over collected links: one call for each, in the order of some map.
\* A node that is refused reads both flags, for the GUI, at its end.
DemandEach(t) ==
    /\ In(t, "demandEach") \/ In(t, "refuse")
    /\ In(t, "refuse") /\ Top(t).outs = {} =>
        ~ExecQueuedLocked(t, Top(t).node) /\ ~AllowQueueLocked(t, Top(t).node)
    /\ IF Top(t).outs = {}
       THEN Return(t)
       ELSE \E o \in Top(t).outs : calls' = [calls EXCEPT ![t] =
                <<Demand(o), [Top(t) EXCEPT !.outs = @ \ {o}]>> \o Tail(@)]
    /\ UNCHANGED <<graph, status, value, flags, queue, exec, devices, unused>>

NotifyEach(t) ==
    /\ In(t, "notifyEach")
    /\ IF Top(t).ins = {}
       THEN Return(t)
       ELSE \E i \in Top(t).ins : calls' = [calls EXCEPT ![t] =
                <<NewInput(i), [Top(t) EXCEPT !.ins = @ \ {i}]>> \o Tail(@)]
    /\ UNCHANGED <<graph, status, value, flags, queue, exec, devices, unused>>

DemandNewParentInput(t) ==
    /\ In(t, "demandNewParentInput")
    /\ ~InputsLocked(t, Top(t).node)
    /\ Become(t, [Call("demandEach", Top(t).node) EXCEPT
                     !.outs = {target[i] : i \in InputsOf(Top(t).node)} \ {NoOutput}])
    /\ UNCHANGED <<graph, status, value, flags, queue, exec, devices, unused>>

DefectDemandUnchecked(t) ==
    /\ In(t, "setNewOutputDemanded")
    /\ demanded' = demanded \cup Top(t).outs
    /\ Return(t)
    /\ UNCHANGED <<graph, status, value, execQueued, allowQueue, queue, exec, devices, unused>>

SetNewOutputDemanded(t) ==
    /\ In(t, "setNewOutputDemanded")
    /\ demanded' = demanded \cup Top(t).outs
    /\ Become(t, Check(Top(t).node, "AllNew"))
    /\ UNCHANGED <<graph, status, value, execQueued, allowQueue, queue, exec, devices, unused>>

SetNewInput(t) ==
    /\ In(t, "setNewInput")
    /\ ~InputsLocked(t, Top(t).node)
    /\ status' = [i \in Input |-> IF i \in Top(t).ins THEN "New" ELSE status[i]]
    /\ Become(t, Check(Top(t).node, "AllNew"))
    /\ UNCHANGED <<graph, value, flags, queue, exec, devices, unused>>

SetAllowQueue(t) ==
    /\ In(t, "setAllowQueue")
    /\ ~AllowQueueLocked(t, Top(t).node)
    /\ Become(t, [Top(t) EXCEPT !.op = "allowNode"])
    /\ UNCHANGED <<graph, status, value, flags, queue, exec, devices, unused>>

DefectAllowUnchecked(t) ==
    /\ In(t, "allowNode")
    /\ ~ExecQueuedLocked(t, Top(t).node)
    /\ allowQueue' = allowQueue \cup {Top(t).node}
    /\ Return(t)
    /\ UNCHANGED <<graph, status, value, demanded, execQueued, queue, exec, devices, unused>>

AllowNode(t) ==
    /\ In(t, "allowNode")
    /\ ~ExecQueuedLocked(t, Top(t).node)
    /\ allowQueue' = allowQueue \cup {Top(t).node}
    /\ Become(t, Check(Top(t).node, "AllNew"))
    /\ UNCHANGED <<graph, status, value, demanded, execQueued, queue, exec, devices, unused>>

-----------------------------------------------------------------------------
(* The mailbox thread: messages to the ImageProcessor *)

LinkInput(i) == [Call("setInput", InputOf[i]) EXCEPT !.ins = {i}]
LinkParent(i) == [Call("setOutput", OutputOf[Wire[i]]) EXCEPT !.ins = {i}]

\* onAddArcMessage and onSetPipelineMessage link the output, then the input;
\* onAddNodeMessage links the input of the new node first.
AddArc(i) ==
    /\ calls[Mailbox] = <<>>
    /\ Wire[i] # NoOutput
    /\ target[i] = NoOutput
    /\ {InputOf[i], OutputOf[Wire[i]]} \cap removed = {}
    /\ calls' = [calls EXCEPT ![Mailbox] =
                    IF i \in ParentsFirst
                    THEN <<LinkInput(i), LinkParent(i)>>
                    ELSE <<LinkParent(i), LinkInput(i)>>]
    /\ UNCHANGED <<graph, status, value, flags, queue, exec, devices, unused>>

\* setOutput asks the child about the input, holding m_outputs_lock.
SetOutput(t) ==
    /\ In(t, "setOutput")
    /\ ~OutputsLocked(t, Top(t).node)
    /\ Become(t, [Top(t) EXCEPT !.op = "linkOutput"])
    /\ UNCHANGED <<graph, status, value, flags, queue, exec, devices, unused>>

LinkOutput(t) ==
    /\ In(t, "linkOutput")
    /\ \A i \in Top(t).ins : ~InputsLocked(t, InputOf[i])
    /\ links' = [o \in Output |-> links[o] \cup {i \in Top(t).ins : Wire[i] = o}]
    /\ Return(t)
    /\ UNCHANGED <<target, removed, status, value, flags, queue, exec, devices, unused>>

SetInput(t) ==
    /\ In(t, "setInput")
    /\ ~InputsLocked(t, Top(t).node)
    /\ \A i \in Top(t).ins : ~OutputsLocked(t, OutputOf[Wire[i]])
    /\ target' = [i \in Input |-> IF i \in Top(t).ins THEN Wire[i] ELSE target[i]]
    /\ status' = [i \in Input |-> IF i \in Top(t).ins THEN "Old" ELSE status[i]]
    /\ Become(t, [Top(t) EXCEPT !.op = "setNewInput"])
    /\ UNCHANGED <<links, removed, value, flags, queue, exec, devices, unused>>

\* onRemoveArcMessage cuts the parent's side, then the child's.  It looks at the
\* child's links before, under its lock and no other.
RemoveArc(i) ==
    /\ calls[Mailbox] = <<>>
    /\ target[i] # NoOutput
    /\ InputOf[i] \notin removed
    /\ ~InputsLocked(Mailbox, InputOf[i])
    /\ calls' = [calls EXCEPT ![Mailbox] =
                    <<[Call("clearOutput", OutputOf[target[i]]) EXCEPT !.ins = {i}],
                      [Call("clearInput", InputOf[i]) EXCEPT !.ins = {i}]>>]
    /\ UNCHANGED <<graph, status, value, flags, queue, exec, devices, unused>>

ClearOutput(t) ==
    /\ In(t, "clearOutput")
    /\ ~OutputsLocked(t, Top(t).node)
    /\ links' = [o \in Output |-> IF OutputOf[o] = Top(t).node
                                  THEN links[o] \ Top(t).ins ELSE links[o]]
    /\ Return(t)
    /\ UNCHANGED <<target, removed, status, value, flags, queue, exec, devices, unused>>

\* The input keeps its status.
ClearInput(t) ==
    /\ In(t, "clearInput")
    /\ ~InputsLocked(t, Top(t).node)
    /\ target' = [i \in Input |-> IF i \in Top(t).ins THEN NoOutput ELSE target[i]]
    /\ Return(t)
    /\ UNCHANGED <<links, removed, status, value, flags, queue, exec, devices, unused>>

\* removeNode reads the links of the node, under its locks and no other, and
\* takes it off the register.  Then it unlinks the parents from the node, the
\* children from it, and the node from both; workers may be inside of any of
\* them, and keep the removed node alive.
RemoveNode(n) ==
    /\ calls[Mailbox] = <<>>
    /\ n \notin removed
    /\ ~InputsLocked(Mailbox, n) /\ ~OutputsLocked(Mailbox, n)
    /\ removed' = removed \cup {n}
    /\ Enter(Mailbox, [Call("unlinkParents", n) EXCEPT
                            !.outs = {target[i] : i \in InputsOf(n)} \ {NoOutput},
                            !.ins = UNION {links[o] : o \in OutputsOf(n)}])
    /\ UNCHANGED <<target, links, status, value, flags, queue, exec, devices, unused>>

UnlinkParents(t) ==
    /\ In(t, "unlinkParents")
    /\ LET c == Top(t) IN
        \/ /\ c.outs = {}
           /\ Become(t, [c EXCEPT !.op = "unlinkChildren"])
           /\ UNCHANGED links
        \/ \E o \in c.outs : LET parent == OutputOf[o] IN
            /\ ~OutputsLocked(t, parent)
            /\ links' = [p \in Output |-> IF OutputOf[p] = parent
                                          THEN links[p] \ InputsOf(c.node) ELSE links[p]]
            /\ Become(t, [c EXCEPT !.outs = @ \ OutputsOf(parent)])
    /\ UNCHANGED <<target, removed, status, value, flags, queue, exec, devices, unused>>

UnlinkChildren(t) ==
    /\ In(t, "unlinkChildren")
    /\ LET c == Top(t) IN
        \/ /\ c.ins = {}
           /\ Become(t, [c EXCEPT !.op = "clearOutputs"])
           /\ UNCHANGED target
        \/ \E i \in c.ins : LET child == InputOf[i] IN
            /\ ~InputsLocked(t, child)
            /\ target' = [j \in Input |-> IF InputOf[j] = child /\ target[j] \in OutputsOf(c.node)
                                          THEN NoOutput ELSE target[j]]
            /\ Become(t, [c EXCEPT !.ins = @ \ InputsOf(child)])
    /\ UNCHANGED <<links, removed, status, value, flags, queue, exec, devices, unused>>

ClearOutputs(t) ==
    /\ In(t, "clearOutputs")
    /\ ~OutputsLocked(t, Top(t).node)
    /\ links' = [o \in Output |-> IF OutputOf[o] = Top(t).node THEN {} ELSE links[o]]
    /\ Become(t, [Top(t) EXCEPT !.op = "clearInputs"])
    /\ UNCHANGED <<target, removed, status, value, flags, queue, exec, devices, unused>>

ClearInputs(t) ==
    /\ In(t, "clearInputs")
    /\ ~InputsLocked(t, Top(t).node)
    /\ target' = [i \in Input |-> IF InputOf[i] = Top(t).node THEN NoOutput ELSE target[i]]
    /\ Return(t)
    /\ UNCHANGED <<links, removed, status, value, flags, queue, exec, devices, unused>>

\* setParam marks the parameter New, with no lock held, and setNewInput does so
\* again.  The one paramChanged that changes what is modelled, which starts the
\* timer of a ThrottleNode again, is left out: no parameter of one is Settable.
SetParam(i) ==
    /\ calls[Mailbox] = <<>>
    /\ InputOf[i] \notin removed
    /\ status' = [status EXCEPT ![i] = "New"]
    /\ Enter(Mailbox, NewInput(i))
    /\ UNCHANGED <<graph, value, flags, queue, exec, devices, unused>>

ForceExec(n) ==
    /\ calls[Mailbox] = <<>>
    /\ n \notin removed
    /\ Enter(Mailbox, Check(n, "Force"))
    /\ UNCHANGED <<graph, status, value, flags, queue, exec, devices, unused>>

\* onImageMessage and its like keep the latest message and allow the node to
\* be queued, all under the mutex that doWork takes to fetch the message.
OnMessage(n) ==
    /\ calls[Mailbox] = <<>>
    /\ n \notin removed
    /\ n \in ClearThenTake => \E o \in OutputsOf(n) : links[o] # {}
    /\ inbox' = inbox \cup {n}
    /\ calls' = [calls EXCEPT ![Mailbox] = <<Call("setAllowQueue", n),
                                             Call("onMessage", n)>>]
    /\ UNCHANGED <<graph, status, value, flags, queue, exec, armed, unused>>

MessageHandled(t) ==
    /\ In(t, "onMessage")
    /\ Return(t)
    /\ UNCHANGED <<graph, status, value, flags, queue, exec, devices, unused>>

MessageLocked(n) ==
    \E k \in DOMAIN calls[Mailbox] :
        calls[Mailbox][k].op = "onMessage" /\ calls[Mailbox][k].node = n

DefectTimerAborted(n) ==
    /\ n \in armed
    /\ armed' = armed \ {n}
    /\ UNCHANGED <<graph, status, value, flags, queue, exec, calls, inbox, unused>>

\* ThrottleNode::timerCallback, on the node's io_service thread.
TimerCallback(n) ==
    /\ n \in armed
    /\ calls[n] = <<>>
    /\ armed' = armed \ {n}
    /\ Enter(n, Call("demandNewParentInput", n))
    /\ UNCHANGED <<graph, status, value, flags, queue, exec, inbox, unused>>

-----------------------------------------------------------------------------
(* Node::exec, on a worker thread *)

At(w, p) == exec[w].at = p /\ calls[w] = <<>>
Goto(w, p) == exec' = [exec EXCEPT ![w].at = p]

DefectSpuriousWakeup(w) ==
    /\ At(w, "waitNextJob")
    /\ queue = <<>>
    /\ exec' = [exec EXCEPT ![w] = [Idle EXCEPT !.at = "lockInputs"]]
    /\ UNCHANGED <<graph, status, value, flags, queue, calls, devices, unused>>

DefectLastInFirstOut(w) ==
    /\ At(w, "waitNextJob")
    /\ queue # <<>>
    /\ queue' = SubSeq(queue, 1, Len(queue) - 1)
    /\ exec' = [exec EXCEPT ![w] = [Idle EXCEPT !.at = "lockInputs", !.node = queue[Len(queue)]]]
    /\ UNCHANGED <<graph, status, value, flags, calls, devices, unused>>

WaitNextJob(w) ==
    /\ At(w, "waitNextJob")
    /\ queue # <<>>
    /\ queue' = Tail(queue)
    /\ exec' = [exec EXCEPT ![w] = [Idle EXCEPT !.at = "lockInputs", !.node = Head(queue)]]
    /\ UNCHANGED <<graph, status, value, flags, calls, devices, unused>>

LockInputs(w) ==
    /\ At(w, "lockInputs")
    /\ ~InputsLocked(w, exec[w].node)
    /\ exec' = [exec EXCEPT ![w].at = "gather",
                            ![w].ins = InputsOf(exec[w].node) \cap ImageInput]
    /\ UNCHANGED <<graph, status, value, flags, queue, calls, devices, unused>>

\* getImage takes the parent's m_outputs_lock while m_inputs_lock is held.
GetImage(w, i) ==
    /\ At(w, "gather")
    /\ i \in exec[w].ins
    /\ IF Valid(i) THEN ~OutputsLocked(w, OutputOf[target[i]]) ELSE i \in Optional
    /\ target[i] \in value \/ i \in Optional
    /\ exec' = [exec EXCEPT ![w].ins = @ \ {i}]
    /\ unused' = unused \ {i}
    /\ UNCHANGED <<graph, status, value, flags, queue, calls, devices>>

\* No parent, or nothing from it: bad_input_error.  The handler demands the
\* input again and returns, still holding m_inputs_lock.
BadInput(w, i) ==
    /\ At(w, "gather")
    /\ i \in exec[w].ins \ Optional
    /\ Valid(i) => ~OutputsLocked(w, OutputOf[target[i]]) /\ target[i] \notin value
    /\ status' = [status EXCEPT ![i] = "Invalid"]
    /\ Goto(w, "badInput")
    /\ IF target[i] = NoOutput THEN UNCHANGED calls ELSE Enter(w, Demand(target[i]))
    /\ UNCHANGED <<graph, value, flags, queue, devices, unused>>

UnlockInputs(w) ==
    /\ \/ At(w, "gather") /\ exec[w].ins = {} /\ Goto(w, "clearNewInput")
       \/ At(w, "badInput") /\ Goto(w, "finish")
    /\ UNCHANGED <<graph, status, value, flags, queue, calls, devices, unused>>

\* The condition as it is in exec: nodes slower than medium demand first.
DemandsBeforeWork(n) == n \in Slow

ClearNewInput(w) ==
    /\ At(w, "clearNewInput")
    /\ LET n == exec[w].node IN
        /\ status' = [i \in Input |-> IF InputOf[i] = n /\ status[i] # "Invalid"
                                      THEN "Old" ELSE status[i]]
        /\ IF DemandsBeforeWork(n)
           THEN Enter(w, Call("demandNewParentInput", n))
           ELSE UNCHANGED calls
    /\ Goto(w, "doWork")
    /\ UNCHANGED <<graph, value, flags, queue, devices, unused>>

\* doWork of a node that is fed by messages: it takes the latest one and calls
\* clearAllowQueue, in one order or the other.
TakeMessage(w) ==
    /\ At(w, "doWork")
    /\ exec[w].node \in TakeThenClear
    /\ ~MessageLocked(exec[w].node)
    /\ inbox' = inbox \ {exec[w].node}
    /\ Goto(w, "messageTaken")
    /\ UNCHANGED <<graph, status, value, flags, queue, calls, armed, unused>>

ClearsNow(w) ==
    \/ At(w, "doWork") /\ exec[w].node \in ClearThenTake
    \/ At(w, "messageTaken")

LockAllowQueue(w) ==
    /\ ClearsNow(w)
    /\ ~AllowQueueLocked(w, exec[w].node)
    /\ Goto(w, "clearAllowQueue")
    /\ UNCHANGED <<graph, status, value, flags, queue, calls, devices, unused>>

ClearAllowQueue(w) ==
    /\ At(w, "clearAllowQueue")
    /\ ~ExecQueuedLocked(w, exec[w].node)
    /\ allowQueue' = allowQueue \ {exec[w].node}
    /\ Goto(w, "doWork2")
    /\ UNCHANGED <<graph, status, value, demanded, execQueued, queue, calls, devices, unused>>

\* doWork sets some outputs and may throw.  A fast node demands new input
\* now, unless doWork threw.
DoWork(w) ==
    LET n == exec[w].node IN
    /\ At(w, IF n \in MessageNode THEN "doWork2" ELSE "doWork")
    /\ n \in ClearThenTake => ~MessageLocked(n)
    /\ inbox' = IF n \in ClearThenTake THEN inbox \ {n} ELSE inbox
    /\ armed' = IF n \in Asynchronous THEN armed \cup {n} ELSE armed
    /\ \E made \in SUBSET OutputsOf(n), threw \in BOOLEAN :
        /\ n \notin Faulty => made = OutputsOf(n) /\ ~threw
        /\ exec' = [exec EXCEPT ![w].at = "lockOutputs", ![w].outs = made]
        /\ IF threw \/ n \in Asynchronous \/ DemandsBeforeWork(n)
           THEN UNCHANGED calls
           ELSE Enter(w, Call("demandNewParentInput", n))
    /\ UNCHANGED <<graph, status, value, flags, queue, unused>>

LockOutputs(w) ==
    /\ At(w, "lockOutputs")
    /\ ~OutputsLocked(w, exec[w].node)
    /\ Goto(w, "setOutputs")
    /\ UNCHANGED <<graph, status, value, flags, queue, calls, devices, unused>>

SetOutputValue(w, o) ==
    /\ At(w, "setOutputs")
    /\ o \in exec[w].outs
    /\ demanded' = demanded \ {o}
    /\ value' = value \cup {o}
    /\ unused' = unused \cup (links[o] \cap ImageInput)
    /\ exec' = [exec EXCEPT ![w].outs = @ \ {o}, ![w].kids = @ \cup links[o]]
    /\ UNCHANGED <<graph, status, execQueued, allowQueue, queue, calls, devices>>

DefectNotifiesNobody(w) ==
    /\ At(w, "setOutputs")
    /\ exec[w].outs = {}
    /\ Goto(w, "finish")
    /\ UNCHANGED <<graph, status, value, flags, queue, calls, devices, unused>>

NotifyChildren(w) ==
    /\ At(w, "setOutputs")
    /\ exec[w].outs = {}
    /\ Goto(w, "finish")
    /\ Enter(w, [Call("notifyEach", exec[w].node) EXCEPT !.ins = exec[w].kids])
    /\ UNCHANGED <<graph, status, value, flags, queue, devices, unused>>

LockExecQueued(w) ==
    /\ At(w, "finish")
    /\ ~ExecQueuedLocked(w, exec[w].node)
    /\ Goto(w, "clearExecQueued")
    /\ UNCHANGED <<graph, status, value, flags, queue, calls, devices, unused>>

ClearExecQueued(w) ==
    /\ At(w, "clearExecQueued")
    /\ ~AllowQueueLocked(w, exec[w].node)
    /\ execQueued' = execQueued \ {exec[w].node}
    /\ Enter(w, Check(exec[w].node, "AllNew"))
    /\ exec' = [exec EXCEPT ![w] = Idle]
    /\ UNCHANGED <<graph, status, value, demanded, allowQueue, queue, devices, unused>>

-----------------------------------------------------------------------------
Init ==
    /\ target = [i \in Input |-> NoOutput]
    /\ links = [o \in Output |-> {}]
    /\ removed = {}
    /\ status = [i \in Input |-> "New"]
    /\ value = {}
    /\ demanded = {}
    /\ execQueued = {}
    /\ allowQueue = Node \ MessageNode
    /\ queue = <<>>
    /\ exec = [w \in Worker |-> Idle]
    /\ calls = [t \in Thread |-> <<>>]
    /\ inbox = {}
    /\ armed = {}
    /\ unused = {}

\* What a thread does next in the calls it is inside of.
CallStep(t) ==
    \/ CheckAddSched(t) \/ Conditions(t) \/ EnsureValidInput(t)
    \/ SetExecQueued(t) \/ AddJob(t) \/ DemandEach(t) \/ NotifyEach(t) \/ DemandNewParentInput(t)
    \/ SetNewOutputDemanded(t) \/ SetNewInput(t) \/ SetAllowQueue(t) \/ AllowNode(t)
    \/ SetOutput(t) \/ LinkOutput(t) \/ SetInput(t) \/ MessageHandled(t)
    \/ ClearOutput(t) \/ ClearInput(t) \/ UnlinkParents(t) \/ UnlinkChildren(t)
    \/ ClearOutputs(t) \/ ClearInputs(t)

\* What a worker does next in exec, when it is not inside of a call.
ExecStep(w) ==
    \/ WaitNextJob(w) \/ LockInputs(w) \/ UnlockInputs(w) \/ ClearNewInput(w)
    \/ TakeMessage(w) \/ LockAllowQueue(w) \/ ClearAllowQueue(w) \/ DoWork(w)
    \/ LockOutputs(w) \/ NotifyChildren(w) \/ LockExecQueued(w) \/ ClearExecQueued(w)
    \/ \E i \in Input : GetImage(w, i) \/ BadInput(w, i)
    \/ \E o \in Output : SetOutputValue(w, o)

Build == \E i \in Input : AddArc(i)

\* Messages that may come at any time, or never.
Disturb ==
    \/ \E i \in Settable : SetParam(i)
    \/ \E n \in Forced : ForceExec(n)
    \/ \E i \in Rewired : RemoveArc(i)
    \/ \E n \in Removable : RemoveNode(n)
    \/ \E n \in MessageNode : OnMessage(n)

Next ==
    \/ \E t \in Thread : CallStep(t)
    \/ \E w \in Worker : ExecStep(w)
    \/ \E n \in Asynchronous : TimerCallback(n)
    \/ Build
    \/ Disturb

Spec == Init /\ [][Next]_vars

\* The operating system runs every thread, and timers go off.  A thread that
\* waits for a mutex that is released again and again gets it in the end: else
\* messages could come so fast that the mailbox thread keeps the workers out.
\* The messages that build the pipeline arrive; no other message has to.
Fairness ==
    /\ \A t \in Thread : SF_vars(CallStep(t))
    /\ \A w \in Worker : SF_vars(ExecStep(w))
    /\ \A n \in Asynchronous : WF_vars(TimerCallback(n))
    /\ WF_vars(Build)

FairSpec == Spec /\ Fairness

-----------------------------------------------------------------------------
(* Properties *)

Frame == [op : Operations, node : Node, mode : Modes,
          ins : SUBSET Input, outs : SUBSET Output]
Running == [at : Points \ {"waitNextJob"}, node : Node, ins : SUBSET Input,
            outs : SUBSET Output, kids : SUBSET Input]

\* The type invariant.
TypeOK ==
    /\ target \in [Input -> Output \cup {NoOutput}]
    /\ links \in [Output -> SUBSET Input]
    /\ removed \subseteq Node
    /\ status \in [Input -> {"New", "Old", "Invalid"}]
    /\ value \subseteq Output
    /\ demanded \subseteq Output
    /\ execQueued \subseteq Node
    /\ allowQueue \subseteq Node
    /\ queue \in Seq(Node)
    /\ exec \in [Worker -> {Idle} \cup Running]
    /\ calls \in [Thread -> Seq(Frame)]
    /\ inbox \subseteq MessageNode
    /\ armed \subseteq Asynchronous
    /\ unused \subseteq Input

InQueue(n) == \E k \in DOMAIN queue : queue[k] = n
IsRunning(n) == \E w \in Worker : exec[w].node = n

\* m_exec_queued is set exactly while the node is on the queue or inside of
\* exec: otherwise it would be executed twice, or never be queued again.
ExecQueuedIsExact ==
    \A n \in Node : n \in execQueued <=> InQueue(n) \/ IsRunning(n)

\* A node is on the queue at most once, runs on at most one worker, and is
\* never on the queue while it runs ("prevent nodes from executing in more
\* than one thread at once", node.h:747).
RunsOnce ==
    /\ \A j, k \in DOMAIN queue : queue[j] = queue[k] => j = k
    /\ \A v, w \in Worker : exec[v].node = exec[w].node /\ exec[v].node # NoNode => v = w
    /\ \A n \in Node : ~(InQueue(n) /\ IsRunning(n))

\* The scheduler as its nodes see it: SerialQueue.
Serial == INSTANCE SerialQueue WITH
    waiting <- queue, running <- [w \in Worker |-> exec[w].node]
RunsSerially == Serial!Spec

\* A call that will mark input i New is on its way.
WillBeNew(i) ==
    \/ \E t \in Thread : \E k \in DOMAIN calls[t] :
        i \in calls[t][k].ins /\ calls[t][k].op \in {"setInput", "setNewInput", "notifyEach"}
    \/ \E w \in Worker : i \in exec[w].kids

\* What checkAddSched found still holds while the node is on the queue: nobody
\* withdraws the demand or makes a required input old or invalid, but for
\* setInput, which is about to make it new again.  A forced node need not be ready.
QueuedStaysReady ==
    \A n \in Node \ Forced : InQueue(n) =>
        /\ OutputDemanded(n)
        /\ \A i \in InputsOf(n) \cap MustBeNew : status[i] = "New" \/ WillBeNew(i)

\* Nothing that checkAddSched asks for is missing.  An output node is made with
\* all its inputs New, and nobody looks at it until something is linked to it.
Runnable(n) ==
    /\ n \in allowQueue
    /\ OutputDemanded(n)
    /\ AllRequiredInputsAreNew(n)
    /\ \A i \in InputsOf(n) \ Optional : Valid(i)
    /\ n \in OutputNode => \E i \in InputsOf(n) : target[i] # NoOutput

\* A node that could be scheduled is, or a call that will check it is under way:
\* no wake-up of checkAddSched is lost.
ReadyIsQueued ==
    \A n \in Node : Runnable(n) =>
        \/ n \in execQueued
        \/ \E t \in Thread : \E k \in DOMAIN calls[t] :
            /\ calls[t][k].node = n
            /\ calls[t][k].op \in Checking \cup
                 {"checkAddSched", "setInput", "setNewInput",
                  "setNewOutputDemanded", "setAllowQueue", "allowNode"}

\* What thread t does next needs m_allow_queue_lock or m_exec_queued_lock of n.
NeedsAllowQueue(t, n) ==
    \/ /\ calls[t] # <<>> /\ Top(t).node = n
       /\ \/ Top(t).op \in {"setAllowQueue", "addJob"}
          \/ Top(t).op = "checkAddSched" /\ Top(t).mode # "Force" /\ n \notin execQueued
          \/ Top(t).op = "refuse" /\ Top(t).outs = {}
    \/ t \in Worker /\ exec[t].node = n /\ (ClearsNow(t) \/ At(t, "clearExecQueued"))
NeedsExecQueued(t, n) ==
    \/ /\ calls[t] # <<>> /\ Top(t).node = n
       /\ \/ Top(t).op \in {"checkAddSched", "setExecQueued", "allowNode"}
          \/ Top(t).op = "refuse" /\ Top(t).outs = {}
    \/ t \in Worker /\ exec[t].node = n /\ (At(t, "finish") \/ At(t, "clearAllowQueue"))

\* Thread t waits for a mutex that thread u holds.  exec takes the inputs in the
\* order of their ids, which may be any: each may be the next.
WaitsForNode(t, u) ==
    \/ In(t, "checkAddSched") /\ HoldsChecking(u, Top(t).node)
    \/ /\ calls[t] # <<>>
       /\ Top(t).op \in {"conditions", "ensureValidInput", "setExecQueued", "setInput",
                          "setNewInput", "demandNewParentInput", "clearInput", "clearInputs"}
       /\ HoldsInputs(u, Top(t).node)
    \/ /\ calls[t] # <<>>
       /\ Top(t).op \in {"setOutput", "clearOutput", "clearOutputs"}
       /\ HoldsOutputs(u, Top(t).node)
    \/ In(t, "unlinkParents") /\ \E o \in Top(t).outs : HoldsOutputs(u, OutputOf[o])
    \/ In(t, "unlinkChildren") /\ \E i \in Top(t).ins : HoldsInputs(u, InputOf[i])
    \/ In(t, "linkOutput") /\ \E i \in Top(t).ins : HoldsInputs(u, InputOf[i])
    \/ In(t, "setInput") /\ \E i \in Top(t).ins : HoldsOutputs(u, OutputOf[Wire[i]])
    \/ /\ t \in Worker
       /\ At(t, "gather")
       /\ \E i \in exec[t].ins :
            target[i] # NoOutput /\ status[i] # "Invalid" /\ HoldsOutputs(u, OutputOf[target[i]])
WaitsForFlag(t, u) ==
    \E n \in Node :
        \/ NeedsAllowQueue(t, n) /\ HoldsAllowQueue(u, n)
        \/ NeedsExecQueued(t, n) /\ HoldsExecQueued(u, n)
WaitsFor(t, u) == t # u /\ (WaitsForNode(t, u) \/ WaitsForFlag(t, u))

\* Threads that wait for each other in a circle will do so for ever.
Circles == {S \in (SUBSET Thread) \ {{}} : \A t \in S : \E u \in S : WaitsFor(t, u)}

\* Thread t holds m_allow_queue_lock of n, and u m_exec_queued_lock: each waits
\* for the other's.
FlagsCross(t, u, n) == HoldsAllowQueue(t, n) /\ HoldsExecQueued(u, n)

\* No threads wait for each other in a circle.  The locks of children are taken
\* before those of their parents, wherever a thread holds more than one; but the
\* locks of a node's two flags are taken in both orders (node.cpp:1266-1303), so
\* that a node that is fed by messages can block: see OnlyFlagsCross.
NoDeadlock == Circles = {}

\* The only circles there are begin with a message that allows a node on the
\* queue, while a worker puts it there or ends its exec.
OnlyFlagsCross == \A S \in Circles : \E t, u \in S, n \in MessageNode : FlagsCross(t, u, n)

\* The pipeline is built, the mailbox is silent, and nothing is left to happen.
Built == \A i \in Input : Wire[i] # NoOutput => target[i] # NoOutput
Quiescent ==
    /\ queue = <<>>
    /\ armed = {}
    /\ \A t \in Thread : calls[t] = <<>>
    /\ \A w \in Worker : exec[w] = Idle

\* A pipeline from sources that can always run to an output node never comes to
\* rest: each node in turn is demanded, is fed, and passes both on.
NeverStalls == ~(Built /\ Quiescent)

\* A message that a node has not taken leaves the node allowed on the queue,
\* once the handler has returned, unless an exec is about to take it.
WaitingMessageIsAllowed ==
    \A n \in inbox : n \in allowQueue \/ MessageLocked(n) \/
        \E w \in Worker : exec[w].node = n /\ exec[w].at = "doWork2"

\* Every message a device sends is taken by some doWork, unless the thread that
\* brings messages and a worker come to block each other over the node's flags.
MessagesAreTaken ==
    \A n \in MessageNode :
        n \in inbox ~> (n \notin inbox \/ \E t, u \in Thread : FlagsCross(t, u, n))

\* Each image that is delivered is read, it or a newer one, and output nodes
\* do not stop displaying.
ImagesAreRead == \A i \in Input : i \in unused ~> i \notin unused
OutputsKeepRunning == \A n \in OutputNode : []<>IsRunning(n)

\* node.cpp:772: "request new images from parents after executing".  When the
\* pipeline rests, the parent of an input that exec has used has been asked.
UsedInputsAreDemanded ==
    Built /\ Quiescent =>
        \A i \in Input : status[i] = "Old" /\ target[i] # NoOutput => target[i] \in demanded

\* node.h:545: output nodes "always execute whenever there is new input".  When
\* the pipeline rests, none has an image to read on an input it thinks invalid.
OutputNodesSeeNewInput ==
    Built /\ Quiescent =>
        \A i \in Input : InputOf[i] \in OutputNode /\ target[i] \in value
            => status[i] # "Invalid"
=============================================================================
