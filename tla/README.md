# Specifications of the CAUV software

TLA+ modules, TLC models and TLAPS proofs for the software of the Cambridge
autonomous underwater vehicle: C++ and Python 2 processes that exchange
messages over ZeroMQ and ROS.  Paths below are relative to `src/`; the modules
name the functions they model, and `PROJECT.json` gives the lines.

Contents: [inventory](#inventory) · [modules](#modules) · [runs](#runs) ·
[fairness](#fairness) · [proofs](#proofs) · [findings](#findings) ·
[what is not modelled](#what-is-not-modelled) · [plan](#plan)

## Inventory

### Image pipeline (`auv/img-pipeline`)

A graph of image-processing nodes, edited by messages while it runs.

| Part | State | Operations | Correct when |
|---|---|---|---|
| `Node` (node.cpp, node.h) | inputs (`target`, `status`), outputs (`value`, `targets`), `m_output_demanded_on`, `m_exec_queued`, `m_allow_queue`, and a recursive mutex for each of them and for `checkAddSched` | `checkAddSched` and the calls that end in it; `exec`; linking and unlinking | a node runs on one thread at a time; it runs when an image is demanded and its inputs are new; no wake-up is lost; no threads wait in a circle |
| `InputNode` and device nodes | a stored message, `allowQueue` | message callback, `doWork` | a message that arrived is processed |
| `ThrottleNode` | a timer on an io_service thread | `doWork`, `timerCallback`, destructor | the pipeline goes on at a limited rate; destruction ends |
| `Scheduler` (scheduler.cpp) | queues, worker threads | `addJob`, `waitNextJob`, `start`, `stopWait` | each job is run once, in turn |
| `ImageProcessor` (imageProcessor.cpp) | `m_nodes`, ids | a handler per message: nodes, arcs, whole pipelines, parameters, forced executions, images | both sides of an arc, the register of nodes and the clients agree, even when a handler fails halfway |
| about eighty node types | images | `doWork` | numerical |

The mailbox thread handles messages and calls into nodes; worker threads call
from children to parents (`getImage`, `setNewOutputDemanded`) and from parents
to children (`setNewInput`), and each of those calls may put a node on the queue
again.  Hard: the interleavings of these calls, the order of locks, state that is
read under one lock and used under another, exceptions from `doWork`.

### AI (`auv/scripting/AI`)

| Part | State | Operations | Correct when |
|---|---|---|---|
| task manager (exe/task_manager.py), tasks.py, conditions.py | tasks, conditions, which task is active, crash counts, lists of the last choice | message handlers, `process_periodic` once a second | what runs is what the manager believes, but for what late reports make of it; one script at a time; retired tasks stay off; the best task comes to run |
| scripts, detectors, options | the state of one script | `ScriptExit`, `ScriptState`, `DetectorFired` | the manager hears of each end |
| location manager, remote interfaces | positions; proxies | forwarding | – |

Messages go to watch (start and stop a script) and come from watch
(`ProcessEnded`), scripts (`ScriptExit`, repeated once a second until the
script is killed), detectors and the GUI.  Everything runs on one event loop
(`scripting/utils/event.py`), so handlers do not overlap; hard are late and
repeated messages, whose subject may have been started again.

### Process supervision (`auv/scripting/watch.py`, `utils/watch.py`, `utils/watchfuncs.py`)

State of each process: `state`, `pid`, `sigs`; a monitor thread goes round all
of them; the messaging thread and the prompt start, stop and restart.  Nothing
is locked.  Correct when there is one process of each name, none is forgotten,
stops end, deaths are reported and dependencies are started.

### Messaging (`common/zeromq/zeromq_mailbox.cpp`)

State of each node: `connections`, `send_connect_pids`, `subscriptions`,
`publications`, and a socket file in a directory that all nodes of the machine
read.  Operations: the constructor (bind, read the directory, connect),
`handle_pub_message` (filters that come from subscribers), `handle_sub_message`
(invitations, confirmations), `handle_subscription_message` (what the node's own
program asks).  There is no server: nodes that come up, die and leave files
behind must find each other all the same, and one that was told that a
subscription is known relies on those it made before.

### Pipeline client (`auv/scripting/cauv/pipeline.py`)

State: what a call waits for and the answer it got, one slot of each kind.  A
script calls `addSynchronous` and the like and sleeps up to a time-out; the
messaging thread compares answers, clears the slot and stores the answer, in
three steps of which the first two take no lock.  Answers name no request.
Correct when no answer to a waiting call is lost and no call takes what is not
its own – which time-outs and other clients make hard.

### Seanet sonar (`auv/sonar`)

State: `m_state`, `m_motor_state`, `m_cur_data_reqs`, a queue of lines.  A read
thread brings the head up and asks it for data, a second one hands lines on,
messages set parameters.  The head may reboot, lose its power and send
packets that come damaged, and whose length the driver trusts.  Correct when the
count of requests matches what the head owes, and lines keep coming.

### Event loop (`auv/scripting/utils/event.py`)

State: two heaps of events (queued, waiting for their time), `running`,
`stopped`.  Any thread adds events; the loop sleeps until the next is due.
Correct when urgent events go first, none is forgotten, and `join` returns.

### Other parts

| Part | Sources | State and operations | What is hard |
|---|---|---|---|
| control arbitration | scripting/utils/control.py, cauv/control.py, control/pid.cpp | locks on the axes of the vehicle by priority, token and time-out | nothing that spans two messages |
| last resorts | scripting/*last-resort.py | a timer that surfaces the vehicle | – |
| missions, script and detector libraries | script_library, detector_library | geometry and tuning | – |
| control loops, motors, IMUs | auv/control | PID controllers, telemetry threads | order of start-up |
| motor control bridge | auv/mcb_bridge | framing of packets on a serial line | damaged packets |
| Gemini sonar, cameras | auv/gemini, auv/camera | I/O | – |
| SLAM | auv/SLAM | registration of point clouds | numerical |
| Heimdall | heimdall, scripting/heimdall | a map of peers on other machines | – |
| pipeline model, GUI, simulator | common/pipeline_model, gui, sim | views | – |
| temperature, Python bindings, debug, message generator | auv/temperature, auv/python-module, debug | I/O, generated code | – |
| vendored libraries | embedded_libs, auv/lib/xsens | third-party | – |

`PROJECT.json` lists every component with what is modelled of it, and under
`hazards` what in this code is hard to test, at its line, with the property
that watches over it.

## Modules

In every module an operator named `Defect...` is not the code: it is what a
bug would make of the definition that follows it, kept to show that a property
can fail.

### `NodeSched`: nodes, scheduler, workers, the mailbox thread

A thread is a stack of the member functions it is inside of (`calls`), and a
worker also has the point it has reached in `Node::exec` (`exec`).  One action
is what a thread does under one mutex; between two actions any other thread may
act.  Mutexes that are held over several actions are no variables: who holds
one follows from the stacks (`HoldsChecking`, `HoldsInputs`, `HoldsOutputs`,
`HoldsAllowQueue`, `HoldsExecQueued`), which also makes them recursive.  The four
functions that write `m_allow_queue` or `m_exec_queued` read the other flag,
under its own lock, before they let go of theirs; so each of them is two
actions, one that takes the first lock and one that takes the second and does
the rest.

| Code | Module |
|---|---|
| `Input::target`, `Output::targets` | `target`, `links` |
| `Input::status`, output values | `status`, `value` |
| `m_output_demanded_on`, `m_exec_queued`, `m_allow_queue` | `demanded`, `execQueued`, `allowQueue` |
| `checkAddSched`, `setExecQueued` | `CheckAddSched`, `Conditions`, `EnsureValidInput`, `SetExecQueued`, `AddJob` |
| `setNewInput`, `setNewOutputDemanded`, `demandNewParentInput` | actions of the same names |
| `setAllowQueue` | `SetAllowQueue`, `AllowNode` |
| `exec` | `LockInputs`, `GetImage`, `BadInput`, `UnlockInputs`, `ClearNewInput`, `DoWork`, `LockOutputs`, `SetOutputValue`, `NotifyChildren`, `LockExecQueued`, `ClearExecQueued` |
| `doWork` of the device nodes, `clearAllowQueue` | `TakeMessage` or the message's part of `DoWork`; `LockAllowQueue`, `ClearAllowQueue`, before or after it |
| `ThrottleNode::timerCallback` | `TimerCallback` |
| `setOutput`, `setInput`, `setParam` | `SetOutput` and `LinkOutput`, `SetInput`, `SetParam` |
| messages: pipeline, arcs, nodes, parameters, force, images | `Build`, `AddArc`, `LinkInput`, `LinkParent`, `SetParam`, `ForceExec`, `OnMessage`, `MessageHandled` |
| `onRemoveArcMessage` | `RemoveArc`, then `ClearOutput` of the parent and `ClearInput` of the child |
| `removeNode` | `RemoveNode`, then `UnlinkParents`, `UnlinkChildren`, `ClearOutputs`, `ClearInputs` |

Images are abstracted to whether an output has one and whether an input's is
new, old or invalid.  What a node type decides of its own scheduling is a constant:
its speed, its kinds of inputs, whether it is an output node, whether `doWork`
may fail, how it uses `allowQueue`.  `unused` is a history variable: the
inputs to which an image was delivered that no execution has read, it or a
newer one.  Arcs and nodes go away while workers are inside the `exec` of them
and of their neighbours: a removed node is off the register (`removed`) and
lives on as long as a thread is inside of it.  No node calls `requireSyncInputs`, and nothing passes the modes
`AnyNew` and `Always`, so the branches about them are left out.

`SerialQueue` is the abstract specification: jobs wait in a queue, without
repetition, and workers take them from its head; a job that is running is not
in the queue.  `RunsSerially` says that `NodeSched` implements it, with the
scheduler's queue and the workers' current nodes for its two variables.

### `PipelineGraph`: what messages do to the graph

One thread handles all messages and nothing else changes the graph, so a
handler is one action.  It composes the linking functions (`SetOutput`,
`SetInput`, `ClearOutput`, `ClearInput`) on a record with both sides of the
graph and `ok`; after the first exception (`Thrown`) the functions that follow
do nothing, and the handler announces nothing.  `target` is the children's side,
`links` the parents' (how often the input stands in the list), `nodes` the
register, `announced` a history of what clients were told.  `misused` is set by
messages that name an arc which does not exist (RemoveArc) or cannot be made;
invariants about agreement speak of runs without such messages, because no
document says what they should do and the code leaves some of them half done.
`ReadersAreTold`, the one that keeps the pipeline alive, holds for all runs.

| Code | Module |
|---|---|
| `onAddArcMessage`, `onRemoveArcMessage` | `AddArc`, `RemoveArc` |
| `onAddNodeMessage`, and its failure at some arc | `AddNode`, `AddNodeFails` |
| `removeNode`, `onRemoveNodeMessage` | `RemoveNode` |
| `onClearPipelineMessage`, `onSetPipelineMessage` | `ClearPipeline`, `SetPipeline` |

Input and output ids that a node does not have are not modelled (they throw
before anything changes on that side).

### `TaskManager`: the AI's choice of scripts

One action per message handler, and `ProcessPeriodic`.  The event loop runs one
handler at a time but keeps no order among waiting messages, and messages may
be old, so a message of any kind about any task may come next.  Only the reports
of watch are followed from their cause: a script dies (`ScriptDies`), its report
is under way (`reports`), and comes some time later (`ProcessEnded`), when the
task may have been started again.  `scripts` is what runs: from the order to
start it to the order to stop it, unless it dies; no message takes a script out
of it.  `misled` is a history: the scripts that run although a report about an
earlier run made the manager take them for dead.  `detectors` is what watch was
told; everything else is a field of the manager, of its tasks or of its conditions.
Times are counted since, or until, the moment that matters, up to the limit
they are compared with; `crashCount` up to one more than its limit.  A task that
is removed has its fields reset, which is how a later task of that name is made.

### `Watch`: the process supervisor

`Visit` is one tick of the monitor for one process, up to the point where
another thread can come in; `CheckPrereq`, `NotReady`, `Launch`, `LaunchFails`,
`Died`, `DeathCallback`, `Gone`, `AlsoRestart`, `AllRestarted` and `SetState`
are the rest of it.  Requests (`Request`) read the state in one step and write
it in another (`DecideStop`, `Carry`), as the code does without a lock.  Of a
pid it matters only whether it is that of a live process (`alive`), and of
live processes without a pid only whether there are any (`orphaned`).  `owed`
is a history: processes started, and neither reported dead nor asked to stop.

### `Mailbox`: how nodes find each other and learn of subscriptions

A node is a process, by its pid: one that is started again is another node.
The sockets belong to libxs, outside the repository; what the code relies on of
them is modelled (filters arrive in order, any time later, once per topic).
What a program asks of its mailbox is a constant (`Calls`).

| Code | Module |
|---|---|
| constructor: bind, `opendir`, the loop of `readdir`, its end | `Bind`, `OpenDir`, `Scan` (with `IsOrphan`), `ScanEnds` |
| `handle_pub_message` | `HandlePub`, with `Invite` and `Confirm`; `ConnectionBreaks` |
| `handle_sub_message` | `HandleInvitation`, `HandleConfirmation` |
| `handle_subscription_message` | `HandleSubscription`, with `Subscribe` and `Unsubscribe` |
| a process that ends or is killed | `End` |

### `PipelineClient`: synchronous calls with time-outs

The calling thread (`Begin`, `End`), the messaging thread in the three steps of
an `on...Message` (`OnMessage`, `Clear`, `Keep`), the pipeline (`Serve`, one
request after the other) and other clients (`OtherAsks`).  A time-out is an
`End` that finds no answer, at any time.  `own` and `returned` are histories.

### `SeanetSonar`: the driver and the head

`Receive` is one packet in the read thread, in any of the five states
(`WaitForVersion`, `Scanning`); `Timeout` three seconds of silence; `Process` and
`SetParams` the other threads.  `readPacket` trusts the length that a packet
says it has, so a garbled packet takes any number of those behind it with it
(`SkipGarbled`), or makes the read time out (`GarbledTimesOut`).  The head is
hardware, modelled from what the driver expects of it (`Obey`, `Centre`,
`Answer`, `TellAlive`).  It may lose its power (`LosePower`) and have it back when
the driver has seen that (`PowerComesBack`) or before (`Blink`).  `lost` is a
history: the requests and lines of data that were lost, on the line or with the
head's power, since the driver last gave up and began to count anew (`GiveUp`).
What goes to the head does not come garbled.  The packets
that may be on the line at the start are part of `Init`: the head may still be
at work for a driver that was killed.

### `EventLoop`: events, delays, start, stop, join

`Iterate`, `Drain`, `Wait`, `Get`, `TimesOut` and `Run` are the steps of
`EventLoop.run`, `Start`, `Cleared`, `Stop` and `Join` those of the owner, `Add`
those of any other thread, `Tick` is time.  `Autostart` is the constructor, which
puts the repeating events on the queue one after the other.  `Push` and `Pop` are
`heapq`'s, down to the place of each event: all events of one priority compare
equal, and which of them comes first follows from the layout alone.  They are
defined without recursion, by the way that an event takes through the heap
(`Way`): the least set of positions that has its start and is closed under one
step.

### Models and proofs

`MCNodeSched`, `MCPipelineGraph`, `MCTaskManager`, `MCWatch`, `MCMailbox`,
`MCPipelineClient` and `MCEventLoop` give the constants their values for TLC
(`SeanetSonar` has plain numbers and needs none).  Each module has its theorems
in one of its own: `NodeSched_proofs`, `PipelineGraph_proofs`,
`TaskManager_proofs`, `Watch_proofs`, `Mailbox_proofs`, `SeanetSonar_proofs`,
`PipelineClient_proofs` and `EventLoop_proofs`.

## Runs

Each run is a module and a `.cfg`; `PROJECT.json` names its properties.

| Run | Instance | Shows |
|---|---|---|
| chain | camera → filter → display, two workers, linked while they run | `RunsSerially`: it implements `SerialQueue`, so no node runs twice at once. `QueuedStaysReady`: what `checkAddSched` found stays true until the node runs. `ImagesAreRead`, `OutputsKeepRunning`: with fair threads no image is left and the display goes on for ever |
| messages | a source that forbids itself the queue before it takes its message (`SonarInputNode`) → display with a settable parameter, which messages also force to run | `MessagesAreTaken`: no message is left behind, however fast all three kinds come, unless the mailbox thread and a worker block each other over the flags of the source (*flags* below) |
| throttle | the chain with an asynchronous filter whose arc is removed and made again, and a slow display that may throw | `NeverStalls` |
| fork | a source that messages allow on the queue, two displays, one of which is removed at any time | `OnlyFlagsCross`: no circle of waits but the one over the flags of the source; `ReadyIsQueued`: no wake-up is lost |
| addnode | source → display, the display added by an AddNode message that names its parent | a circle of waits: see [findings](#findings) |
| graph | camera, filter (image and number inputs), display; arcs of right and wrong types | the two sides, the register and the clients agree |
| mission | two tasks, a switch and a detector, two priorities with `running_priority` between them | `OrdersMatchBelief`, `OneScriptAtATime`: what runs is what the manager believes, one at a time, but for scripts that late reports have hidden; the manager's other promises, and that the best task comes to run |
| watch | a service and a script that depends on it (below) | nothing forgotten, stops end, deaths reported, dependencies started |
| mailbox | a GUI that subscribes to two topics, a node that subscribes and cancels and may die, and its successor | any two nodes find each other (`ScansMeet`, `NodesMeet`), are connected twice only if both found the other (`DoubledOnlyIfBothFound`), and confirm subscriptions, in order (`ConfirmedInOrder`, `SubscriptionsAreConfirmed`) |
| sonar | a head at work or not, one loss of power, seen by the driver or not, one garbled packet with what it takes along, one change of parameters | `NoAnswerIsAwaitedInVain`, `RequestsFindParams`, `ScanningGoesOn` |
| client | three calls of any kind, one request of another client; one node type that cannot be made | `AddsReturnDistinctNodes`, `TimelyCallsAreAnswered`, `NoAnswerIsMissed` |
| event | three repeating events and an ordinary one of one priority, and an urgent one | `UrgentFirst`, `WakesInTime`, `EventsAreRun`, `JoinsEnd` |

Twelve more configurations each end in a counterexample on purpose:
`NodeSched_flags.cfg`, `NodeSched_throws.cfg`, `NodeSched_net.cfg`,
`NodeSched_untold.cfg`, `NodeSched_twoarcs.cfg`, `NodeSched_loop.cfg` (with
`MCNodeSched`), `TaskManager_stale.cfg` (`MCTaskManager`), `Watch_orphan.cfg`
(`MCWatch`), `SeanetSonar_garbled.cfg`, `SeanetSonar_blink.cfg` (`SeanetSonar`),
`PipelineClient_late.cfg` (`MCPipelineClient`) and `EventLoop_passedover.cfg`
(`MCEventLoop`).  What they show is under [findings](#findings).

Bounds, and why they are enough for what they show:

- *NodeSched.*  Two workers are what `Scheduler::start` creates for the one
  queue that is used (`Fast_Threads`).  With the mailbox thread, and a timer
  thread in the run *throttle*, they are all the threads there are.  Three nodes have
  a source, a sink and a node that is both; a fork adds a parent with two
  children.  Nothing is bounded besides: the queue is finite because each node is on it
  once, and stacks because calls go only to neighbours.  Runs for safety treat
  the workers as symmetric; runs with liveness do not.
- *PipelineGraph.*  Three nodes: one with outputs only, one with both, one with
  inputs only, and inputs of two types.  `MaxLinks` = 2 bounds how often one
  arc is put into a list, in the guard of `AddArc`; only messages that cannot
  be carried out repeat an arc.
- *TaskManager.*  Two tasks compete; priorities 1 and 3 lie on both sides of
  `running_priority` = 2.  `CrashLimit` 0, `FrequencyLimit` 1 and `Timeout` 0
  keep the counters small: each still has a value below and one beyond its
  limit.  `Settings` are the tasks that a mission file or a request may ask for:
  both tasks, both priorities, one condition or both.  One report of watch is
  under way at a time (`MaxReports`), which may concern either task and be late
  by any number of runs.  Conditions of the other kinds (`TimeCondition`, `TimeoutCondition`,
  `TaskSuccessfulCondition`) are covered by the proofs, which hold for any `Kind`.
- *Mailbox.*  Three nodes: two that live on and one that dies and is replaced
  cover every pair of a scanning, a dying and a successor node.  Two topics are
  what an order of confirmations needs.
- *PipelineClient.*  Three calls: one that times out, one that gets its answer,
  and one that is then left with a later answer.  One request of another client
  is enough to answer a call that never asked.
- *SeanetSonar.*  `VersionEvery` 2, `QueueMax` 1 and `LineMax` 2 stand for 10, 200 and
  the length of a serial buffer: what the driver does depends only on whether
  the limit is reached, and answers to requests are not held back by `LineMax`.
  `MaxOutages`, `MaxBlinks`, `MaxGarbled` and `MaxSets` are 1, so that each fault
  can fall into every phase of the start-up and two of them can meet; one garbled
  packet can take up to three lines of data with it, which is what stops the driver.
- *EventLoop.*  Delays 1 and 2, one second of one tick, at most one event of
  each function at a time; times are kept no further back than `Overdue`.  Three
  repeating functions and a message of one priority are the fewest of which one
  can be passed over for ever.
- *Watch.*  The service can be searched for, starts by itself, may fail to
  start, and has a limited number of restarts.  The script is found only by
  its node's name, reports its death, may survive SIGKILL, depends on the service and
  is restarted with it.  Between them they reach every branch.  A stop has
  one signal: with a process that survives it, the list is used both up
  to a death and up to its end.

Deadlock is checked in the runs whose system has always something to do.  It
is not in those where every message is voluntary and the rest may come to
rest (*mission*, *watch*, *mailbox*, *client*), in *event*, where the loop ends,
in *messages* and *fork*, where threads may block each other over a node's flags
and nothing else need happen then, nor in configurations that search for one
violation.

## Fairness

- *NodeSched*: strong fairness of each thread's steps.  The operating system
  runs every thread, and a thread that waits for a mutex that is released
  again and again gets it at last: with weak fairness alone, messages could
  come so fast that the mailbox thread shuts the workers out for ever.  Weak
  fairness of timers and of the messages that build the pipeline.  None for
  device messages, parameters and forced executions.
- *TaskManager*: weak fairness of `ProcessPeriodic`, a repeat event that puts
  itself on the loop again before it does anything.  The loop pops it from the
  queue that the messages are on, and may pass over it for ever while messages of
  the same priority come (*passedover* below).  So `ChoiceIsFollowed`, the one
  property that rests on this fairness, speaks of behaviours alone in which
  messages stop coming, and deaths of scripts with them (`Quiet`): then the
  queue of the manager, which has no other repeat event, holds this one alone.
  It assumes that the loop's thread lives; `event.py:217` can pass a negative
  time-out to `Queue.get`, which ends it (`EventLoop` models it).
- *Watch*: weak fairness of the monitor, which goes round all processes
  (`round`), and of carrying out a request once made.  No process has to end
  but by SIGKILL, and nobody has to request anything.
- *Mailbox*: weak fairness of each node's thread: it runs, and what was sent
  arrives.  None of `Bind` and `End`: nobody has to start or to die.
- *SeanetSonar*: weak fairness of both threads, of the head's obeying, centring
  and answering, of its Alive packets, and of the return of its power some time
  after the driver has seen that it is gone.  Packets need not come garbled, power
  need not come back earlier, parameters need not be set.
- *EventLoop*: weak fairness of the loop's thread, of time, of the constructor
  (`Autostart`), and of the owner's start and join.  None of `Add`, `Stop`.
  `EventsAreRun` assumes in addition that the loop finds its queue empty again
  and again (`CatchesUp`): without it
  events of one priority may be passed over for ever, even when other threads
  add no more (*passedover* below).
- *PipelineGraph*, *PipelineClient*: none; safety only.

## Proofs

All theorems hold for every value of the constants that satisfies the
module's assumptions (`WiringAssumption`, `NodeAssumption`,
`ThreadAssumption`; `GraphAssumption`; `TaskManagerAssumption`;
`WatchAssumption`; `MailboxAssumption`; `SonarAssumption`; `ClientAssumption`,
`NoneAssumption`; `FunctionAssumption`), which say no more than the types of the
constants, that threads and nodes are distinct, and that no node is its own
parent.  Where a theorem assumes more, it is said below.

- **NodeSched**: `TypeCorrect`, `ExecQueuedCorrect`, `NodesRunOnce` and
  `ImplementsSerialQueue`, for any graph and any number of workers.  `RunsOnce`
  is not inductive: it rests on `m_exec_queued` being exact, and that rests
  on the thread that is between the test of `m_exec_queued` and `addJob`.  The
  inductive invariant `IInv` adds: the call that decides is on top of its
  thread's stack (`DecidesOnTop`), one thread alone checks a node
  (`ChecksAlone`, from the mutex), and what it decides on is still so
  (`DecidesFresh`: the node has not been queued since).  With `IInv`, each
  step is a step of `SerialQueue` or a stutter.
- **NodeSched, wake-ups** (the second part of `NodeSched_proofs`): `NoWakeUpIsLost` and
  `QueuedNodesStayReady`, for any graph that is linked and unlinked while it
  runs.  The invariant `WInv` adds to `IInv`: calls and workers deal with inputs
  and outputs of their own node (`CallsOK`, `WorkOK`), every node that could
  run is queued or about to be looked at (`NoneIsLost`), and what was found
  stays true from the test to the run (`FoundStaysTrue`).  The last is where
  the interleavings are: an input counts as new when a `setNewInput` for it is
  open, because `setInput` marks it old for a moment.  All four are stated over
  the set of open calls (`Open`), so that one lemma about pushing and returning
  (`CallsInFacts`) serves all actions.
- **NodeSched, locks** (the third part): `OnlyFlagsBlock`, which is `OnlyFlagsCross`
  for every graph, any number of workers and any set of arcs and nodes
  that are cut while it runs, under three assumptions.  The graph has no
  cycle (`Ordered`: a set of nodes `above` each node, with its parents in it); no
  parent of a node can also be reached by way of another of its inputs
  (`NoShortcut`); and arcs are linked outputs first (`ParentsFirst = {}`: AddArc
  and SetPipeline messages, and AddNode messages that name no parents).
  `NodeSched_loop`, `NodeSched_twoarcs` and `addnode` each break one of the three,
  and deadlock.  The invariant `LInv` adds to `WInv`: above a call that holds
  a checking lock on a stack there are only calls to nodes above its node
  (`Climbs`); an exec that has met a bad input has climbed by its linked inputs
  alone (`WorkerClimbs`, which `m_inputs_lock` keeps true while arcs are
  cut); and only the mailbox thread links, one input that is not linked yet
  (`LinksFirst`).  Of threads that wait for each other, the one that holds the
  highest lock would wait for one above it: hence none of them holds any, unless
  one is linking an output to a child, and then `NoShortcut` keeps the others
  off that output's node.  What is left are the locks of the flags, and whoever
  holds one of those waits, if at all, for the other of the same node
  (`AllowQueueHolder`, `ExecQueuedHolder`): the circle is the crossing
  (`CirclesCross`).  Only nodes that are fed by messages have
  their `m_allow_queue` written after construction, so `NoThreadsWaitInACircle`
  follows: without such nodes (`MessageNode = {}`), there is no circle at all
  (`NoDeadlock`).
- **NodeSched, demands** (the fourth part): `PipelinesNeverStall`, which is
  `NeverStalls` for every pipeline that `Flows`: no cycle and outputs linked first,
  as above; sources that no message has to feed; an output node, which has
  a parent; and a parent for every input that must be new or must have an image.
  Two more assumptions are what the code needs of the nodes: only those that
  demand before they work may throw (`NodeSched_throws` shows a fast node that
  brings the pipeline to rest), and no node with an arc is removed (the rest of
  the pipeline then waits for it).  Arcs may be cut and put back, parameters set
  and nodes forced all the while.  The runs *chain* and *throttle* are such
  pipelines.  The invariant `DInv` adds to `LInv`: a linked input that is not new has
  been demanded from its parent, or a call that is open, an exec under way
  or a timer will demand it, mark it new or cut it (`LookedAfter`); parents know
  of their children but while an arc is being cut (`Known`), for what a parent
  does with a demand is to tell the children on its list.  At rest nothing is
  left to happen, so each input is new or demanded from its parent.  Of
  the nodes that are demanded there is one above which none is demanded:
  its inputs are all new, it can run, and `NoneIsLost` says that it is queued.
  `UsedInputsAreDemandedAgain` takes from the same invariant what `node.cpp:772`
  promises, for pipelines that do come to rest, those fed by messages among them.
- **NodeSched, messages and images** (the fifth part): two statements that TLC
  refutes below, under the conditions on which they are true.
  `ClearedFirstKeepsMessages`: no message is left behind, for any graph in which
  every `doWork` that takes messages clears `m_allow_queue` first
  (`TakeThenClear = {}`), as that of `sonarInputNode.h` does; the invariant
  (`Remembered`) says that a node with a message is allowed the queue, about to be
  told so, or about to take it.  `OutputNodesAreTold`: output nodes hear of every
  image that their parents have for them (`node.h:545`), in the pipelines of
  `UsedInputsAreDemandedAgain`, where outputs are linked first; the invariant
  (`Told`) says that the input is marked already, that a call that is open or an
  exec under way will mark it, or that its arc is being cut.
- **PipelineGraph**: `GraphIsSound`.  The five invariants are inductive
  together and not one by one: that arcs are kept on both sides when a node
  is removed needs that linked nodes are registered and typed.
- **TaskManager**: `OrdersAreBelieved`, `ScriptsAreExclusive`,
  `ConditionsAreConsistent`, `RetiredAreNotStarted`, `TypeCorrect`.  The first
  two except the scripts in `misled`, which `TaskManager_stale` shows to exist:
  what is proved is that a late report is the only way to them.  The second needs that the order of tasks is total, which the distinct ranks give:
  at most one task comes before all others.
- **Watch**: `TypeCorrect` and `NoneIsForgotten`.  A process is started beside
  another only in `Launch`, and the monitor has looked for it some steps
  before: the invariant carries that finding (`NoneToTakeOver`) over the steps
  in which other threads act.  `SearchedProcessesRunOnce` follows: where every
  name can be searched for (`Searched = Process`), there is one process of each
  (`OneProcessEach`, from `utils/watch.py:148`); *orphan* below has one that cannot.
- **Mailbox**: `TypeCorrect`, `NodesFindEachOther`, `TwiceOnlyIfBothFound`,
  `ConfirmationsKeepTheOrder`, for any number of nodes, deaths and calls.  The
  second rests on a file being there from the binding of its node until it
  dies, and on a node having read all files that were there when it began
  (`ScanInv`); the third counts invitations, those on their way included
  (`LinkInv`); the fourth follows each filter from the call that set it to the
  publisher (`FilterInv`, `HeardInv`).
- **SeanetSonar**: `TypeCorrect`, `RequestsAlwaysFindParams`,
  `AwaitedAnswersAreOwed` and `OneIsAlwaysOutstanding`, for any number of faults,
  of packets that go with a garbled one, and of losses of power, seen or not.
  What is on the line matters, at each place of it: behind the last reboot no
  request stands before the parameters (`RequestsWillFind`, `LineIsCut`), and the
  driver's state says what it has heard of the head (`DriverIsRight`,
  `HeadWasHeard`); after a loss of power that the driver has not seen this fails,
  and `RequestsFindParams` does not speak of what follows one.  The third is
  `NoAnswerIsAwaitedInVain`.  Its invariant (`OwedInv`) counts: the requests on the
  line behind the last reboot, those that the head has still to answer, the lines
  of data on the way back, and what was lost since the driver last gave up are
  together no fewer than what the driver believes to be outstanding.  The fourth
  takes from it what `seanet_sonar.h:108` says of the counter, as long as it is
  more than was lost; *garbled* and *blink* below show what happens otherwise.
- **PipelineClient**: `TypeCorrect`, `NoneIsMissed`, `NodesAreDistinct` and
  `TimelyCallsGetTheirAnswers`, for any number of calls and of other clients.  Requests are numbered (`Numbered`,
  `Counted`): a call that waits has its own answer still before it (`Awaited`),
  and two answers to additions name one node only if they are one answer
  (`MessagesApart`, `AnswersApart`), or if no node was made.
  The last adds that, while no call of a kind has timed out, what is waited for,
  handled and kept of that kind all belongs to the call under way (`TimelyInv`).
  `TimelyRemovalsAreDone`: until a removal times out, the node is gone when
  `removeSynchronous` returns, and stays so (`GoneInv`); *late* below is what
  happens afterwards.
- **EventLoop**: `TypeCorrect`, `MostUrgentComesFirst` (which is `UrgentFirst`) and
  `LoopWakesInTime`, for any functions, priorities and delays and a queue of any
  length.  The second rests on the order of the heap (`Ordered`: no event is less
  than its parent), which `Push` and `Pop` keep for heaps of every size.  There
  is no induction over data here: what holds all along the way of an event
  is shown at the least position where it would fail, which a set of numbers
  has (`LeastOfSet`).

Only model-checked is every liveness property, which this prover does not reach
(`ImagesAreRead`, `OutputsKeepRunning`, `MessagesAreTaken`, `ChoiceIsFollowed`,
`StopsEnd`, `DeathsAreReported`, `DependenciesAreStarted`, `NodesMeet`,
`SubscriptionsAreConfirmed`, `ScanningGoesOn`, `EventsAreRun`, `JoinsEnd`).  Every
invariant, action property and refinement that a passing run checks is also a
theorem.  Of the statements that a configuration refutes, several are theorems under
the condition that the configuration breaks: `WaitingMessageIsAllowed`,
`OutputNodesSeeNewInput`, `OneProcessEach`, `AlwaysOneOutstanding`, and
`RemovedIsGone` (as `RemovedInTimeIsGone`); `UsedInputsAreDemanded` and
`NoDeadlock` are so too, in the fourth and the third part.

## Findings

Where TLC shows the program do other than its comments say:

- Run `addnode` (`node.cpp:512`): `setOutput` asks for the child's inputs lock with
  the parent's outputs lock held, although `node.cpp:831` says why this must not
  be done; `exec` takes the same two locks the other way round.  An AddNode
  message links a child to its parent first (`imageProcessor.cpp:99`), so the
  child may be running when `setOutput` is called: worker and mailbox thread then
  wait for each other for ever.

By the further configurations:

- `NodeSched_flags` (`node.cpp:1266`): `setAllowQueue` and `clearAllowQueue` take
  `m_allow_queue_lock`, then `m_exec_queued_lock`; `setExecQueued` and
  `clearExecQueued` take them the other way round.  A message that allows a node
  and the worker that queues it, or ends its exec, wait for each other for ever, with
  the mailbox thread of the whole process among them (`NoDeadlock`).
- `NodeSched_throws` (`node.cpp:774`): an exception from the `doWork` of a node that is
  not slow skips the demand of its next input, and the pipeline comes to rest
  (`UsedInputsAreDemanded`, from the comment at `node.cpp:772`).
- `NodeSched_net` (`netInputNode.h:86`): the node takes a message, then forbids itself
  the queue; a message that comes in between is left behind until the next
  (`WaitingMessageIsAllowed`).  `sonarInputNode.h:326` has the right order (run
  *messages*).
- `NodeSched_twoarcs` (`node.cpp:512`): the same circle when the child runs
  already and a second arc is made from the same parent, to a parameter or an
  optional input (as `sonarSLAM.cpp:433` and `learnedKeyPointsNode.h:458` have).
- `NodeSched_loop` (`node.cpp:379`): two nodes, each the parent of the other by
  an input whose image may be old (as in `bearingRangeToXYNode.h:39`), hold their
  checking locks and ask each other.  `setInput` refuses only a node that is its
  own parent.
- `NodeSched_untold` (`imageProcessor.cpp:99`): an added node is linked before its
  parent knows of it, runs, asks, and is not told (`OutputNodesSeeNewInput`, from
  `node.h:545`).
- `TaskManager_stale` (`task_manager.py:237`): a ProcessEnded message about an
  earlier run of a script arrives when the task has been started again.  It names no
  run: the manager takes the script for dead, sends watch nothing, and starts
  another beside it (`OnlyOneScriptRuns`).
- `Watch_orphan` (`utils/watch.py:147`): a start while a process is being stopped is
  accepted, and a script whose pid cannot be looked up runs twice (`OneProcessEach`).
- `SeanetSonar_garbled` (`seanet_serial_port.cpp:107`): the length in a garbled packet
  is believed, so that lines of data behind it may go with it; a line that is
  lost is never counted off, and after three of them the driver asks for no more
  (`AlwaysOneOutstanding`, from `seanet_sonar.h:108`) until the head falls silent.
- `SeanetSonar_blink` (`seanet_sonar.cpp:296`): power that is back within three seconds.
  The head has forgotten its requests and its parameters, the driver goes on
  counting three, Alive packets keep it from timing out, and no line comes any
  more (`LinesKeepComing`).
- `PipelineClient_late` (`pipeline.py:284`): the answer to a removal that timed out
  is taken by the next one of the same node, which returns although the node
  may be there (`RemovedIsGone`, from `pipeline.py:302`).
- `EventLoop_passedover` (`event.py:75`): all events of one priority compare equal,
  because `__lt__` reads a counter of the class.  Of three repeating functions
  that are always late, two by two come before a message of their priority, and it
  is never handled, though no other is added any more (`RunOnceCalm`, from
  `event.py:56`, which promises their order).

Seen while reading, without a run:

- `node.cpp:767` compares the speed with `medium`; `asynchronous` (0xff in
  `node.h:598`) therefore counts as fast, against the comment at `node.cpp:768`.
- `node.cpp:750`: an image that arrives after the images were read and before the
  inputs are marked old loses its mark; `node.cpp:752` relies on it being kept.
  `ImagesAreRead` shows that it is read all the same.
- `conditions.py:68`: a `TimeCondition` can never hold, against `conditions.py:60`.
- `imageProcessor.cpp:272`: removing an arc that does not exist cuts another.
  A failing AddNode message leaves a linked node that is not registered; a
  failing AddArc message removes the arc it was to replace, unannounced.
- `zeromq_mailbox.cpp:166`: `leaveGroup` subscribes.
- `zeromq_mailbox.cpp:401`: a node that is invited connects without a look at
  `connections` (`zeromq_mailbox.h:81`: those "that this node has connected to
  already"); two that found each other are connected twice, and each message
  comes twice.  `ConnectedOnce` states it; `DoubledOnlyIfBothFound` is what holds.
- `event.py:217`: time passes between the test in line 214 and this line; a
  negative time-out ends the loop's thread, and `join` then never returns.
- `event.py:237`: `stopped` is cleared after the thread has been started.  A stop
  from another thread before that line would be forgotten by `join`; in the model,
  as in the programs, the thread that calls `start` is the one that stops.
- A node whose inputs are all parameters or optional (`BroadcastNode`) is made
  with everything new, but nobody looks at it before something is linked to it or
  set: `Runnable` leaves unlinked output nodes out.

## What is not modelled

Most of the tree is code in which no property here could fail or be stated:
vendored libraries, the user interface, image processing, geometry, device
drivers that are one call after the other.  The parts that are modelled are a
small share of all lines, and about a third of the lines of the files they are
in; what is left of those is logging, parsing, declarations and what is listed
here.

- Images, sound, geometry and control values: numerical code over data that no
  property here speaks of.
- In the pipeline: `stop`, the ids of the OutMap, status messages, the sets of
  nodes that want GPS or telemetry; `Scheduler::stopWait` and the locking
  inside `BlockingQueue` (one mutex around each operation); the handshake
  between the destructor of a ThrottleNode and its io_service thread, which
  no other thread takes part in.
- In the AI: options that only scripts read, persistence in a shelf, reports
  for the GUI.
- In watch: `kill` and `killall`, processes added or changed while they run,
  reports, core dumps.
- In the event loop: `clear_events`, bounded queues (nobody makes one), the
  decorators that find a loop.
- In the client: saving and loading descriptions, the copy of the graph.
- In mailboxes: the contents of messages, `start` and `stop`; Heimdall, which
  passes socket names of other machines on.
- Control arbitration: each message is compared with the holder of an axis
  by priority, time and token, and kept or dropped by that alone.
- Motor control bridge: a parser, byte by byte, on one thread.
- The rest of what `PROJECT.json` lists as `not_modelled`, with the reason
  there.

## Plan

Done, in this order: `NodeSched` with `SerialQueue`; `TaskManager`; `Watch`;
`PipelineGraph`; removal in `NodeSched`; `Mailbox`; `SeanetSonar`;
`PipelineClient`; `EventLoop`; the proofs above.

What would come next, by how much of the system's behaviour depends on it:

1. `Mission`: `TaskManager` and `Watch` composed over an unordered channel of
   messages, with the scripts between them: the orders that watch
   carries out are those the manager gave, and `ProcessEnded` is what it heard.
   Abstract specification: one script slot, that `TaskManager` implements.
2. `PipelineGraph` and `PipelineClient` composed, with several clients.
