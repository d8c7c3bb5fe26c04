----------------------------- MODULE EventLoop -----------------------------
(***************************************************************************)
(* The event loop of scripts (class EventLoop of scripting/utils/event.py), *)
(* which the task manager, the location manager and scripts inherit from.  *)
(*                                                                         *)
(* Any thread puts events on a priority queue.  The thread of the loop     *)
(* first executes what is due on a second heap, of waiting events, then    *)
(* sleeps in Queue.get until an event comes or the first waiting one is    *)
(* due.  An event that is not due goes to the waiting heap.  A repeating   *)
(* event puts itself on the queue again, then calls its function.          *)
(*                                                                         *)
(* Time passes in ticks, at any moment.  A time is kept as the ticks that  *)
(* are left until it, no further back than Overdue.  An event without      *)
(* run_at is due at once, in no time.  The layout of the priority queue is *)
(* that of heapq, because all events of one priority compare equal:        *)
(* n_events, which __lt__ reads, is one counter for the whole class.       *)
(*                                                                         *)
(* A definition named Defect... is not the code: it is what a bug would    *)
(* make of the definition after it, to show that a property can fail.      *)
(***************************************************************************)
EXTENDS Integers, Sequences, FiniteSets

CONSTANTS
    Function,    \* the decorated functions
    Repeating,   \* those of repeat_event with autostart
    Delay,       \* options.delay of each, 0 for None
    Priority,    \* options.priority: lower goes first
    Second,      \* ticks of the timeout when nothing waits
    None

ASSUME FunctionAssumption ==
    /\ IsFiniteSet(Function) /\ Repeating \subseteq Function
    /\ Delay \in [Function -> Nat] /\ Priority \in [Function -> Nat]
    /\ \A f \in Repeating : Delay[f] > 0
    /\ Second \in Nat \ {0}
    /\ None \notin Function

VARIABLES
    queue,      \* event_queue: a sequence in the layout of heapq
    waiting,    \* waiting_queue
    at,         \* where the thread of the loop is
    executing,  \* the function that execute is about to call, or None
    next,       \* where the thread goes when it returns
    timeout,    \* ticks left of the timeout of get, 0 elsewhere
    running, stopped,
    owner       \* the thread that calls start, and later stop and join

events == <<queue, waiting>>
thread == <<at, executing, next, timeout>>
control == <<running, stopped, owner>>
vars == <<events, thread, control>>

Overdue == -1
Event == [fn : Function, left : Int]
New(f) == [fn |-> f, left |-> Delay[f]]

-----------------------------------------------------------------------------
(* Queue.PriorityQueue, by heapq.  The children of k are 2k and 2k + 1.     *)

Less(a, b) == Priority[a.fn] < Priority[b.fn]

\* The positions that are reached from k by steps.
Way(n, k, step) ==
    CHOOSE S \in SUBSET (1..n) :
        \A i \in 1..n : i \in S <=> i = k \/ \E j \in S \cap DOMAIN step : step[j] = i

\* heapq._siftdown: the event at k goes up past every parent it is less than.
Rises(h, k) == [j \in {j \in 2..k : Less(h[k], h[j \div 2])} |-> j \div 2]
GoesUp(h, k) ==
    LET way == Way(Len(h), k, Rises(h, k))
    IN  [i \in 1..Len(h) |-> IF i \notin way THEN h[i] ELSE IF i \div 2 \in way THEN h[i \div 2] ELSE h[k]]

\* heapq._siftup: the lesser child of each level, of equals the right one,
\* takes the free place, down to a leaf; the event goes there and up again.  So
\* it takes the place of the last one on the way that it is not less than.
LesserChild(h) ==
    [i \in 1..(Len(h) \div 2) |->
        IF 2 * i < Len(h) /\ ~Less(h[2 * i], h[2 * i + 1]) THEN 2 * i + 1 ELSE 2 * i]
GoesDown(h) ==
    LET child == LesserChild(h)
        way == Way(Len(h), 1, child)
        freed == {i \in way : i = 1 \/ \E j \in way : j >= i /\ ~Less(h[1], h[j])}
    IN  [i \in 1..Len(h) |->
            IF i \notin freed THEN h[i]
            ELSE IF i \in DOMAIN child /\ child[i] \in freed THEN h[child[i]] ELSE h[1]]

DefectPush(h, e) == Append(h, e)
Push(h, e) == GoesUp(Append(h, e), Len(h) + 1)

Pop(h) ==
    LET rest == SubSeq(h, 1, Len(h) - 1)
    IN  IF rest = <<>> THEN rest ELSE GoesDown([rest EXCEPT ![1] = h[Len(h)]])

-----------------------------------------------------------------------------
(* EventLoop.run                                                            *)

DefectIterate ==
    /\ at = "head"
    /\ at' = IF running THEN "drain" ELSE "ended"
    /\ UNCHANGED <<events, executing, next, timeout, control>>

\* while self.running
Iterate ==
    /\ at = "head"
    /\ IF running
       THEN at' = "drain" /\ UNCHANGED stopped
       ELSE at' = "ended" /\ stopped' = TRUE
    /\ UNCHANGED <<events, executing, next, timeout, running, owner>>

Execute(f, back) == at' = "execute" /\ executing' = f /\ next' = back

\* waiting_queue.peek() is the event that is due first.
First(e) == e \in waiting /\ \A d \in waiting : e.left <= d.left

Drain ==
    /\ at = "drain"
    /\ \/ /\ waiting = {}
          /\ at' = "get" /\ timeout' = Second
          /\ UNCHANGED <<waiting, executing, next>>
       \/ \E e \in waiting :
            /\ First(e)
            /\ IF e.left <= 0
               THEN waiting' = waiting \ {e} /\ Execute(e.fn, "drain")
               ELSE at' = "wait" /\ UNCHANGED <<waiting, executing, next>>
            /\ UNCHANGED timeout
    /\ UNCHANGED <<queue, control>>

\* timeout = peek().run_at - time.time(): time has passed since Drain, and a
\* negative timeout makes get raise ValueError, which ends the thread.
DefectWait ==
    /\ at = "wait"
    /\ \E e \in waiting : timeout' = (IF e.left < 0 THEN 0 ELSE e.left) /\ at' = (IF e.left < 0 THEN "dead" ELSE "get")
    /\ UNCHANGED <<events, executing, next, control>>
Wait ==
    /\ at = "wait"
    /\ \E e \in waiting :
        /\ First(e)
        /\ timeout' = (IF e.left < 0 THEN 0 ELSE e.left)
        /\ at' = IF e.left < 0 THEN "dead" ELSE "get"
    /\ UNCHANGED <<events, executing, next, control>>

Get ==
    /\ at = "get" /\ queue # <<>>
    /\ IF queue[1].left > 0
       THEN /\ waiting' = waiting \cup {queue[1]}
            /\ at' = "head"
            /\ UNCHANGED <<executing, next>>
       ELSE UNCHANGED waiting /\ Execute(queue[1].fn, "head")
    /\ queue' = Pop(queue) /\ timeout' = 0
    /\ UNCHANGED control

TimesOut ==
    /\ at = "get" /\ queue = <<>> /\ timeout = 0
    /\ at' = "head"
    /\ UNCHANGED <<events, executing, next, timeout, control>>

\* The function is called first and raises, so nothing puts it on the queue again.
DefectRun ==
    /\ at = "execute"
    /\ at' = next /\ executing' = None /\ next' = "head"
    /\ UNCHANGED <<queue, waiting, timeout, control>>

\* execute, which catches what the function raises.  call_wrap puts a
\* repeating event on the queue before it calls the function.
Run ==
    /\ at = "execute"
    /\ queue' = IF executing \in Repeating THEN Push(queue, New(executing)) ELSE queue
    /\ at' = next /\ executing' = None /\ next' = "head"
    /\ UNCHANGED <<waiting, timeout, control>>

Loop == Iterate \/ Drain \/ Wait \/ Get \/ TimesOut \/ Run

-----------------------------------------------------------------------------
(* Other threads, and time                                                  *)

Outstanding(f) ==
    \/ \E k \in DOMAIN queue : queue[k].fn = f
    \/ \E e \in waiting : e.fn = f

\* event_func.__call__, from any thread.  A bound: one event of each function
\* at a time; several functions of one priority stand for several events.
Add(f) ==
    /\ owner # "constructing"
    /\ f \notin Repeating /\ ~Outstanding(f)
    /\ queue' = Push(queue, New(f))
    /\ UNCHANGED <<waiting, thread, control>>

\* __init__ calls the members with autostart, in the order of their names.
Autostart(f) ==
    /\ owner = "constructing"
    /\ f \in Repeating /\ ~Outstanding(f)
    /\ queue' = Push(queue, New(f))
    /\ UNCHANGED <<waiting, thread, control>>

\* start: the thread runs before stopped is cleared.
Start ==
    /\ owner = "constructing"
    /\ \A f \in Repeating : Outstanding(f)
    /\ owner' = "starting" /\ at' = "head"
    /\ UNCHANGED <<events, executing, next, timeout, running, stopped>>
Cleared ==
    /\ owner = "starting"
    /\ owner' = "started" /\ stopped' = FALSE
    /\ UNCHANGED <<events, thread, running>>

\* join: stop, then wait for stopped.
Stop ==
    /\ owner = "started"
    /\ owner' = "joining" /\ running' = FALSE
    /\ UNCHANGED <<events, thread, stopped>>
Join ==
    /\ owner = "joining" /\ stopped
    /\ owner' = "joined"
    /\ UNCHANGED <<events, thread, running, stopped>>

Later(t) == IF t > Overdue THEN t - 1 ELSE t
Tick ==
    /\ queue' = [k \in DOMAIN queue |-> [queue[k] EXCEPT !.left = Later(@)]]
    /\ waiting' = {[e EXCEPT !.left = Later(@)] : e \in waiting}
    /\ timeout' = IF timeout > 0 THEN timeout - 1 ELSE timeout
    /\ UNCHANGED <<at, executing, next, control>>

Init ==
    /\ queue = <<>>
    /\ waiting = {}
    /\ at = "constructed" /\ executing = None /\ next = "head" /\ timeout = 0
    /\ running = TRUE /\ stopped = FALSE
    /\ owner = "constructing"

Next == Loop \/ Start \/ Cleared \/ Stop \/ Join \/ Tick \/ \E f \in Function : Autostart(f) \/ Add(f)

Spec == Init /\ [][Next]_vars

\* The thread of the loop goes on, time passes, and the owner constructs the
\* loop, starts it, and returns from join.  Nobody has to add events or to stop.
Fairness ==
    /\ WF_vars(Loop) /\ WF_vars(Tick)
    /\ WF_vars((\E f \in Function : Autostart(f)) \/ Start \/ Cleared \/ Join)
FairSpec == Spec /\ Fairness

-----------------------------------------------------------------------------
(* Properties                                                               *)

TypeOK ==
    /\ queue \in Seq(Event)
    /\ waiting \subseteq Event
    /\ at \in {"constructed", "head", "drain", "wait", "get", "execute", "dead", "ended"}
    /\ executing \in Function \cup {None} /\ next \in {"head", "drain"}
    /\ timeout \in Nat
    /\ running \in BOOLEAN /\ stopped \in BOOLEAN
    /\ owner \in {"constructing", "starting", "started", "joining", "joined"}

\* No event on the queue is more urgent than the one that get takes, whatever
\* was put and taken before (event.py:43: "lower is given priority").
UrgentFirst ==
    \A k \in DOMAIN queue : Priority[queue[1].fn] <= Priority[queue[k].fn]

\* The loop never sleeps past the time at which a waiting event is due, though
\* events come and wait in any order.
WakesInTime == at = "get" => \A e \in waiting : timeout <= e.left \/ timeout = 0

\* As long as the loop catches up from time to time, that is, finds nothing left
\* on the queue, each event that was added is executed, and repeating ones again
\* and again, however many others come, until the loop has ended or its thread
\* has died.  Nothing less is enough: of three repeating functions of one
\* priority that are always late, two by two pass over another event for ever,
\* because heapq does not keep the order of equals (RunOnceCalm).
Over == at \in {"dead", "ended"}
CatchesUp == []<>((at = "get" /\ queue = <<>>) \/ Over)
EventsAreRun ==
    CatchesUp =>
        /\ \A f \in Function \ Repeating : Outstanding(f) ~> (executing = f \/ Over)
        /\ \A f \in Repeating : []<>(executing = f \/ Over)

\* event.py:56: "n_events ensures order is preserved for equal priorities".  If it
\* did, each event would be executed once other threads leave off adding events.
Calm == <>[][\A f \in Function : ~Add(f)]_vars
RunOnceCalm == Calm => \A f \in Function : Outstanding(f) ~> (executing = f \/ Over)

\* join returns, if the thread has not died (the loop has then no way to set
\* stopped, and join waits for ever: control_extended.py:94).
JoinsEnd == ~<>[](owner = "joining" /\ at # "dead")
=============================================================================
