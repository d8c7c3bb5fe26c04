---------------------------- MODULE SerialQueue ----------------------------
(***************************************************************************)
(* What the scheduler of the image pipeline promises to its nodes: jobs    *)
(* are taken in the order in which they were submitted, by whichever       *)
(* worker is free, and a node that is waiting or running is never          *)
(* submitted again, so no node runs on two workers at once.                *)
(***************************************************************************)
EXTENDS Sequences

CONSTANTS Node, Worker, NoNode

VARIABLES
    waiting,    \* the nodes that wait for a worker, in order
    running     \* what each worker runs, or NoNode

Init ==
    /\ waiting = <<>>
    /\ running = [w \in Worker |-> NoNode]

Submit(n) ==
    /\ \A k \in DOMAIN waiting : waiting[k] # n
    /\ \A w \in Worker : running[w] # n
    /\ waiting' = Append(waiting, n)
    /\ UNCHANGED running

Start(w) ==
    /\ running[w] = NoNode
    /\ waiting # <<>>
    /\ running' = [running EXCEPT ![w] = Head(waiting)]
    /\ waiting' = Tail(waiting)

Finish(w) ==
    /\ running[w] # NoNode
    /\ running' = [running EXCEPT ![w] = NoNode]
    /\ UNCHANGED waiting

Next ==
    \/ \E n \in Node : Submit(n)
    \/ \E w \in Worker : Start(w) \/ Finish(w)

Spec == Init /\ [][Next]_<<waiting, running>>
=============================================================================
