------------------------------- MODULE Watch -------------------------------
(***************************************************************************)
(* The process supervisor watch (auv/scripting/watch.py, utils/watch.py    *)
(* and utils/watchfuncs.py).                                               *)
(*                                                                         *)
(* A monitor thread goes round the processes and does for each what its    *)
(* state asks for: start it, see whether it still lives, or send it the    *)
(* next signal.  Other threads (messages, the prompt) set that state on    *)
(* request.  Nothing is locked: a function that reads the state and writes *)
(* it later does so in two steps, and other threads come in between.       *)
(*                                                                         *)
(* Of the pid that watch has for a process only matters whether it is one  *)
(* of a live process, and of live processes that no pid names any more     *)
(* (orphans) only whether there are any.  A process that has ended is a    *)
(* live child until it is polled: here it ends when it is polled.          *)
(*                                                                         *)
(* A definition named Defect... is not the code: it is what a bug would    *)
(* make of the definition after it, to show that a property can fail.      *)
(***************************************************************************)
EXTENDS Naturals, Sequences, FiniteSets

CONSTANTS
    Process,        \* the names of the processes
    NoProcess,
    Commander,      \* the threads that pass on requests
    Monitor,        \* the thread that runs Watcher.monitor
    Searched,       \* get_pid finds the process while it lives (search_pid)
    Named,          \* get_pid finds it while its node is known (node_pid); other
                    \* processes it never finds (node_pid of "", for AI scripts)
    Prereq,         \* depends_on
    RestartAlso,    \* restart_also
    OnDeath,        \* death_callback: "ignore", "report" or "restart"
    Limited,        \* restart() is limited to some number of times
    Autostart,      \* autostart
    Unlaunchable,   \* processes whose Popen may raise
    Unkillable,     \* processes that may survive SIGKILL
    Signals         \* the signals a stop tries, one a tick

ASSUME WatchAssumption ==
    /\ NoProcess \notin Process
    /\ Monitor \notin Commander
    /\ Searched \subseteq Process
    /\ Named \subseteq Process
    /\ Prereq \in [Process -> SUBSET Process]
    /\ RestartAlso \in [Process -> SUBSET Process]
    /\ OnDeath \in [Process -> {"ignore", "report", "restart"}]
    /\ Limited \subseteq Process
    /\ Autostart \subseteq Process
    /\ Unlaunchable \subseteq Process
    /\ Unkillable \subseteq Process
    /\ Signals \in Seq({"term", "null", "kill"})

VARIABLES
    state,      \* WatchProcess.state
    alive,      \* the processes whose WatchProcess.pid is that of a live one
    orphaned,   \* the processes of which others live, that no pid names
    sigs,       \* WatchProcess.sigs
    noRestart,  \* the processes whose method restart has been replaced by False
    round,      \* the processes the monitor has still to visit
    tick,       \* what the monitor has still to do for one process
    call,       \* the request each thread is in the middle of
    owed        \* history: processes started, and neither reported dead
                \* nor asked to stop since

vars == <<state, alive, orphaned, sigs, noRestart, round, tick, call, owed>>
processes == <<alive, orphaned>>

Thread == Commander \cup {Monitor}
States == {"Stopped", "Starting", "Running", "Restarting", "Stopping", "Zombie"}

\* next: what the monitor does when it goes on with process p.
Between == [next |-> "visit", p |-> NoProcess, todo |-> {}, ready |-> TRUE]
Then(p, next) == [Between EXCEPT !.next = next, !.p = p]
NoCall == [p |-> NoProcess, to |-> "none", sigs |-> <<>>]

-----------------------------------------------------------------------------
(* Requests: start, stop and restart read the state, and may write it later *)

CanStop(p) == state[p] \in {"Starting", "Running"}

Start(t, p) ==
    IF state[p] \in {"Starting", "Running"}
    THEN UNCHANGED call
    ELSE call' = [call EXCEPT ![t] = [p |-> p, to |-> "Starting", sigs |-> <<>>]]

Stop(t, p) ==
    /\ CanStop(p)
    /\ call' = [call EXCEPT ![t] = [p |-> p, to |-> "decide", sigs |-> Signals]]

Restart(t, p, s) ==
    IF state[p] = "Zombie"
    THEN UNCHANGED call
    ELSE call' = [call EXCEPT ![t] = [p |-> p, to |-> "Restarting", sigs |-> s]]

\* A message or a line of the prompt; those that are refused change nothing.
Request(t, p) ==
    /\ call[t] = NoCall
    /\ \/ Start(t, p) \/ Stop(t, p)
       \/ p \notin noRestart /\ Restart(t, p, Signals)
    /\ call' # call
    /\ UNCHANGED <<state, processes, sigs, noRestart, round, tick, owed>>

\* stop reads the state a second time: a process that has still to be started
\* needs no signals.
DecideStop(t) ==
    /\ call[t].to = "decide"
    /\ LET p == call[t].p IN
        /\ sigs' = [sigs EXCEPT ![p] = call[t].sigs]
        /\ call' = [call EXCEPT ![t].to = IF state[p] = "Starting" THEN "Stopped" ELSE "Stopping"]
    /\ UNCHANGED <<state, processes, noRestart, round, tick, owed>>

\* The state is written, whatever it is by now.
Carry(t) ==
    /\ call[t].to \in States
    /\ LET p == call[t].p IN
        /\ state' = [state EXCEPT ![p] = call[t].to]
        /\ sigs' = IF call[t].to = "Restarting" THEN [sigs EXCEPT ![p] = call[t].sigs] ELSE sigs
        /\ owed' = IF call[t].to = "Starting" THEN owed ELSE owed \ {p}
    /\ call' = [call EXCEPT ![t] = NoCall]
    /\ UNCHANGED <<processes, noRestart, round, tick>>

-----------------------------------------------------------------------------
(* The monitor thread: WatchProcess.tick *)

At(next) == tick.next = next /\ call[Monitor] = NoCall

Lives(p) == p \in alive \cup orphaned

DefectLooksInVain(p) == TRUE
MayMiss(p) == Lives(p) => p \notin Searched

\* starting: a live process of this name that get_pid finds is taken over,
\* whichever of them it is.
Starting(p) ==
    /\ state[p] = "Starting"
    /\ \/ /\ p \in Searched \cup Named
          /\ Lives(p)
          /\ alive' = alive \cup {p}
          /\ orphaned' \in IF p \in alive THEN {orphaned} ELSE {orphaned, orphaned \ {p}}
          /\ owed' = owed \cup {p}
          /\ tick' = Then(p, "Running")
       \/ /\ MayMiss(p)
          /\ tick' = [Then(p, "prereq") EXCEPT !.todo = Prereq[p]]
          /\ UNCHANGED <<processes, owed>>
    /\ UNCHANGED sigs

\* running: a process is found dead now, its state changes later.
Running(p) ==
    /\ state[p] = "Running"
    /\ tick' = IF p \in alive THEN tick ELSE Then(p, "died")
    /\ UNCHANGED <<processes, sigs, owed>>

DefectSameSignal(p) ==
    /\ p \in alive
    /\ sigs[p] # <<>>
    /\ \/ Head(sigs[p]) = "kill" /\ alive' = alive \ {p}
       \/ (Head(sigs[p]) = "kill" => p \in Unkillable) /\ UNCHANGED alive
    /\ UNCHANGED <<orphaned, sigs, tick>>

\* stopping: one signal for each tick; SIGKILL works at once, or never.
Signal(p) ==
    /\ p \in alive
    /\ sigs[p] # <<>>
    /\ sigs' = [sigs EXCEPT ![p] = Tail(@)]
    /\ \/ Head(sigs[p]) = "kill" /\ alive' = alive \ {p}
       \/ (Head(sigs[p]) = "kill" => p \in Unkillable) /\ UNCHANGED alive
    /\ UNCHANGED <<orphaned, tick>>

Stopping(p) ==
    /\ state[p] \in {"Stopping", "Restarting"}
    /\ \/ Signal(p)
       \/ /\ p \notin alive \/ sigs[p] = <<>>
          /\ tick' = Then(p, IF p \in alive THEN "Zombie" ELSE "gone")
          /\ UNCHANGED <<processes, sigs>>
    /\ UNCHANGED owed

Stopped(p) ==
    /\ state[p] \in {"Stopped", "Zombie"}
    /\ UNCHANGED <<processes, sigs, tick, owed>>

\* Watcher.monitor: the processes in turn, round after round.
Visit(p) ==
    /\ At("visit")
    /\ p \in IF round = {} THEN Process ELSE round
    /\ round' = (IF round = {} THEN Process ELSE round) \ {p}
    /\ Starting(p) \/ Running(p) \/ Stopping(p) \/ Stopped(p)
    /\ UNCHANGED <<state, noRestart, call>>

DefectOnlyWaits(other) ==
    /\ At("prereq")
    /\ other \in tick.todo
    /\ tick' = [tick EXCEPT !.todo = @ \ {other},
                            !.ready = @ /\ state[other] = "Running"]
    /\ UNCHANGED <<state, processes, sigs, noRestart, round, call, owed>>

\* depends_on starts every other process that does not run.
CheckPrereq(other) ==
    /\ At("prereq")
    /\ other \in tick.todo
    /\ tick' = [tick EXCEPT !.todo = @ \ {other},
                            !.ready = @ /\ state[other] = "Running"]
    /\ IF state[other] = "Running" THEN UNCHANGED call ELSE Start(Monitor, other)
    /\ UNCHANGED <<state, processes, sigs, noRestart, round, owed>>

DefectGivesUp ==
    /\ At("prereq")
    /\ tick.todo = {}
    /\ ~tick.ready
    /\ noRestart' = noRestart \cup {tick.p}
    /\ tick' = Between
    /\ UNCHANGED <<state, processes, sigs, round, call, owed>>

NotReady ==
    /\ At("prereq")
    /\ tick.todo = {}
    /\ ~tick.ready
    /\ tick' = Between
    /\ UNCHANGED <<state, processes, sigs, noRestart, round, call, owed>>

\* Popen.  A process that watch had a pid for is an orphan from now on.
Launch ==
    /\ At("prereq")
    /\ tick.todo = {}
    /\ tick.ready
    /\ orphaned' = orphaned \cup (alive \cap {tick.p})
    /\ alive' = alive \cup {tick.p}
    /\ owed' = owed \cup {tick.p}
    /\ tick' = Then(tick.p, "Running")
    /\ UNCHANGED <<state, sigs, noRestart, round, call>>

\* Popen raises: self.restart = False, and the state stays Starting.
LaunchFails ==
    /\ At("prereq")
    /\ tick.todo = {}
    /\ tick.ready
    /\ tick.p \in Unlaunchable
    /\ noRestart' = noRestart \cup {tick.p}
    /\ tick' = Between
    /\ UNCHANGED <<state, processes, sigs, round, call, owed>>

\* The end of a tick: the state is written, whatever it is by now.
SetState ==
    /\ tick.next \in States
    /\ At(tick.next)
    /\ state' = [state EXCEPT ![tick.p] = tick.next]
    /\ tick' = Between
    /\ UNCHANGED <<processes, sigs, noRestart, round, call, owed>>

DefectNoCallback ==
    /\ At("died")
    /\ state' = [state EXCEPT ![tick.p] = "Stopped"]
    /\ tick' = Between
    /\ UNCHANGED <<processes, sigs, noRestart, round, call, owed>>

Died ==
    /\ At("died")
    /\ state' = [state EXCEPT ![tick.p] = "Stopped"]
    /\ tick' = Then(tick.p, "callback")
    /\ UNCHANGED <<processes, sigs, noRestart, round, call, owed>>

\* restart(n) raises when it has counted to n (a WatchProcess has no name; an
\* EditProcess message makes it count anew), or when it calls what is no method
\* any more: the state is set to Stopped once more.
CanRaise(p) == OnDeath[p] = "restart" /\ p \in Limited \cup noRestart
MustRaise(p) == OnDeath[p] = "restart" /\ p \in noRestart

DeathCallback ==
    /\ At("callback")
    /\ LET p == tick.p IN
        \/ /\ ~MustRaise(p)
           /\ IF OnDeath[p] = "restart" THEN Restart(Monitor, p, <<>>) ELSE UNCHANGED call
           /\ owed' = IF OnDeath[p] = "report" THEN owed \ {p} ELSE owed
           /\ tick' = Between
        \/ /\ CanRaise(p)
           /\ tick' = Then(p, "Stopped")
           /\ UNCHANGED <<call, owed>>
    /\ UNCHANGED <<state, processes, sigs, noRestart, round>>

\* stopping found the process gone and reads the state again.
Gone ==
    /\ At("gone")
    /\ tick' = IF state[tick.p] = "Restarting"
               THEN [Then(tick.p, "also") EXCEPT !.todo = RestartAlso[tick.p]]
               ELSE Then(tick.p, "Stopped")
    /\ UNCHANGED <<state, processes, sigs, noRestart, round, call, owed>>

\* restart_also; nothing catches the exception of a method that is gone, and
\* the monitor thread ends.
AlsoRestart(other) ==
    /\ At("also")
    /\ other \in tick.todo
    /\ IF other \in noRestart
       THEN tick' = Then(NoProcess, "ended") /\ UNCHANGED call
       ELSE tick' = [tick EXCEPT !.todo = @ \ {other}] /\ Restart(Monitor, other, Signals)
    /\ UNCHANGED <<state, processes, sigs, noRestart, round, owed>>

AllRestarted ==
    /\ At("also")
    /\ tick.todo = {}
    /\ tick' = Then(tick.p, "Starting")
    /\ UNCHANGED <<state, processes, sigs, noRestart, round, call, owed>>

\* A process ends by itself; the end of an orphan that leaves others is no change.
Exit(p) ==
    /\ \/ p \in alive /\ alive' = alive \ {p} /\ UNCHANGED orphaned
       \/ p \in orphaned /\ orphaned' = orphaned \ {p} /\ UNCHANGED alive
    /\ UNCHANGED <<state, sigs, noRestart, round, tick, call, owed>>

-----------------------------------------------------------------------------
Init ==
    /\ state = [p \in Process |-> IF p \in Autostart THEN "Starting" ELSE "Stopped"]
    /\ alive = {}
    /\ orphaned = {}
    /\ sigs = [p \in Process |-> <<>>]
    /\ noRestart = {}
    /\ round = Process
    /\ tick = Between
    /\ call = [t \in Thread |-> NoCall]
    /\ owed = {}

MonitorStep ==
    \/ \E p \in Process : Visit(p) \/ CheckPrereq(p) \/ AlsoRestart(p)
    \/ NotReady \/ Launch \/ LaunchFails \/ SetState \/ Died \/ DeathCallback \/ Gone \/ AllRestarted
    \/ DecideStop(Monitor) \/ Carry(Monitor)

Next ==
    \/ MonitorStep
    \/ \E t \in Commander : DecideStop(t) \/ Carry(t)
    \/ \E t \in Commander, p \in Process : Request(t, p)
    \/ \E p \in Process : Exit(p)

Spec == Init /\ [][Next]_vars

\* The threads run.  Nobody has to request anything, and no process has to end
\* but by SIGKILL.
FairSpec ==
    /\ Spec
    /\ WF_vars(MonitorStep)
    /\ \A t \in Commander : WF_vars(DecideStop(t) \/ Carry(t))

-----------------------------------------------------------------------------
(* Properties *)

Tick == [next : {"visit", "prereq", "died", "callback", "gone", "also", "ended"} \cup States,
         p : Process \cup {NoProcess}, todo : SUBSET Process, ready : BOOLEAN]
Call == [p : Process \cup {NoProcess}, to : {"none", "decide"} \cup States,
         sigs : Seq({"term", "null", "kill"})]

\* The type invariant.
TypeOK ==
    /\ state \in [Process -> States]
    /\ alive \subseteq Process
    /\ orphaned \subseteq Process
    /\ sigs \in [Process -> Seq({"term", "null", "kill"})]
    /\ noRestart \subseteq Unlaunchable
    /\ round \subseteq Process
    /\ tick \in Tick
    /\ tick.p = NoProcess <=> tick.next \in {"visit", "ended"}
    /\ call \in [Thread -> Call]
    /\ owed \subseteq Process

\* Watch has the pid of every live process of a name that can be searched for:
\* however requests and ticks overlap, none is started beside another and none
\* is forgotten, so that a later stop reaches it.
NoProcessForgotten == Searched \cap orphaned = {}

\* A stop or restart that has been written down while the process lives, and
\* that no later request or tick replaces, comes to an end: the signals run
\* out or the process does.
StopsEnd == \A p \in Process : state[p] = "Stopping" ~> state[p] # "Stopping"

\* The end of a process that was started, that is to be reported and that
\* nobody has asked to stop, is reported, unless a new start was requested: the
\* task manager waits for that report.
DeathsAreReported ==
    \A p \in Process : OnDeath[p] = "report" =>
        (p \in owed \ alive ~> p \notin owed \ alive \/ state[p] = "Starting")

\* A process that is to be started gets the processes it depends on started.
DependenciesAreStarted ==
    \A p \in Process : \A other \in Prereq[p] :
        state[p] = "Starting" /\ state[other] = "Stopped"
            ~> state[p] # "Starting" \/ state[other] # "Stopped"

\* utils/watch.py:148, of start: "if already running, dont run".  There is at
\* most one process of each name.
OneProcessEach ==
    alive \cap orphaned = {}
=============================================================================
