---------------------------- MODULE TaskManager ----------------------------
(***************************************************************************)
(* The task manager of the AI (auv/scripting/AI/exe/task_manager.py, with  *)
(* AI/tasks.py and AI/conditions.py).                                      *)
(*                                                                         *)
(* A mission is a set of tasks, each a script that may run while any one   *)
(* of its conditions holds.  Once a second the manager picks the available *)
(* task of highest priority, tells watch to start its script and to stop   *)
(* the one that ran before.  It learns what became of a script from the    *)
(* messages of watch (ProcessEnded) and of the script (ScriptExit), and    *)
(* takes changes to the mission from the GUI.                              *)
(*                                                                         *)
(* Every handler is an event of one EventLoop thread, so it is one action. *)
(* The queue of that loop holds what other processes have sent, does not   *)
(* keep its order, and may hold news of a script that has been started     *)
(* again since: the next event is any message at all, about any task.      *)
(* Only the reports of watch are followed from the death they tell of.     *)
(* What watch does with its orders, and when, is the matter of Watch: here *)
(* a script runs from the order to start it until the order to stop it,    *)
(* unless it dies.                                                         *)
(* Times are counted in units since, or until, the moment that matters.    *)
(*                                                                         *)
(* A definition named Defect... is not the code: it is what a bug would    *)
(* make of the definition after it, to show that a property can fail.      *)
(***************************************************************************)
EXTENDS Naturals, FiniteSets

CONSTANTS
    Task, Condition,     \* the names tasks and conditions can have
    Rank,                \* the order of the tasks' names
    Kind,                \* the class of each condition
    Priorities,          \* what options.priority can be set to
    DefaultPriority,     \* options.priority of a new task
    RunningPriority,     \* options.running_priority
    CrashLimit,          \* options.crash_limit
    FrequencyLimit,      \* options.frequency_limit
    Timeout,             \* options.timeout of the conditions that have one
    FireTimes,           \* the timeouts detectors fire with
    Settings,            \* bound: the tasks, priorities and conditions of
                         \* mission files and of requests to change a task
    MaxReports           \* bound: deaths reported and not yet heard of

ASSUME TaskManagerAssumption ==
    /\ Rank \in [Task -> Nat]
    /\ \A t, u \in Task : Rank[t] = Rank[u] => t = u
    /\ Kind \in [Condition -> {"State", "Time", "Timeout", "TaskSuccessful", "Detector"}]
    /\ Priorities \subseteq Nat
    /\ DefaultPriority \in Priorities
    /\ RunningPriority \in Nat
    /\ CrashLimit \in Nat
    /\ FrequencyLimit \in Nat
    /\ Timeout \in Nat
    /\ FireTimes \subseteq Nat
    /\ Settings \subseteq Task \X Priorities \X SUBSET Condition
    /\ MaxReports \in Nat

VARIABLES
    tasks,          \* the names of self.tasks
    priority,       \* options.priority of each task
    waitsFor,       \* task.conditions
    active,         \* the tasks with state.active
    crashCount,     \* state.crash_count, counted to CrashLimit + 1
    finished,       \* the tasks with state.succeeded or state.failed
    sinceCalled,    \* time since state.last_called, counted to FrequencyLimit
    allPaused,      \* self.all_paused
    conditions,     \* the names of self.conditions
    switchedOn,     \* the conditions with options.state
    age,            \* time since start_time of a condition, counted to Timeout
    firing,         \* time until detector_fire_timeouts of a condition
    lastAvailable,  \* self.last_available_tasks
    lastActive,     \* self.last_active_tasks
    scripts,        \* the tasks whose script runs
    reports,        \* the tasks with a ProcessEnded message under way
    misled,         \* the tasks whose running script was taken for dead, for
                    \* a report about an earlier run of it came late
    detectors       \* the conditions whose detector watch was told to start

taskVars == <<tasks, priority, waitsFor, active, crashCount, finished,
              sinceCalled, scripts, reports, misled>>
conditionVars == <<conditions, switchedOn, age, firing, detectors>>
last == <<lastAvailable, lastActive>>
vars == <<taskVars, conditionVars, last, allPaused>>

Detector == {c \in Condition : Kind[c] = "Detector"}
AtMost(n, bound) == IF n > bound THEN bound ELSE n

-----------------------------------------------------------------------------
(* Conditions and tasks as they judge themselves *)

\* get_state of each class.  A TimeCondition compares start_time with a time
\* that is never before now (start_time > now + timeout), and a
\* TaskSuccessfulCondition compares the True that task_state always returns
\* with "SUCCESS".
TimeHolds(c) == 0 > age[c] + Timeout
Holds(c) ==
    \/ Kind[c] = "State" /\ c \in switchedOn
    \/ Kind[c] = "Time" /\ TimeHolds(c)
    \/ Kind[c] = "Timeout" /\ ~TimeHolds(c)
    \/ Kind[c] = "Detector" /\ firing[c] > 0

DefectUnlimited(t) ==
    /\ t \notin finished
    /\ t \in active \/ sinceCalled[t] >= FrequencyLimit
    /\ \E c \in waitsFor[t] : Holds(c)

IsAvailable(t) ==
    /\ t \notin finished
    /\ t \in active \/ sinceCalled[t] >= FrequencyLimit
    /\ crashCount[t] <= CrashLimit
    /\ \E c \in waitsFor[t] : Holds(c)

PriorityOf(t) ==
    IF t \in active /\ RunningPriority > priority[t] THEN RunningPriority ELSE priority[t]

\* The order of the sort key (-priority, name).
Before(t, u) ==
    \/ PriorityOf(t) > PriorityOf(u)
    \/ PriorityOf(t) = PriorityOf(u) /\ Rank[t] < Rank[u]

Available == {t \in tasks : IsAvailable(t)}

\* The sorted list: which tasks, and which of two comes first.
AvailableTasks == [members |-> Available,
                   order |-> {p \in Available \X Available : Before(p[1], p[2])}]

ToRun == {t \in Available : \A u \in Available \ {t} : Before(t, u)}

-----------------------------------------------------------------------------
(* Messages about tasks *)

\* The fields of a task that has just been made; those of a name that no task
\* has are kept at the same values.
NewTask(t) ==
    /\ priority' = [priority EXCEPT ![t] = DefaultPriority]
    /\ waitsFor' = [waitsFor EXCEPT ![t] = {}]
    /\ crashCount' = [crashCount EXCEPT ![t] = 0]
    /\ finished' = finished \ {t}
    /\ sinceCalled' = [sinceCalled EXCEPT ![t] = FrequencyLimit]

\* A new task takes a name that no Task object has, and the manager's lists
\* keep the objects of removed tasks alive.
AddTask(t) ==
    /\ t \notin tasks \cup lastAvailable.members \cup lastActive
    /\ tasks' = tasks \cup {t}
    /\ NewTask(t)
    /\ UNCHANGED <<active, scripts, reports, misled, conditionVars, last, allPaused>>

\* stop_script: Stop is sent to watch whether or not the script runs.
StopScripts(S) ==
    /\ active' = active \ S
    /\ scripts' = scripts \ S
    /\ misled' = misled \ S
    /\ UNCHANGED reports

DefectLeavesScript(t) ==
    /\ t \in tasks
    /\ tasks' = tasks \ {t}
    /\ NewTask(t)
    /\ UNCHANGED <<active, scripts, reports, misled, conditionVars, last, allPaused>>

RemoveTask(t) ==
    /\ t \in tasks
    /\ StopScripts({t})
    /\ tasks' = tasks \ {t}
    /\ NewTask(t)
    /\ UNCHANGED <<conditionVars, last, allPaused>>

DefectKeepsUnknown(t, p, C) ==
    /\ t \in tasks
    /\ priority' = [priority EXCEPT ![t] = p]
    /\ waitsFor' = [waitsFor EXCEPT ![t] = C]
    /\ UNCHANGED <<tasks, active, crashCount, finished, sinceCalled, scripts, reports, misled,
                   conditionVars, last, allPaused>>

\* Conditions that do not exist are left out.
SetTaskState(t, p, C) ==
    /\ t \in tasks
    /\ priority' = [priority EXCEPT ![t] = p]
    /\ waitsFor' = [waitsFor EXCEPT ![t] = C \cap conditions]
    /\ UNCHANGED <<tasks, active, crashCount, finished, sinceCalled, scripts, reports, misled,
                   conditionVars, last, allPaused>>

Crashed(t) == crashCount' = [crashCount EXCEPT ![t] = AtMost(@ + 1, CrashLimit + 1)]

\* A script dies of itself, and watch sends its report.  A script that dies
\* after the order to stop it is not reported.
ScriptDies(t) ==
    /\ t \in scripts
    /\ t \notin reports
    /\ Cardinality(reports) < MaxReports
    /\ scripts' = scripts \ {t}
    /\ misled' = misled \ {t}
    /\ reports' = reports \cup {t}
    /\ UNCHANGED <<tasks, priority, waitsFor, active, crashCount, finished, sinceCalled,
                   conditionVars, last, allPaused>>

DefectEndUnnoticed(t) ==
    /\ t \in reports \cap tasks
    /\ reports' = reports \ {t}
    /\ UNCHANGED <<tasks, priority, waitsFor, active, crashCount, finished, sinceCalled,
                   scripts, misled, conditionVars, last, allPaused>>

\* The report arrives.  It does not say which run of the script has ended, and
\* watch is told nothing: a script that was started again goes on.
ProcessEnded(t) ==
    /\ t \in reports
    /\ reports' = reports \ {t}
    /\ IF t \in active THEN Crashed(t) ELSE UNCHANGED crashCount
    /\ active' = active \ {t}
    /\ misled' = misled \cup ({t} \cap active \cap scripts)
    /\ UNCHANGED <<tasks, priority, waitsFor, finished, sinceCalled, scripts,
                   conditionVars, last, allPaused>>

\* A script reports its end, and goes on doing so until it is killed.
ScriptExit(t, result) ==
    /\ t \in tasks
    /\ StopScripts({t})
    /\ IF result = "TempFailure"
       THEN Crashed(t) /\ UNCHANGED finished
       ELSE finished' = finished \cup {t} /\ UNCHANGED crashCount
    /\ UNCHANGED <<tasks, priority, waitsFor, sinceCalled, conditionVars, last, allPaused>>

-----------------------------------------------------------------------------
(* Messages about conditions, and from detectors *)

NewCondition(c) ==
    /\ switchedOn' = switchedOn \ {c}
    /\ age' = [age EXCEPT ![c] = 0]

\* detector_fire_timeouts is not cleared: it belongs to the name.
AddCondition(c) ==
    /\ c \notin conditions
    /\ conditions' = conditions \cup {c}
    /\ NewCondition(c)
    /\ detectors' = detectors \cup ({c} \cap Detector)
    /\ UNCHANGED <<taskVars, firing, last, allPaused>>

DefectLeavesDetector(c) ==
    /\ c \in conditions
    /\ waitsFor' = [t \in Task |-> waitsFor[t] \ {c}]
    /\ conditions' = conditions \ {c}
    /\ NewCondition(c)
    /\ UNCHANGED <<tasks, priority, active, crashCount, finished, sinceCalled, scripts,
                   reports, misled, firing, detectors, last, allPaused>>

RemoveCondition(c) ==
    /\ c \in conditions
    /\ waitsFor' = [t \in Task |-> waitsFor[t] \ {c}]
    /\ detectors' = detectors \ ({c} \cap Detector)
    /\ conditions' = conditions \ {c}
    /\ NewCondition(c)
    /\ UNCHANGED <<tasks, priority, active, crashCount, finished, sinceCalled, scripts,
                   reports, misled, firing, last, allPaused>>

SetConditionState(c, on) ==
    /\ c \in conditions
    /\ Kind[c] = "State"
    /\ switchedOn' = IF on THEN switchedOn \cup {c} ELSE switchedOn \ {c}
    /\ UNCHANGED <<taskVars, conditions, age, firing, detectors, last, allPaused>>

DetectorFired(c, time) ==
    /\ c \in Detector
    /\ firing' = [firing EXCEPT ![c] = time]
    /\ UNCHANGED <<taskVars, conditions, switchedOn, age, detectors, last, allPaused>>

-----------------------------------------------------------------------------
(* Pausing, and the periodic choice *)

PauseAll ==
    /\ allPaused' = TRUE
    /\ StopScripts(active)
    /\ UNCHANGED <<tasks, priority, waitsFor, crashCount, finished, sinceCalled,
                   conditionVars, last>>

ResumeAll ==
    /\ allPaused' = FALSE
    /\ UNCHANGED <<taskVars, conditionVars, last>>

DefectForgetsActive == lastAvailable # AvailableTasks

\* The choice is made again only when what it depends on has changed.
MustChoose == lastAvailable # AvailableTasks \/ lastActive # active

DefectKeepsOthers ==
    /\ ~allPaused
    /\ MustChoose
    /\ active' = active \cup ToRun
    /\ scripts' = scripts \cup (ToRun \ active)
    /\ misled' = misled \ ToRun
    /\ sinceCalled' = [t \in Task |-> IF t \in ToRun \ active THEN 0 ELSE sinceCalled[t]]
    /\ lastAvailable' = AvailableTasks
    /\ lastActive' = active'
    /\ UNCHANGED <<tasks, priority, waitsFor, crashCount, finished, reports, conditionVars,
                   allPaused>>

\* Every active task but the chosen one is stopped, and that one is started.
ProcessPeriodic ==
    /\ ~allPaused
    /\ MustChoose
    /\ active' = ToRun
    /\ scripts' = (scripts \ (active \ ToRun)) \cup (ToRun \ active)
    /\ misled' = misled \ (active \cup ToRun)
    /\ sinceCalled' = [t \in Task |-> IF t \in ToRun \ active THEN 0 ELSE sinceCalled[t]]
    /\ lastAvailable' = AvailableTasks
    /\ lastActive' = ToRun
    /\ UNCHANGED <<tasks, priority, waitsFor, crashCount, finished, reports, conditionVars,
                   allPaused>>

Tick ==
    /\ sinceCalled' = [t \in Task |-> AtMost(sinceCalled[t] + 1, FrequencyLimit)]
    /\ age' = [c \in Condition |-> IF c \in conditions THEN AtMost(age[c] + 1, Timeout) ELSE 0]
    /\ firing' = [c \in Condition |-> IF firing[c] = 0 THEN 0 ELSE firing[c] - 1]
    /\ UNCHANGED <<tasks, priority, waitsFor, active, crashCount, finished, scripts, reports,
                   misled, conditions, switchedOn, detectors, last, allPaused>>

-----------------------------------------------------------------------------
\* A new task manager, with the tasks of a mission file and their conditions.
Init ==
    /\ tasks \in SUBSET Task
    /\ priority \in [Task -> Priorities]
    /\ waitsFor \in [Task -> SUBSET Condition]
    /\ \A t \in Task : IF t \in tasks THEN <<t, priority[t], waitsFor[t]>> \in Settings
                                      ELSE priority[t] = DefaultPriority /\ waitsFor[t] = {}
    /\ active = {}
    /\ crashCount = [t \in Task |-> 0]
    /\ finished = {}
    /\ sinceCalled = [t \in Task |-> FrequencyLimit]
    /\ allPaused \in BOOLEAN
    /\ conditions = UNION {waitsFor[t] : t \in tasks}
    /\ switchedOn \in SUBSET {c \in conditions : Kind[c] = "State"}
    /\ age = [c \in Condition |-> 0]
    /\ firing = [c \in Condition |-> 0]
    /\ lastAvailable = [members |-> {}, order |-> {}]
    /\ lastActive = {}
    /\ scripts = {}
    /\ reports = {}
    /\ misled = {}
    /\ detectors = conditions \cap Detector

Next ==
    \/ \E t \in Task : AddTask(t) \/ RemoveTask(t) \/ ScriptDies(t) \/ ProcessEnded(t)
    \/ \E s \in Settings : SetTaskState(s[1], s[2], s[3])
    \/ \E t \in Task, r \in {"Success", "TempFailure", "PermFailure"} : ScriptExit(t, r)
    \/ \E c \in Condition : AddCondition(c) \/ RemoveCondition(c)
    \/ \E c \in Condition, on \in BOOLEAN : SetConditionState(c, on)
    \/ \E c \in Condition, time \in FireTimes : DetectorFired(c, time)
    \/ PauseAll
    \/ ResumeAll
    \/ ProcessPeriodic
    \/ Tick

Spec == Init /\ [][Next]_vars

\* process_periodic is a repeat_event: it puts itself on the loop again before
\* it does anything else.  The loop promises to run it only once messages stop
\* coming, for it may pass over an event for others of its priority; the one
\* property that rests on this fairness is about such behaviours only.
FairSpec == Spec /\ WF_vars(ProcessPeriodic)

-----------------------------------------------------------------------------
(* Properties *)

\* The type invariant.
TypeOK ==
    /\ tasks \subseteq Task
    /\ priority \in [Task -> Priorities]
    /\ waitsFor \in [Task -> SUBSET Condition]
    /\ active \subseteq tasks
    /\ crashCount \in [Task -> 0 .. CrashLimit + 1]
    /\ finished \subseteq Task
    /\ sinceCalled \in [Task -> 0 .. FrequencyLimit]
    /\ allPaused \in BOOLEAN
    /\ conditions \subseteq Condition
    /\ switchedOn \subseteq Condition
    /\ age \in [Condition -> 0 .. Timeout]
    /\ firing \in [Condition -> Nat]
    /\ lastAvailable \in [members : SUBSET Task, order : SUBSET (Task \X Task)]
    /\ lastActive \subseteq Task
    /\ scripts \subseteq Task
    /\ reports \subseteq Task
    /\ misled \subseteq Task
    /\ detectors \subseteq Condition

\* What runs agrees with what the manager believes, whatever comes in between.
\* The script of an active task runs, or its death is being reported: one that
\* was never started would block every lower task.  The script of a task that
\* is not active, or is gone, does not run: it would steer the vehicle with
\* nobody to stop it.  The only way to such a script is a late report about an
\* earlier run, and it lasts until the task is started or stopped once more.
OrdersMatchBelief ==
    /\ active \subseteq scripts \cup reports
    /\ scripts \ active \subseteq misled

\* At most one script steers the vehicle, and none while the AI is paused, but
\* for those that a late report has hidden from the manager.
OneScriptAtATime ==
    LET steering == active \cup (scripts \ misled)
    IN  /\ \A t, u \in steering : t = u
        /\ allPaused => steering = {}

\* The same without the exception.  The code does not keep this: see the README.
OnlyOneScriptRuns == \A t, u \in scripts : t = u

\* A detector runs exactly while its condition exists.
DetectorsMatchConditions == detectors = conditions \cap Detector

\* No task waits for a condition that has been removed: is_available would
\* go on asking it, and nobody could set it any more.
ConditionsAreKnown == \A t \in tasks : waitsFor[t] \subseteq conditions

\* A task that has succeeded, failed or crashed too often is not started again,
\* though old reports about it keep coming, until it is removed.
Retired(t) == t \in finished \/ crashCount[t] > CrashLimit
RetiredStaysOff ==
    [][\A t \in tasks \cap tasks' : Retired(t) => t \notin active' \/ t \in active]_vars

\* Messages, and the deaths they tell of, stop coming.
Quiet == <>[][ProcessPeriodic \/ Tick]_vars

\* Once it is quiet, the task that should run does run, and no other:
\* process_periodic, which looks only when its two lists have changed, never
\* overlooks what changed before.
ShouldRun(t) == ~allPaused /\ t \in ToRun
ChoiceIsFollowed ==
    Quiet => \A t \in Task : (ShouldRun(t) # (t \in active)) ~> (ShouldRun(t) = (t \in active))
=============================================================================
