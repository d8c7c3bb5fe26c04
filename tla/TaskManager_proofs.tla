------------------------ MODULE TaskManager_proofs ------------------------
(***************************************************************************)
(* Proofs about TaskManager, for any tasks, conditions and limits.  Each   *)
(* invariant of the module is inductive together with the type invariant:  *)
(* the proofs below take the actions one by one.                           *)
(***************************************************************************)
EXTENDS TaskManager, TLAPS

\* At most one task can be chosen: the sort key orders any two.
LEMMA ChoiceIsUnique ==
    ASSUME TypeOK, NEW t \in ToRun, NEW u \in ToRun
    PROVE  t = u
<1> SUFFICES ASSUME t # u PROVE FALSE
  OBVIOUS
<1>1. Before(t, u) /\ Before(u, t)
  BY DEF ToRun
<1>2. t \in Task /\ u \in Task
  BY DEF ToRun, Available, TypeOK
<1>3. PriorityOf(t) \in Nat /\ PriorityOf(u) \in Nat
  BY <1>2, TaskManagerAssumption DEF TypeOK, PriorityOf
<1>4. Rank[t] \in Nat /\ Rank[u] \in Nat
  BY <1>2, TaskManagerAssumption
<1> QED
  BY <1>1, <1>3, <1>4 DEF Before

LEMMA AtMostBounds ==
    ASSUME NEW n \in Nat, NEW bound \in Nat
    PROVE  AtMost(n, bound) \in 0 .. bound
BY DEF AtMost

\* Only tasks of the mission are chosen.
LEMMA ToRunIsTasks == ToRun \subseteq tasks
BY DEF ToRun, Available

\* Every variable keeps its type, and only tasks that exist are active.
THEOREM TypeCorrect == Spec => []TypeOK
<1>1. Init => TypeOK
  <2> SUFFICES ASSUME Init PROVE TypeOK
    OBVIOUS
  <2>1. /\ priority \in [Task -> Priorities]
        /\ waitsFor \in [Task -> SUBSET Condition]
    BY DEF Init
  <2>2. conditions \subseteq Condition /\ switchedOn \subseteq Condition
    BY <2>1 DEF Init
  <2> QED
    BY <2>1, <2>2, TaskManagerAssumption DEF Init, TypeOK, Detector
<1>2. TypeOK /\ [Next]_vars => TypeOK'
  <2> SUFFICES ASSUME TypeOK, [Next]_vars PROVE TypeOK'
    OBVIOUS
  <2> USE TaskManagerAssumption
  <2>1. ASSUME NEW t \in Task, NewTask(t)
        PROVE  /\ priority' \in [Task -> Priorities]
               /\ waitsFor' \in [Task -> SUBSET Condition]
               /\ crashCount' \in [Task -> 0 .. CrashLimit + 1]
               /\ finished' \subseteq Task
               /\ sinceCalled' \in [Task -> 0 .. FrequencyLimit]
    BY <2>1 DEF NewTask, TypeOK
  <2>2. ASSUME NEW t \in Task, Crashed(t)
        PROVE  crashCount' \in [Task -> 0 .. CrashLimit + 1]
    <3>1. crashCount[t] + 1 \in Nat /\ CrashLimit + 1 \in Nat
      BY DEF TypeOK
    <3>2. AtMost(crashCount[t] + 1, CrashLimit + 1) \in 0 .. CrashLimit + 1
      BY <3>1, AtMostBounds
    <3> QED
      BY <2>2, <3>2 DEF Crashed, TypeOK
  <2>3. ASSUME NEW t \in Task, AddTask(t) PROVE TypeOK'
    BY <2>1, <2>3 DEF AddTask, TypeOK, conditionVars, last
  <2>4. ASSUME NEW t \in Task, RemoveTask(t) PROVE TypeOK'
    BY <2>1, <2>4 DEF RemoveTask, StopScripts, TypeOK, conditionVars, last
  <2>5. ASSUME NEW t \in Task, ScriptDies(t) \/ ProcessEnded(t) PROVE TypeOK'
    <3>1. CASE ScriptDies(t)
      BY <3>1 DEF ScriptDies, TypeOK, conditionVars, last
    <3>2. CASE ProcessEnded(t)
      BY <2>2, <3>2 DEF ProcessEnded, TypeOK, conditionVars, last
    <3> QED
      BY <2>5, <3>1, <3>2
  <2>6. ASSUME NEW s \in Settings, SetTaskState(s[1], s[2], s[3]) PROVE TypeOK'
    <3>1. s[1] \in Task /\ s[2] \in Priorities /\ s[3] \subseteq Condition
      OBVIOUS
    <3> QED
      BY <2>6, <3>1 DEF SetTaskState, TypeOK, conditionVars, last
  <2>7. ASSUME NEW t \in Task, NEW r, ScriptExit(t, r) PROVE TypeOK'
    BY <2>2, <2>7 DEF ScriptExit, StopScripts, TypeOK, conditionVars, last
  <2>8. ASSUME NEW c \in Condition, AddCondition(c) PROVE TypeOK'
    BY <2>8 DEF AddCondition, NewCondition, TypeOK, taskVars, last
  <2>9. ASSUME NEW c \in Condition, RemoveCondition(c) PROVE TypeOK'
    BY <2>9 DEF RemoveCondition, NewCondition, TypeOK, last
  <2>10. ASSUME NEW c \in Condition, NEW on \in BOOLEAN, SetConditionState(c, on)
         PROVE  TypeOK'
    BY <2>10 DEF SetConditionState, TypeOK, taskVars, last
  <2>11. ASSUME NEW c \in Condition, NEW time \in FireTimes, DetectorFired(c, time)
         PROVE  TypeOK'
    BY <2>11 DEF DetectorFired, TypeOK, taskVars, last
  <2>12. CASE PauseAll
    BY <2>12 DEF PauseAll, StopScripts, TypeOK, conditionVars, last
  <2>13. CASE ResumeAll
    BY <2>13 DEF ResumeAll, TypeOK, taskVars, conditionVars, last
  <2>14. CASE ProcessPeriodic
    <3>1. AvailableTasks \in [members : SUBSET Task, order : SUBSET (Task \X Task)]
      BY DEF AvailableTasks, Available, TypeOK
    <3>2. sinceCalled' \in [Task -> 0 .. FrequencyLimit]
      BY <2>14 DEF ProcessPeriodic, TypeOK
    <3> QED
      BY <2>14, <3>1, <3>2, ToRunIsTasks DEF ProcessPeriodic, TypeOK, conditionVars
  <2>15. CASE Tick
    <3>1. ASSUME NEW t \in Task
          PROVE  AtMost(sinceCalled[t] + 1, FrequencyLimit) \in 0 .. FrequencyLimit
      <4>1. sinceCalled[t] + 1 \in Nat
        BY DEF TypeOK
      <4> QED
        BY <4>1, AtMostBounds
    <3>2. ASSUME NEW c \in Condition
          PROVE  AtMost(age[c] + 1, Timeout) \in 0 .. Timeout
      <4>1. age[c] + 1 \in Nat
        BY DEF TypeOK
      <4> QED
        BY <4>1, AtMostBounds
    <3>3. firing' \in [Condition -> Nat]
      BY <2>15 DEF Tick, TypeOK
    <3> QED
      BY <2>15, <3>1, <3>2, <3>3 DEF Tick, TypeOK, last
  <2>16. CASE UNCHANGED vars
    BY <2>16 DEF TypeOK, vars, taskVars, conditionVars, last
  <2> QED
    BY <2>3, <2>4, <2>5, <2>6, <2>7, <2>8, <2>9, <2>10, <2>11, <2>12, <2>13, <2>14,
       <2>15, <2>16 DEF Next
<1> QED
  BY <1>1, <1>2, PTL DEF Spec

\* The script of an active task runs or its death is being reported, and no
\* other script runs, but for those that late reports have hidden.
THEOREM OrdersAreBelieved == Spec => []OrdersMatchBelief
<1>1. Init => OrdersMatchBelief
  BY DEF Init, OrdersMatchBelief
<1>2. OrdersMatchBelief /\ [Next]_vars => OrdersMatchBelief'
  <2> SUFFICES ASSUME OrdersMatchBelief, [Next]_vars PROVE OrdersMatchBelief'
    OBVIOUS
  <2> USE DEF OrdersMatchBelief
  <2> DEFINE Same == /\ active' = active /\ scripts' = scripts
                     /\ reports' = reports /\ misled' = misled
  <2>1. Same => OrdersMatchBelief'
    OBVIOUS
  <2>2. ASSUME NEW S, StopScripts(S) PROVE OrdersMatchBelief'
    BY <2>2 DEF StopScripts
  <2>3. ASSUME NEW t \in Task, AddTask(t) \/ RemoveTask(t) PROVE OrdersMatchBelief'
    BY <2>1, <2>2, <2>3 DEF AddTask, RemoveTask
  <2>4. ASSUME NEW t \in Task, ScriptDies(t) PROVE OrdersMatchBelief'
    BY <2>4 DEF ScriptDies
  <2>5. ASSUME NEW t \in Task, ProcessEnded(t) PROVE OrdersMatchBelief'
    BY <2>5 DEF ProcessEnded
  <2>6. ASSUME NEW t, NEW p, NEW C, SetTaskState(t, p, C) PROVE OrdersMatchBelief'
    BY <2>1, <2>6 DEF SetTaskState
  <2>7. ASSUME NEW t \in Task, NEW r, ScriptExit(t, r) PROVE OrdersMatchBelief'
    BY <2>2, <2>7 DEF ScriptExit
  <2>8. ASSUME NEW c \in Condition, AddCondition(c) \/ RemoveCondition(c)
        PROVE  OrdersMatchBelief'
    BY <2>1, <2>8 DEF AddCondition, RemoveCondition, taskVars
  <2>9. ASSUME NEW c, NEW on, SetConditionState(c, on) PROVE OrdersMatchBelief'
    BY <2>1, <2>9 DEF SetConditionState, taskVars
  <2>10. ASSUME NEW c, NEW time, DetectorFired(c, time) PROVE OrdersMatchBelief'
    BY <2>1, <2>10 DEF DetectorFired, taskVars
  <2>11. CASE PauseAll
    BY <2>2, <2>11 DEF PauseAll
  <2>12. CASE ResumeAll
    BY <2>1, <2>12 DEF ResumeAll, taskVars
  <2>13. CASE ProcessPeriodic
    BY <2>13 DEF ProcessPeriodic
  <2>14. CASE Tick \/ UNCHANGED vars
    BY <2>1, <2>14 DEF Tick, vars, taskVars
  <2> QED
    BY <2>3, <2>4, <2>5, <2>6, <2>7, <2>8, <2>9, <2>10, <2>11, <2>12, <2>13, <2>14 DEF Next
<1> QED
  BY <1>1, <1>2, PTL DEF Spec

\* No two tasks are active at once, and none while the AI is paused.
ActiveAlone ==
    /\ \A t, u \in active : t = u
    /\ allPaused => active = {}

\* The step that starts a task stops all others; no other step starts any.
LEMMA OneIsActive == Spec => []ActiveAlone
<1>1. Init => ActiveAlone
  BY DEF Init, ActiveAlone
<1>2. TypeOK /\ ActiveAlone /\ [Next]_vars => ActiveAlone'
  <2> SUFFICES ASSUME TypeOK, ActiveAlone, [Next]_vars PROVE ActiveAlone'
    OBVIOUS
  <2> DEFINE NothingStarts == active' \subseteq active /\ (allPaused' => allPaused)
  <2>1. NothingStarts => ActiveAlone'
    BY DEF ActiveAlone
  <2>2. ASSUME NEW t \in Task, AddTask(t) \/ RemoveTask(t) \/ ScriptDies(t) \/ ProcessEnded(t)
        PROVE  NothingStarts
    BY <2>2 DEF AddTask, RemoveTask, ScriptDies, ProcessEnded, StopScripts
  <2>3. ASSUME NEW t, NEW p, NEW C, SetTaskState(t, p, C) PROVE NothingStarts
    BY <2>3 DEF SetTaskState
  <2>4. ASSUME NEW t \in Task, NEW r, ScriptExit(t, r) PROVE NothingStarts
    BY <2>4 DEF ScriptExit, StopScripts
  <2>5. ASSUME NEW c \in Condition, AddCondition(c) \/ RemoveCondition(c)
        PROVE  NothingStarts
    BY <2>5 DEF AddCondition, RemoveCondition, taskVars
  <2>6. ASSUME NEW c, NEW on, SetConditionState(c, on) PROVE NothingStarts
    BY <2>6 DEF SetConditionState, taskVars
  <2>7. ASSUME NEW c, NEW time, DetectorFired(c, time) PROVE NothingStarts
    BY <2>7 DEF DetectorFired, taskVars
  <2>8. CASE PauseAll
    BY <2>8 DEF PauseAll, StopScripts, ActiveAlone
  <2>9. CASE ResumeAll
    BY <2>9 DEF ResumeAll, taskVars, ActiveAlone
  <2>10. CASE ProcessPeriodic
    <3>1. active' = ToRun /\ ~allPaused'
      BY <2>10 DEF ProcessPeriodic
    <3> QED
      BY <3>1, ChoiceIsUnique DEF ActiveAlone
  <2>11. CASE Tick \/ UNCHANGED vars
    BY <2>1, <2>11 DEF Tick, vars, taskVars
  <2> QED
    BY <2>1, <2>2, <2>3, <2>4, <2>5, <2>6, <2>7, <2>8, <2>9, <2>10, <2>11 DEF Next
<1> QED
  BY <1>1, <1>2, TypeCorrect, PTL DEF Spec

\* At most one script runs, and none while the AI is paused, but for those that
\* late reports have hidden: what runs besides the active task is hidden.
THEOREM ScriptsAreExclusive == Spec => []OneScriptAtATime
<1>1. OrdersMatchBelief /\ ActiveAlone => OneScriptAtATime
  BY DEF OrdersMatchBelief, ActiveAlone, OneScriptAtATime
<1> QED
  BY <1>1, OrdersAreBelieved, OneIsActive, PTL

\* Detectors run exactly for the conditions there are, and tasks wait only for
\* those: neither outlives a condition that is removed.
THEOREM ConditionsAreConsistent == Spec => [](DetectorsMatchConditions /\ ConditionsAreKnown)
<1> DEFINE Inv == DetectorsMatchConditions /\ ConditionsAreKnown
<1>1. Init => Inv
  BY DEF Init, DetectorsMatchConditions, ConditionsAreKnown
<1>2. TypeOK /\ Inv /\ [Next]_vars => Inv'
  <2> SUFFICES ASSUME TypeOK, Inv, [Next]_vars PROVE Inv'
    OBVIOUS
  <2> USE DEF DetectorsMatchConditions, ConditionsAreKnown
  <2> DEFINE NoneGoes == /\ conditions' = conditions /\ detectors' = detectors
                         /\ tasks' \subseteq tasks /\ waitsFor' = waitsFor
  <2>1. NoneGoes => Inv'
    BY DEF Detector
  <2>2. ASSUME NEW t \in Task, AddTask(t) PROVE Inv'
    BY <2>2 DEF AddTask, NewTask, conditionVars, Detector, TypeOK
  <2>3. ASSUME NEW t \in Task, RemoveTask(t) PROVE Inv'
    BY <2>3 DEF RemoveTask, NewTask, conditionVars, Detector, TypeOK
  <2>4. ASSUME NEW t \in Task, ScriptDies(t) \/ ProcessEnded(t) PROVE NoneGoes
    BY <2>4 DEF ScriptDies, ProcessEnded, conditionVars
  <2>5. ASSUME NEW t, NEW p, NEW C, SetTaskState(t, p, C) PROVE Inv'
    BY <2>5 DEF SetTaskState, conditionVars, Detector, TypeOK
  <2>6. ASSUME NEW t \in Task, NEW r, ScriptExit(t, r) PROVE NoneGoes
    BY <2>6 DEF ScriptExit, conditionVars
  <2>7. ASSUME NEW c \in Condition, AddCondition(c) PROVE Inv'
    BY <2>7 DEF AddCondition, taskVars, Detector
  <2>8. ASSUME NEW c \in Condition, RemoveCondition(c) PROVE Inv'
    BY <2>8 DEF RemoveCondition, Detector, TypeOK
  <2>9. ASSUME NEW c, NEW on, SetConditionState(c, on) PROVE NoneGoes
    BY <2>9 DEF SetConditionState, taskVars
  <2>10. ASSUME NEW c, NEW time, DetectorFired(c, time) PROVE NoneGoes
    BY <2>10 DEF DetectorFired, taskVars
  <2>11. CASE PauseAll
    BY <2>11 DEF PauseAll, conditionVars
  <2>12. CASE ResumeAll
    BY <2>12 DEF ResumeAll, taskVars, conditionVars
  <2>13. CASE ProcessPeriodic
    BY <2>13 DEF ProcessPeriodic, conditionVars
  <2>14. CASE Tick \/ UNCHANGED vars
    BY <2>14 DEF Tick, vars, taskVars, conditionVars
  <2> QED
    BY <2>1, <2>2, <2>3, <2>4, <2>5, <2>6, <2>7, <2>8, <2>9, <2>10, <2>11, <2>12,
       <2>13, <2>14 DEF Next
<1> QED
  BY <1>1, <1>2, TypeCorrect, PTL DEF Spec

\* A task that is finished, or has crashed too often, is never started again
\* while it exists.
THEOREM RetiredAreNotStarted == Spec => RetiredStaysOff
<1> DEFINE Off == \A t \in tasks \cap tasks' : Retired(t) => t \notin active' \/ t \in active
<1>1. TypeOK /\ [Next]_vars => Off
  <2> SUFFICES ASSUME TypeOK, Next PROVE Off
    BY DEF vars, taskVars
  <2> DEFINE NothingStarts == active' \subseteq active
  <2>1. NothingStarts => Off
    OBVIOUS
  <2>2. ASSUME NEW t \in Task, AddTask(t) \/ RemoveTask(t) \/ ScriptDies(t) \/ ProcessEnded(t)
        PROVE  NothingStarts
    BY <2>2 DEF AddTask, RemoveTask, ScriptDies, ProcessEnded, StopScripts
  <2>3. ASSUME NEW t, NEW p, NEW C, SetTaskState(t, p, C) PROVE NothingStarts
    BY <2>3 DEF SetTaskState
  <2>4. ASSUME NEW t \in Task, NEW r, ScriptExit(t, r) PROVE NothingStarts
    BY <2>4 DEF ScriptExit, StopScripts
  <2>5. ASSUME NEW c \in Condition, AddCondition(c) \/ RemoveCondition(c)
        PROVE  NothingStarts
    BY <2>5 DEF AddCondition, RemoveCondition, taskVars
  <2>6. ASSUME NEW c, NEW on, SetConditionState(c, on) PROVE NothingStarts
    BY <2>6 DEF SetConditionState, taskVars
  <2>7. ASSUME NEW c, NEW time, DetectorFired(c, time) PROVE NothingStarts
    BY <2>7 DEF DetectorFired, taskVars
  <2>8. CASE PauseAll \/ ResumeAll
    BY <2>8 DEF PauseAll, ResumeAll, StopScripts, taskVars
  <2>9. CASE ProcessPeriodic
    <3> SUFFICES ASSUME NEW t \in tasks, Retired(t) PROVE t \notin ToRun
      BY <2>9 DEF ProcessPeriodic
    <3>1. crashCount[t] \in Nat /\ CrashLimit \in Nat
      BY TaskManagerAssumption DEF TypeOK
    <3>2. ~IsAvailable(t)
      BY <3>1 DEF Retired, IsAvailable
    <3> QED
      BY <3>2 DEF ToRun, Available
  <2>10. CASE Tick
    BY <2>10 DEF Tick
  <2> QED
    BY <2>1, <2>2, <2>3, <2>4, <2>5, <2>6, <2>7, <2>8, <2>9, <2>10 DEF Next
<1> QED
  BY <1>1, TypeCorrect, PTL DEF Spec, RetiredStaysOff
=============================================================================
