---------------------------- MODULE Watch_proofs ----------------------------
(***************************************************************************)
(* Proofs about Watch, for any processes, any number of threads that give  *)
(* requests, and any list of signals: its type, that no live process of a  *)
(* name that can be searched for is forgotten, and what follows from that. *)
(***************************************************************************)
EXTENDS Watch, TLAPS

\* What a thread remembers of a request has its type.
LEMMA RequestsAreTyped ==
    ASSUME TypeOK, NEW t \in Thread, NEW p \in Process, NEW s \in Seq({"term", "null", "kill"}),
           Start(t, p) \/ Stop(t, p) \/ Restart(t, p, s)
    PROVE  call' \in [Thread -> Call]
<1> USE DEF TypeOK, Call, States
<1>1. CASE Start(t, p)
  <2>1. [p |-> p, to |-> "Starting", sigs |-> <<>>] \in Call
    OBVIOUS
  <2> QED
    BY <1>1, <2>1 DEF Start
<1>2. CASE Stop(t, p)
  BY <1>2, WatchAssumption DEF Stop
<1>3. CASE Restart(t, p, s)
  <2>1. [p |-> p, to |-> "Restarting", sigs |-> s] \in Call
    OBVIOUS
  <2> QED
    BY <1>3, <2>1 DEF Restart
<1> QED
  BY <1>1, <1>2, <1>3

\* What the monitor has still to do has its type, and names a process unless
\* the monitor is between two of them.
TickOK(next) == next \in Tick /\ (next.p = NoProcess <=> next.next \in {"visit", "ended"})

LEMMA ThenIsTyped ==
    ASSUME NoProcess \notin Process, NEW p \in Process,
           NEW next \in {"prereq", "died", "callback", "gone", "also"} \cup States,
           NEW S \in SUBSET Process
    PROVE  TickOK(Between) /\ TickOK(Then(p, next)) /\ TickOK([Then(p, next) EXCEPT !.todo = S])
BY DEF TickOK, Between, Then, Tick, States

LEMMA TicksAreTyped ==
    ASSUME NoProcess \notin Process, NEW p \in Process
    PROVE  /\ TickOK(Between)
           /\ \A next \in {"Running", "Zombie", "Starting", "Stopped", "died", "callback", "gone"} :
                TickOK(Then(p, next))
           /\ \A S \in SUBSET Process : /\ TickOK([Then(p, "prereq") EXCEPT !.todo = S])
                                       /\ TickOK([Then(p, "also") EXCEPT !.todo = S])
BY ThenIsTyped DEF States

\* Every variable keeps its type, and the monitor knows which process it is
\* busy with whenever it is busy.
THEOREM TypeCorrect == Spec => []TypeOK
<1>1. Init => TypeOK
  BY WatchAssumption DEF Init, TypeOK, Between, Tick, NoCall, Call, States
<1>2. TypeOK /\ [Next]_vars => TypeOK'
  <2> SUFFICES ASSUME TypeOK, [Next]_vars PROVE TypeOK'
    OBVIOUS
  <2>a. /\ NoProcess \notin Process
        /\ Signals \in Seq({"term", "null", "kill"})
        /\ Prereq \in [Process -> SUBSET Process]
        /\ RestartAlso \in [Process -> SUBSET Process]
        /\ Unlaunchable \subseteq Process
    BY WatchAssumption
  <2>b. Monitor \in Thread /\ Commander \subseteq Thread
    BY DEF Thread
  <2>c. tick.next \notin {"visit", "ended"} => tick.p \in Process
    BY DEF TypeOK, Tick
  <2>1. ASSUME NEW p \in Process, Visit(p) PROVE TypeOK'
    <3>1. round' \subseteq Process /\ UNCHANGED <<state, noRestart, call>>
      BY <2>1 DEF Visit, TypeOK
    <3>2. tick.next = "visit" /\ tick.p = NoProcess
      BY <2>1 DEF Visit, At, TypeOK
    <3>3. CASE Starting(p)
      <4>1. Prereq[p] \in SUBSET Process
        BY <2>a
      <4> QED
        <5>1. TickOK(tick') /\ UNCHANGED sigs
          <6>1. \/ tick' = Then(p, "Running")
                \/ tick' = [Then(p, "prereq") EXCEPT !.todo = Prereq[p]]
            BY <3>3 DEF Starting
          <6>2. /\ TickOK(Then(p, "Running"))
                /\ TickOK([Then(p, "prereq") EXCEPT !.todo = Prereq[p]])
            BY <2>a, <4>1, TicksAreTyped
          <6> QED
            BY <3>3, <6>1, <6>2 DEF Starting
        <5>2. alive' \subseteq Process /\ orphaned' \subseteq Process /\ owed' \subseteq Process
          BY <3>3 DEF Starting, TypeOK, processes
        <5> QED
          BY <3>1, <5>1, <5>2 DEF TickOK, TypeOK
    <3>4. CASE Running(p)
      <4>1. TickOK(tick')
        BY <2>a, <3>4, TicksAreTyped DEF Running, TickOK, TypeOK
      <4> QED
        BY <3>1, <3>4, <4>1 DEF Running, TickOK, TypeOK, processes
    <3>5. CASE Stopping(p)
      <4>1. CASE Signal(p)
        BY <3>1, <3>5, <4>1 DEF Stopping, Signal, TypeOK
      <4>2. CASE ~Signal(p)
        <5>1. TickOK(tick')
          BY <2>a, <3>5, <4>2, TicksAreTyped DEF Stopping
        <5> QED
          BY <3>1, <3>5, <4>2, <5>1 DEF Stopping, TickOK, TypeOK, processes
      <4> QED
        BY <4>1, <4>2
    <3>6. CASE Stopped(p)
      BY <3>1, <3>6 DEF Stopped, TypeOK, processes
    <3> QED
      BY <2>1, <3>3, <3>4, <3>5, <3>6 DEF Visit
  <2>2. ASSUME NEW p \in Process, CheckPrereq(p) PROVE TypeOK'
    <3>1. call' \in [Thread -> Call]
      BY <2>2, <2>b, RequestsAreTyped DEF CheckPrereq, TypeOK
    <3>2. /\ tick' \in Tick
          /\ tick'.p = tick.p /\ tick'.next = tick.next
      BY <2>2 DEF CheckPrereq, TypeOK, Tick
    <3> QED
      BY <2>2, <3>1, <3>2 DEF CheckPrereq, TypeOK, processes
  <2>3. ASSUME NEW p \in Process, AlsoRestart(p) PROVE TypeOK'
    <3>1. call' \in [Thread -> Call]
      BY <2>3, <2>a, <2>b, RequestsAreTyped DEF AlsoRestart, TypeOK
    <3>2. tick' \in Tick /\ (tick'.p = NoProcess <=> tick'.next \in {"visit", "ended"})
      <4>1. CASE p \in noRestart
        BY <2>3, <4>1 DEF AlsoRestart, Then, Between, Tick
      <4>2. CASE p \notin noRestart
        <5>1. tick' = [tick EXCEPT !.todo = @ \ {p}]
          BY <2>3, <4>2 DEF AlsoRestart
        <5> QED
          BY <5>1 DEF TypeOK, Tick
      <4> QED
        BY <4>1, <4>2
    <3> QED
      BY <2>3, <3>1, <3>2 DEF AlsoRestart, TypeOK, processes
  <2>4. CASE NotReady
    <3>1. tick.p \in Process
      BY <2>4, <2>c DEF NotReady, At
    <3>2. TickOK(tick')
      BY <2>4, <2>a, <3>1, TicksAreTyped DEF NotReady
    <3> QED
      BY <2>4, <2>a, <3>1, <3>2 DEF NotReady, TickOK, TypeOK, processes
  <2>5. CASE Launch
    <3>1. tick.p \in Process
      BY <2>5, <2>c DEF Launch, At
    <3>2. TickOK(tick')
      BY <2>5, <2>a, <3>1, TicksAreTyped DEF Launch
    <3> QED
      BY <2>5, <2>a, <3>1, <3>2 DEF Launch, TickOK, TypeOK, processes
  <2>6. CASE LaunchFails
    <3>1. tick.p \in Process
      BY <2>6, <2>c DEF LaunchFails, At
    <3>2. TickOK(tick')
      BY <2>6, <2>a, <3>1, TicksAreTyped DEF LaunchFails
    <3> QED
      BY <2>6, <2>a, <3>1, <3>2 DEF LaunchFails, TickOK, TypeOK, processes
  <2>7. CASE SetState
    <3>1. state' \in [Process -> States]
      BY <2>7 DEF SetState, TypeOK
    <3>2. tick' = Between /\ tick.p \in Process
      BY <2>7, <2>c DEF SetState, States
    <3> QED
      BY <2>7, <2>a, <3>1, <3>2, TicksAreTyped DEF SetState, TickOK, TypeOK, processes
  <2>8. CASE Died
    <3>1. tick.p \in Process
      BY <2>8, <2>c DEF Died, At
    <3>2. TickOK(tick')
      BY <2>8, <2>a, <3>1, TicksAreTyped DEF Died
    <3> QED
      BY <2>8, <2>a, <3>1, <3>2 DEF Died, TickOK, TypeOK, processes, States
  <2>9. CASE DeathCallback
    <3>1. call' \in [Thread -> Call]
      <4>1. <<>> \in Seq({"term", "null", "kill"})
        OBVIOUS
      <4>2. CASE UNCHANGED call
        BY <4>2 DEF TypeOK
      <4>3. CASE Restart(Monitor, tick.p, <<>>)
        BY <2>9, <2>b, <2>c, <4>1, <4>3, RequestsAreTyped DEF DeathCallback, At
      <4> QED
        BY <2>9, <4>2, <4>3 DEF DeathCallback
    <3>2. /\ tick.p \in Process
          /\ tick' = Between \/ tick' = Then(tick.p, "Stopped")
      BY <2>9, <2>c DEF DeathCallback, At
    <3>3. tick' \in Tick /\ (tick'.p = NoProcess <=> tick'.next \in {"visit", "ended"})
      BY <2>a, <3>2, TicksAreTyped DEF TickOK
    <3>4. owed' \subseteq Process
      BY <2>9 DEF DeathCallback, TypeOK
    <3> QED
      BY <2>9, <3>1, <3>3, <3>4 DEF DeathCallback, TypeOK, processes
  <2>10. CASE Gone
    <3>1. tick.p \in Process /\ RestartAlso[tick.p] \in SUBSET Process
      BY <2>10, <2>a, <2>c DEF Gone, At
    <3>2. tick' \in Tick /\ (tick'.p = NoProcess <=> tick'.next \in {"visit", "ended"})
      BY <2>10, <2>a, <3>1, TicksAreTyped DEF Gone, TickOK
    <3> QED
      BY <2>10, <3>2 DEF Gone, TypeOK, processes
  <2>11. CASE AllRestarted
    <3>1. tick.p \in Process
      BY <2>11, <2>c DEF AllRestarted, At
    <3>2. TickOK(tick')
      BY <2>11, <2>a, <3>1, TicksAreTyped DEF AllRestarted
    <3> QED
      BY <2>11, <2>a, <3>1, <3>2 DEF AllRestarted, TickOK, TypeOK, processes
  <2>12. ASSUME NEW t \in Thread, DecideStop(t) PROVE TypeOK'
    <3>1. call[t] \in Call
      BY DEF TypeOK
    <3>2. sigs' \in [Process -> Seq({"term", "null", "kill"})]
      BY <2>12, <3>1 DEF DecideStop, TypeOK, Call
    <3>3. call' \in [Thread -> Call]
      BY <2>12, <3>1 DEF DecideStop, TypeOK, Call, States
    <3> QED
      BY <2>12, <3>2, <3>3 DEF DecideStop, TypeOK, processes
  <2>13. ASSUME NEW t \in Thread, Carry(t) PROVE TypeOK'
    <3>1. call[t] \in Call
      BY DEF TypeOK
    <3>2. sigs' \in [Process -> Seq({"term", "null", "kill"})]
      BY <2>13, <3>1 DEF Carry, TypeOK, Call
    <3>3. call' \in [Thread -> Call]
      BY <2>13 DEF Carry, TypeOK, Call, NoCall
    <3>4. state' \in [Process -> States] /\ owed' \subseteq Process
      BY <2>13 DEF Carry, TypeOK
    <3> QED
      BY <2>13, <3>2, <3>3, <3>4 DEF Carry, TypeOK, processes
  <2>14. ASSUME NEW t \in Commander, NEW p \in Process, Request(t, p) PROVE TypeOK'
    <3>1. call' \in [Thread -> Call]
      BY <2>14, <2>a, <2>b, RequestsAreTyped DEF Request
    <3> QED
      BY <2>14, <3>1 DEF Request, TypeOK, processes
  <2>15. ASSUME NEW p \in Process, Exit(p) PROVE TypeOK'
    BY <2>15 DEF Exit, TypeOK
  <2>16. CASE UNCHANGED vars
    BY <2>16 DEF vars, TypeOK
  <2> QED
    BY <2>b, <2>1, <2>2, <2>3, <2>4, <2>5, <2>6, <2>7, <2>8, <2>9, <2>10, <2>11, <2>12,
       <2>13, <2>14, <2>15, <2>16 DEF Next, MonitorStep
<1> QED
  BY <1>1, <1>2, PTL DEF Spec

-----------------------------------------------------------------------------
\* Between the moment starting has looked for a live process in vain and the
\* moment it starts one, none comes to life: only the monitor starts any.
NoneToTakeOver == tick.next = "prereq" /\ tick.p \in Searched => tick.p \notin alive
Remembered == NoProcessForgotten /\ NoneToTakeOver

\* Watch has the pid of every live process of a name that can be searched for,
\* however the requests of other threads fall between its steps.
THEOREM NoneIsForgotten == Spec => []NoProcessForgotten
<1>1. Init => Remembered
  BY DEF Init, Remembered, NoProcessForgotten, NoneToTakeOver, Between
<1>2. TypeOK /\ Remembered /\ [Next]_vars => Remembered'
  <2> SUFFICES ASSUME TypeOK, Remembered, [Next]_vars PROVE Remembered'
    OBVIOUS
  <2> USE DEF Remembered, NoProcessForgotten, NoneToTakeOver
  <2>1. ASSUME NEW p \in Process, Visit(p) PROVE Remembered'
    <3>1. tick.next = "visit"
      BY <2>1 DEF Visit, At
    <3>2. CASE Starting(p)
      BY <3>2 DEF Starting, MayMiss, Lives, Then, Between, processes
    <3>3. CASE Running(p)
      BY <3>1, <3>3 DEF Running, Then, Between, processes
    <3>4. CASE Stopping(p)
      BY <3>1, <3>4 DEF Stopping, Signal, Then, Between, processes
    <3>5. CASE Stopped(p)
      BY <3>5 DEF Stopped, processes
    <3> QED
      BY <2>1, <3>2, <3>3, <3>4, <3>5 DEF Visit
  <2>2. ASSUME NEW p \in Process, CheckPrereq(p) PROVE Remembered'
    BY <2>2 DEF CheckPrereq, TypeOK, Tick, processes
  <2>3. ASSUME NEW p \in Process, AlsoRestart(p) PROVE Remembered'
    BY <2>3 DEF AlsoRestart, At, TypeOK, Tick, Then, Between, processes
  <2>4. CASE Launch
    BY <2>4 DEF Launch, At, Then, Between
  <2>5. CASE NotReady \/ LaunchFails \/ SetState
    BY <2>5 DEF NotReady, LaunchFails, SetState, Between, processes
  <2>6. CASE Died \/ DeathCallback \/ AllRestarted
    <3>1. /\ \/ tick' = Between \/ tick' = Then(tick.p, "callback")
             \/ tick' = Then(tick.p, "Stopped") \/ tick' = Then(tick.p, "Starting")
          /\ UNCHANGED processes
      BY <2>6 DEF Died, DeathCallback, AllRestarted
    <3>2. tick'.next # "prereq"
      <4>1. /\ Between.next = "visit"
            /\ \A p, next : Then(p, next).next = next
        BY DEF Then, Between
      <4> QED
        BY <3>1, <4>1
    <3> QED
      BY <3>1, <3>2 DEF processes
  <2>7. CASE Gone
    BY <2>7 DEF Gone, Then, Between, processes
  <2>8. ASSUME NEW t \in Thread, DecideStop(t) \/ Carry(t) PROVE Remembered'
    BY <2>8 DEF DecideStop, Carry, processes
  <2>9. ASSUME NEW t \in Commander, NEW p \in Process, Request(t, p) PROVE Remembered'
    BY <2>9 DEF Request, processes
  <2>10. ASSUME NEW p \in Process, Exit(p) PROVE Remembered'
    BY <2>10 DEF Exit
  <2>11. CASE UNCHANGED vars
    BY <2>11 DEF vars
  <2> QED
    BY <2>1, <2>2, <2>3, <2>4, <2>5, <2>6, <2>7, <2>8, <2>9, <2>10, <2>11
       DEF Next, MonitorStep, Thread
<1>3. Remembered => NoProcessForgotten
  BY DEF Remembered
<1> QED
  BY <1>1, <1>2, <1>3, TypeCorrect, PTL DEF Spec

\* There is at most one process of each name, as utils/watch.py:148 means, where
\* all names can be searched for; of the scripts of the AI, which cannot, two may run.
THEOREM SearchedProcessesRunOnce ==
    ASSUME Searched = Process
    PROVE  Spec => []OneProcessEach
<1>1. TypeOK /\ NoProcessForgotten => OneProcessEach
  BY DEF TypeOK, NoProcessForgotten, OneProcessEach
<1> QED BY <1>1, TypeCorrect, NoneIsForgotten, PTL
=============================================================================
