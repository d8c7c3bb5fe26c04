---------------------------- MODULE SeanetSonar ----------------------------
(***************************************************************************)
(* The driver of the scanning sonar (auv/sonar/seanet_sonar.cpp): its read *)
(* thread brings the sonar head up (reboot, ready, version, parameters)    *)
(* and then asks for one line of data after the other; a second thread     *)
(* hands the lines on; messages set the parameters meanwhile.              *)
(*                                                                         *)
(* The head is hardware, modelled from what the driver expects of it.  It  *)
(* does what comes over the serial line in order, tells that it is alive   *)
(* from time to time, keeps a request for data until it is centred and has *)
(* parameters, and forgets all when it reboots.  It may be without power   *)
(* for a while: long enough for the driver to see it, which takes it three *)
(* seconds of silence, or not (a blink).  The line keeps the order; what   *)
(* the head sends may come garbled, and as the driver trusts the length    *)
(* that a packet says it has, others may be lost with it.                  *)
(*                                                                         *)
(* A definition named Defect... is not the code: it is what a bug would    *)
(* make of the definition after it, to show that a property can fail.      *)
(***************************************************************************)
EXTENDS Integers, Sequences, FiniteSets

CONSTANTS
    VersionEvery,   \* the version is asked for once in so many packets (10 in the code)
    QueueMax,       \* lines that may wait before one is dropped (200 in the code)
    LineMax,        \* bound: packets on the line when the head adds an Alive
    MaxOutages,     \* bound: how often the head loses its power
    MaxBlinks,      \* bound: how often it has its power back before this is seen
    MaxGarbled,     \* bound: how often a packet comes garbled
    MaxSets         \* bound: how often messages set the parameters

ASSUME SonarAssumption ==
    /\ {VersionEvery, QueueMax, LineMax} \subseteq Nat \ {0}
    /\ {MaxOutages, MaxBlinks, MaxGarbled, MaxSets} \subseteq Nat

VARIABLES
    state,      \* m_state
    isalive,    \* of sonarReadThread
    ready,      \* what m_motor_state says: isReady
    params,     \* ... and hasParams
    asked,      \* the static i, mod VersionEvery
    reqs,       \* m_cur_data_reqs
    queue,      \* the number of lines in m_queue
    up,         \* what is on the line to the head
    down,       \* what is on the line to the driver
    head,       \* the head: has power, is centred, has parameters, requests it has yet to answer
    faults,     \* how often each bounded event has happened
    lost        \* requests and lines of data that were lost, to the line or with
                \* the head's power, since the driver last began to count

driver == <<state, isalive, ready, params, asked, reqs>>
vars == <<driver, queue, up, down, head, faults, lost>>

States == {"SENDREBOOT", "WAITFORREADY", "WAITFORVERSION", "WAITFORPARAMS", "SCANNING"}
Packet == [type : {"Alive"}, ready : BOOLEAN, params : BOOLEAN] \cup [type : {"VersionData", "HeadData"}]

Faults == {"outage", "blink", "garbled", "set"}
Happens(what, max) == faults[what] < max /\ faults' = [faults EXCEPT ![what] = @ + 1]

\* How many of these packets are requests, or lines of data.
NumRequests(packets) == Cardinality({i \in 1..Len(packets) : packets[i] = "SendData"})
NumLines(packets) == Cardinality({i \in 1..Len(packets) : packets[i].type = "HeadData"})

\* sendPacket: nothing is kept for a head that has no power.
Send(packets) == up' = IF head.on THEN up \o packets ELSE <<>>

-----------------------------------------------------------------------------
(* The read thread: one packet of the head *)

DefectWaitForVersion(p) ==
    IF p.type = "VersionData"
    THEN state' = "WAITFORPARAMS" /\ UNCHANGED <<asked, up>>
    ELSE /\ asked' = (asked + 1) % VersionEvery
         /\ Send(IF asked = 0 THEN <<"SendVersion">> ELSE <<>>)
         /\ UNCHANGED state

WaitForVersion(p) ==
    IF p.type = "VersionData"
    THEN state' = "WAITFORPARAMS" /\ Send(<<"HeadParams">>) /\ UNCHANGED asked
    ELSE /\ asked' = (asked + 1) % VersionEvery
         /\ Send(IF asked = 0 THEN <<"SendVersion">> ELSE <<>>)
         /\ UNCHANGED state

\* As many requests as it takes until three are out.
Requests(n) == [i \in 1..(3 - n) |-> "SendData"]

Scanning(p) ==
    LET left == IF p.type = "HeadData" THEN reqs - 1 ELSE reqs IN
    /\ queue' = IF p.type = "HeadData" /\ queue <= QueueMax THEN queue + 1 ELSE queue
    /\ Send(Requests(left))
    /\ lost' = IF head.on THEN lost ELSE lost + NumRequests(Requests(left))
    /\ reqs' = IF left <= 2 THEN 3 ELSE left

\* The packet's own news of the head come first, then what the state asks for.
Receive ==
    /\ down # <<>>
    /\ down' = Tail(down)
    /\ LET p == Head(down)
           alive == p.type = "Alive"
           readyNow == IF alive THEN p.ready ELSE ready
           paramsNow == IF alive THEN p.params ELSE params
       IN
        /\ isalive' = (isalive \/ alive)
        /\ params' = paramsNow
        /\ \/ /\ state = "SENDREBOOT"
              /\ Send(<<"Reboot">>)
              /\ state' = "WAITFORREADY"
              /\ ready' = FALSE
              /\ UNCHANGED <<asked, reqs, queue, lost>>
           \/ /\ state = "WAITFORREADY"
              /\ state' = IF readyNow THEN "WAITFORVERSION" ELSE state
              /\ ready' = readyNow
              /\ UNCHANGED <<asked, reqs, queue, up, lost>>
           \/ /\ state = "WAITFORVERSION"
              /\ WaitForVersion(p)
              /\ ready' = readyNow
              /\ UNCHANGED <<reqs, queue, lost>>
           \/ /\ state = "WAITFORPARAMS"
              /\ state' = IF paramsNow THEN "SCANNING" ELSE state
              /\ ready' = readyNow
              /\ UNCHANGED <<asked, reqs, queue, up, lost>>
           \/ /\ state = "SCANNING"
              /\ Scanning(p)
              /\ ready' = readyNow
              /\ UNCHANGED <<state, asked>>
    /\ UNCHANGED <<head, faults>>

DefectGiveUp ==
    /\ state' = "SENDREBOOT"
    /\ isalive' = FALSE
    /\ lost' = 0
    /\ UNCHANGED <<ready, params, asked, reqs>>

DefectGiveUpAsking ==
    /\ reqs' = 0
    /\ isalive' = FALSE
    /\ lost' = 0
    /\ UNCHANGED <<state, ready, params, asked>>

\* A read has timed out.  The port is opened again, and all begins anew.
GiveUp ==
    /\ state' = "SENDREBOOT"
    /\ reqs' = 0
    /\ isalive' = FALSE
    /\ lost' = 0
    /\ UNCHANGED <<ready, params, asked>>

\* For three seconds nothing has come.
Timeout ==
    /\ ~head.on
    /\ down = <<>>
    /\ isalive
    /\ GiveUp
    /\ UNCHANGED <<queue, up, down, head, faults>>

\* A packet that comes garbled is lost, and so is what readPacket takes for its
\* rest, because of the length the packet says it has, or skips until it finds
\* the beginning of another.
LoseFirst(n) ==
    /\ Happens("garbled", MaxGarbled)
    /\ down' = SubSeq(down, n + 1, Len(down))
    /\ UNCHANGED <<queue, up, head>>

\* InvalidPacketException, or a resync.
SkipGarbled ==
    \E n \in 1..Len(down) :
        /\ LoseFirst(n)
        /\ lost' = lost + NumLines(SubSeq(down, 1, n))
        /\ UNCHANGED driver

\* The length is more than what comes in three seconds: the read times out.
GarbledTimesOut ==
    /\ down # <<>>
    /\ LoseFirst(Len(down))
    /\ IF isalive THEN GiveUp ELSE UNCHANGED driver /\ lost' = lost + NumLines(down)

-----------------------------------------------------------------------------
(* The other threads *)

\* sonarProcessThread
Process ==
    /\ queue > 0
    /\ queue' = queue - 1
    /\ UNCHANGED <<driver, up, down, head, faults, lost>>

\* set_params and the like, in the thread that brings messages.
SetParams ==
    /\ Happens("set", MaxSets)
    /\ Send(<<"HeadParams">>)
    /\ UNCHANGED <<driver, queue, down, head, lost>>

-----------------------------------------------------------------------------
(* The head *)

Obey ==
    /\ head.on
    /\ up # <<>>
    /\ up' = Tail(up)
    /\ LET c == Head(up) IN
        /\ down' = IF c = "SendVersion" THEN Append(down, [type |-> "VersionData"]) ELSE down
        /\ head' = CASE c = "Reboot" -> [on |-> TRUE, ready |-> FALSE, params |-> FALSE, pending |-> 0]
                     [] c = "HeadParams" -> [head EXCEPT !.params = TRUE]
                     [] c = "SendData" -> [head EXCEPT !.pending = @ + 1]
                     [] OTHER -> head
    /\ UNCHANGED <<driver, queue, faults, lost>>

Centre ==
    /\ head.on /\ ~head.ready
    /\ head' = [head EXCEPT !.ready = TRUE]
    /\ UNCHANGED <<driver, queue, up, down, faults, lost>>

Answer ==
    /\ head.on /\ head.ready /\ head.params /\ head.pending > 0
    /\ head' = [head EXCEPT !.pending = @ - 1]
    /\ down' = Append(down, [type |-> "HeadData"])
    /\ UNCHANGED <<driver, queue, up, faults, lost>>

TellAlive ==
    /\ head.on
    /\ Len(up) + Len(down) < LineMax
    /\ down' = Append(down, [type |-> "Alive", ready |-> head.ready, params |-> head.params])
    /\ UNCHANGED <<driver, queue, up, head, faults, lost>>

LosePower ==
    /\ head.on
    /\ Happens("outage", MaxOutages)
    /\ lost' = lost + head.pending + NumRequests(up)
    /\ head' = [on |-> FALSE, ready |-> FALSE, params |-> FALSE, pending |-> 0]
    /\ up' = <<>>
    /\ UNCHANGED <<driver, queue, down>>

\* The driver has seen that the head is silent.
PowerComesBack ==
    /\ ~head.on
    /\ down = <<>>
    /\ ~isalive
    /\ head' = [head EXCEPT !.on = TRUE]
    /\ UNCHANGED <<driver, queue, up, down, faults, lost>>

\* It has not: the silence was too short, or packets are left to be read.
Blink ==
    /\ ~head.on
    /\ down # <<>> \/ isalive
    /\ Happens("blink", MaxBlinks)
    /\ head' = [head EXCEPT !.on = TRUE]
    /\ UNCHANGED <<driver, queue, up, down, lost>>

-----------------------------------------------------------------------------
\* The read thread has sent the reboot and waits for the first packet.  The
\* head may still be at work for a driver that was killed.
Leftovers == {<<>>} \cup {<<p>> : p \in Packet} \cup {<<p, q>> : p, q \in Packet}
Init ==
    /\ state = "WAITFORREADY"
    /\ isalive = FALSE
    /\ ready = FALSE
    /\ params = TRUE   \* noparams(0)
    /\ asked = 0
    /\ reqs = 0
    /\ queue = 0
    /\ up = <<"Reboot">>
    /\ down \in Leftovers
    /\ head \in [on : {TRUE}, ready : {TRUE}, params : {TRUE}, pending : 0..3]
    /\ faults = [what \in Faults |-> 0]
    /\ lost = 0

ReadThread == Receive \/ Timeout
HeadWorks == Obey \/ Centre \/ Answer
Next ==
    \/ ReadThread \/ SkipGarbled \/ GarbledTimesOut \/ Process \/ SetParams
    \/ HeadWorks \/ TellAlive \/ LosePower \/ PowerComesBack \/ Blink

Spec == Init /\ [][Next]_vars

\* The threads run, the head does what it is told and tells that it is alive,
\* and its power comes back.
FairSpec ==
    /\ Spec
    /\ WF_vars(ReadThread) /\ WF_vars(Process)
    /\ WF_vars(Obey) /\ WF_vars(Centre) /\ WF_vars(Answer) /\ WF_vars(TellAlive)
    /\ WF_vars(PowerComesBack)

-----------------------------------------------------------------------------
(* Properties *)

\* The type invariant.
TypeOK ==
    /\ state \in States
    /\ isalive \in BOOLEAN
    /\ ready \in BOOLEAN
    /\ params \in BOOLEAN
    /\ asked \in 0..(VersionEvery - 1)
    /\ reqs \in 0..3
    /\ queue \in 0..(QueueMax + 1)
    /\ up \in Seq({"Reboot", "SendVersion", "HeadParams", "SendData"})
    /\ down \in Seq(Packet)
    /\ head \in [on : BOOLEAN, ready : BOOLEAN, params : BOOLEAN, pending : Nat]
    /\ faults \in [Faults -> Nat]
    /\ lost \in Nat

Outstanding == head.pending + NumRequests(up) + NumLines(down)

\* m_cur_data_reqs counts no request that nobody will answer, but for those of
\* which something was lost since the driver last gave up: otherwise it would
\* ask for one line less at a time, and after three such for none.
NoAnswerIsAwaitedInVain == reqs <= Outstanding + lost

\* The head never has to look for data before it has parameters, whatever old
\* packets make the driver believe, unless it lost its power and the driver has
\* not seen that.
RequestsFindParams == faults["blink"] = 0 /\ head.pending > 0 => head.params

\* Lines go on coming, after each outage too, unless the driver has not seen it
\* or three requests or lines were lost and the driver waits for their answers.
ScanningGoesOn == []<>(queue > 0 \/ lost >= 3 \/ faults["blink"] > 0)

\* The same without the exceptions.  The code does not keep this: see the README.
LinesKeepComing == []<>(queue > 0)

\* seanet_sonar.h:108, of m_cur_data_reqs: "How many data requests have been
\* issued which haven't been replied to [...] Used to make sure there is always
\* one outstanding data request."
AlwaysOneOutstanding == head.on /\ reqs > 0 => Outstanding > 0
=============================================================================
