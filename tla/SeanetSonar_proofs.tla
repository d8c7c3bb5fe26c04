------------------------- MODULE SeanetSonar_proofs -------------------------
(***************************************************************************)
(* Theorems about SeanetSonar, for every value of its constants: its type; *)
(* that the head never has to look for data before it has parameters, as   *)
(* long as the driver sees each loss of its power; and that the driver     *)
(* waits for no more data than the head owes and was lost.                 *)
(*                                                                         *)
(* The second needs to know what the head will be like when it comes to a  *)
(* request that is still on the line: it has parameters by then, because   *)
(* they are on the line before the request, or because it has them already *)
(* and no reboot is on its way.  The same holds after the whole line while *)
(* the driver waits for parameters or scans, so that it may send requests. *)
(* The driver is in those states only if it has heard the head; power that *)
(* comes back finds it in another one.                                     *)
(*                                                                         *)
(* The third counts what the head owes: the requests on the line behind    *)
(* any reboot, those it keeps if no reboot is on its way, and the lines of *)
(* data on their way back.                                                 *)
(***************************************************************************)
EXTENDS SeanetSonar, SequenceTheorems, FiniteSetTheorems, TLAPS

Commands == {"Reboot", "SendVersion", "HeadParams", "SendData"}

\* The head has parameters when it has done the first k packets on the line.
Loaded(has, line, k) ==
    \/ has /\ \A i \in 1..k : line[i] # "Reboot"
    \/ \E j \in 1..k : line[j] = "HeadParams" /\ \A i \in j..k : line[i] # "Reboot"
LoadedAfter(k) == Loaded(head.params, up, k)

LineIsCut == ~head.on => up = <<>> /\ head.pending = 0
Seen == faults["blink"] = 0
DriverIsRight ==
    Seen /\ head.on /\ state \in {"WAITFORPARAMS", "SCANNING"} => LoadedAfter(Len(up))
RequestsWillFind == Seen => \A k \in 1..Len(up) : up[k] = "SendData" => LoadedAfter(k)
HeadWasHeard ==
    /\ state \in {"WAITFORVERSION", "WAITFORPARAMS", "SCANNING"} => isalive
    /\ state = "WAITFORREADY" /\ ready => isalive

IInv ==
    /\ TypeOK /\ LineIsCut /\ DriverIsRight
    /\ RequestsWillFind /\ HeadWasHeard /\ RequestsFindParams
-----------------------------------------------------------------------------
(* The line *)

\* What is sent comes last, and changes nothing for what was sent before.
LEMMA SendingAddsAtTheEnd ==
    ASSUME NEW has \in BOOLEAN, NEW line \in Seq(Commands), NEW new \in Seq(Commands),
           NEW k \in 0..Len(line), Loaded(has, line, k)
    PROVE  Loaded(has, line \o new, k)
<1>1. \A i \in 1..k : (line \o new)[i] = line[i]
  BY ConcatProperties, LenProperties
<1> QED
  BY <1>1 DEF Loaded

\* A packet other than a reboot takes no parameters away.
LEMMA OnlyRebootsUnload ==
    ASSUME NEW has \in BOOLEAN, NEW line \in Seq(Commands),
           NEW k \in 0..Len(line), NEW m \in k..Len(line), Loaded(has, line, k),
           \A i \in (k + 1)..m : line[i] # "Reboot"
    PROVE  Loaded(has, line, m)
<1>1. k \in Nat /\ m \in Nat /\ k <= m
  BY LenProperties
<1>2. CASE has /\ \A i \in 1..k : line[i] # "Reboot"
  <2>1. \A i \in 1..m : i \in 1..k \/ i \in (k + 1)..m
    BY <1>1
  <2> QED
    BY <1>2, <2>1 DEF Loaded
<1>3. ASSUME NEW j \in 1..k, line[j] = "HeadParams", \A i \in j..k : line[i] # "Reboot"
      PROVE  Loaded(has, line, m)
  <2>1. \A i \in j..m : i \in j..k \/ i \in (k + 1)..m
    BY <1>1
  <2>2. j \in 1..m
    BY <1>1
  <2> QED
    BY <1>3, <2>1, <2>2 DEF Loaded
<1> QED
  BY <1>2, <1>3 DEF Loaded

\* When the head does the first packet, the rest of the line is as before.
LEMMA ObeyingKeepsTheRest ==
    ASSUME NEW has \in BOOLEAN, NEW line \in Seq(Commands), line # <<>>,
           NEW k \in 1..Len(line), Loaded(has, line, k)
    PROVE  Loaded(Head(line) = "HeadParams" \/ (has /\ Head(line) # "Reboot"), Tail(line), k - 1)
<1> DEFINE now == Head(line) = "HeadParams" \/ (has /\ Head(line) # "Reboot")
<1>1. /\ Len(line) \in Nat /\ Len(line) > 0 /\ Len(Tail(line)) = Len(line) - 1
      /\ Head(line) = line[1]
      /\ \A i \in 1..(k - 1) : Tail(line)[i] = line[i + 1]
  BY HeadTailProperties, EmptySeq, LenProperties
<1>2. CASE has /\ \A i \in 1..k : line[i] # "Reboot"
  <2>1. \A i \in 1..(k - 1) : i + 1 \in 1..k
    BY <1>1
  <2>2. now /\ \A i \in 1..(k - 1) : Tail(line)[i] # "Reboot"
    BY <1>1, <1>2, <2>1
  <2> QED
    BY <2>2 DEF Loaded
<1>3. ASSUME NEW j \in 1..k, line[j] = "HeadParams", \A i \in j..k : line[i] # "Reboot"
      PROVE  Loaded(now, Tail(line), k - 1)
  <2>1. CASE j = 1
    <3>1. \A i \in 1..(k - 1) : i + 1 \in j..k
      BY <2>1, <1>1
    <3>2. now /\ \A i \in 1..(k - 1) : Tail(line)[i] # "Reboot"
      BY <1>1, <1>3, <2>1, <3>1
    <3> QED
      BY <3>2 DEF Loaded
  <2>2. CASE j # 1
    <3>1. j - 1 \in 1..(k - 1) /\ Tail(line)[j - 1] = "HeadParams"
      BY <1>1, <1>3, <2>2
    <3>2. \A i \in (j - 1)..(k - 1) : i \in 1..(k - 1) /\ i + 1 \in j..k
      BY <1>1, <2>2
    <3>3. \A i \in (j - 1)..(k - 1) : Tail(line)[i] # "Reboot"
      BY <1>1, <1>3, <3>2
    <3> QED
      BY <3>1, <3>3 DEF Loaded
  <2> QED
    BY <2>1, <2>2
<1> QED
  BY <1>2, <1>3 DEF Loaded

\* A request may be sent when the head has parameters after the whole line.
LEMMA SendKeepsTheLine ==
    ASSUME TypeOK, LineIsCut, RequestsWillFind, NEW new \in Seq(Commands), Send(new), head' = head,
           Seen' => Seen,
           Seen /\ head.on => \/ \A i \in 1..Len(new) : new[i] # "SendData"
                              \/ LoadedAfter(Len(up)) /\ \A i \in 1..Len(new) : new[i] # "Reboot"
    PROVE  /\ up' \in Seq(Commands) /\ LineIsCut' /\ RequestsWillFind'
           /\ head.on /\ LoadedAfter(Len(up)) /\ (\A i \in 1..Len(new) : new[i] # "Reboot")
                => Loaded(head'.params, up', Len(up'))
           /\ head.on /\ new = <<"HeadParams">> => Loaded(head'.params, up', Len(up'))
<1> DEFINE m == Len(up)
<1>1. up \in Seq(Commands) /\ head.params \in BOOLEAN
  BY DEF TypeOK, Commands
<1>2. CASE ~head.on
  BY <1>2 DEF LineIsCut, Send, RequestsWillFind, Commands
<1>3. CASE head.on
  <2>1. up' = up \o new
    BY <1>3 DEF Send
  <2>2. /\ up' \in Seq(Commands) /\ m \in Nat /\ Len(new) \in Nat /\ Len(up') = m + Len(new)
        /\ \A i \in 1..m : up'[i] = up[i]
        /\ \A i \in (m + 1)..Len(up') : i - m \in 1..Len(new) /\ up'[i] = new[i - m]
    BY <1>1, <2>1, ConcatProperties, LenProperties
  <2>3. \A k \in 0..m : LoadedAfter(k) => Loaded(head.params, up', k)
    BY <1>1, <2>1, SendingAddsAtTheEnd DEF LoadedAfter
  <2>4. ASSUME LoadedAfter(m), \A i \in 1..Len(new) : new[i] # "Reboot", NEW k \in m..Len(up')
        PROVE  Loaded(head.params, up', k)
    <3>1. Loaded(head.params, up', m)
      BY <2>2, <2>3, <2>4
    <3>2. \A i \in (m + 1)..k : i \in (m + 1)..Len(up')
      BY <2>2
    <3>2a. \A i \in (m + 1)..k : up'[i] # "Reboot"
      BY <2>2, <2>4, <3>2
    <3>3. m \in 0..Len(up')
      BY <2>2
    <3> QED
      BY <1>1, <2>2, <3>1, <3>2a, <3>3, OnlyRebootsUnload
  <2>5. RequestsWillFind'
    <3> SUFFICES ASSUME Seen, NEW k \in 1..Len(up'), up'[k] = "SendData"
                 PROVE  Loaded(head.params, up', k)
      BY DEF RequestsWillFind, LoadedAfter
    <3>1. CASE k \in 1..m
      BY <2>2, <2>3, <3>1 DEF RequestsWillFind
    <3>2. CASE k \in (m + 1)..Len(up')
      <4>1. new[k - m] = "SendData" /\ k - m \in 1..Len(new)
        BY <2>2, <3>2
      <4>2. LoadedAfter(m) /\ \A i \in 1..Len(new) : new[i] # "Reboot"
        BY <1>3, <4>1
      <4>3. k \in m..Len(up')
        BY <2>2, <3>2
      <4> QED
        BY <2>4, <4>2, <4>3
    <3> QED
      BY <2>2, <3>1, <3>2
  <2>6. LoadedAfter(m) /\ (\A i \in 1..Len(new) : new[i] # "Reboot")
          => Loaded(head'.params, up', Len(up'))
    <3>1. Len(up') \in m..Len(up')
      BY <2>2
    <3> QED
      BY <2>4, <3>1
  <2>7. new = <<"HeadParams">> => Loaded(head'.params, up', Len(up'))
    <3> SUFFICES ASSUME new = <<"HeadParams">> PROVE Loaded(head'.params, up', Len(up'))
      OBVIOUS
    <3>1. Len(up') = m + 1 /\ up'[m + 1] = "HeadParams"
      BY <2>2
    <3>2. \A i \in (m + 1)..Len(up') : up'[i] # "Reboot"
      BY <2>2, <3>1
    <3>3. m + 1 \in 1..Len(up')
      BY <2>2, <3>1
    <3> QED
      BY <3>1, <3>2, <3>3 DEF Loaded
  <2>8. LineIsCut'
    BY <1>3 DEF LineIsCut
  <2> QED
    BY <2>2, <2>5, <2>6, <2>7, <2>8
<1> QED
  BY <1>2, <1>3
-----------------------------------------------------------------------------
(* The invariant *)

\* Whatever the driver sends is a command, and the requests are as many as it
\* takes until three are out.
LEMMA CommandsAreSent ==
    /\ {<<>>, <<"Reboot">>, <<"SendVersion">>, <<"HeadParams">>} \subseteq Seq(Commands)
    /\ \A n \in Int : /\ Requests(n) \in Seq(Commands)
                       /\ \A i \in 1..Len(Requests(n)) : Requests(n)[i] = "SendData"
<1>1. {<<>>, <<"Reboot">>, <<"SendVersion">>, <<"HeadParams">>} \subseteq Seq(Commands)
  BY DEF Commands
<1>2. ASSUME NEW n \in Int
      PROVE  /\ Requests(n) \in Seq(Commands)
             /\ \A i \in 1..Len(Requests(n)) : Requests(n)[i] = "SendData"
  <2>1. CASE n <= 3
    <3>1. 3 - n \in Nat
      BY <2>1
    <3> QED
      BY <3>1 DEF Requests, Commands
  <2>2. CASE n > 3
    <3>1. 1..(3 - n) = 1..0
      BY <2>2
    <3>2. Requests(n) = [i \in 1..0 |-> "SendData"]
      BY <3>1 DEF Requests
    <3> QED
      BY <3>2 DEF Commands
  <2> QED
    BY <2>1, <2>2
<1> QED
  BY <1>1, <1>2

\* The parts of a packet that TypeOK gives.
LEMMA PacketsAreTyped ==
    ASSUME TypeOK, down # <<>>
    PROVE  /\ Head(down) \in Packet /\ Tail(down) \in Seq(Packet)
           /\ Head(down).type = "Alive" => Head(down).ready \in BOOLEAN /\ Head(down).params \in BOOLEAN
<1>1. Head(down) \in Packet /\ Tail(down) \in Seq(Packet)
  BY HeadTailProperties DEF TypeOK
<1> QED
  BY <1>1 DEF Packet

\* Bounded events are counted, and a loss of power that was not seen is no
\* longer one of none.
LEMMA CountingKeepsFaults ==
    ASSUME TypeOK, NEW what \in Faults, NEW max, Happens(what, max)
    PROVE  /\ faults' \in [Faults -> Nat]
           /\ Seen' => Seen /\ what # "blink"
BY DEF TypeOK, Happens, Seen, Faults

\* The lines of data among these packets.
Lines(packets) == {i \in 1..Len(packets) : packets[i].type = "HeadData"}

\* The requests on the line, and the lines of data on their way, are finitely
\* many, so that they can be counted.
LEMMA RequestsOnTheLine ==
    ASSUME NEW line \in Seq(Commands)
    PROVE  NumRequests(line) \in Nat
<1>1. {i \in 1..Len(line) : line[i] = "SendData"} \subseteq 1..Len(line) /\ Len(line) \in Int
  OBVIOUS
<1>2. IsFiniteSet(1..Len(line))
  BY <1>1, FS_Interval
<1> QED BY <1>1, <1>2, FS_Subset, FS_CardinalityType DEF NumRequests

LEMMA LinesAreFinite ==
    ASSUME NEW packets \in Seq(Packet)
    PROVE  /\ IsFiniteSet(Lines(packets))
           /\ NumLines(packets) = Cardinality(Lines(packets))
           /\ NumLines(packets) \in Nat
<1>1. Lines(packets) \subseteq 1..Len(packets) /\ Len(packets) \in Int
  BY DEF Lines
<1>2a. NumLines(packets) = Cardinality(Lines(packets))
  BY DEF NumLines, Lines
<1>2. IsFiniteSet(1..Len(packets))
  BY <1>1, FS_Interval
<1> QED BY <1>1, <1>2, <1>2a, FS_Subset, FS_CardinalityType

\* The driver counts each request that it sends.
LEMMA RequestsAreCounted ==
    ASSUME NEW n \in Int, n <= 3
    PROVE  NumRequests(Requests(n)) = 3 - n /\ 3 - n \in Nat
<1>1. 3 - n \in Nat
  OBVIOUS
<1>2. Len(Requests(n)) = 3 - n /\ \A i \in 1..(3 - n) : Requests(n)[i] = "SendData"
  BY <1>1 DEF Requests
<1>3. {i \in 1..Len(Requests(n)) : Requests(n)[i] = "SendData"} = 1..(3 - n)
  BY <1>2
<1>4. Cardinality(1..(3 - n)) = 3 - n
  BY <1>1, FS_Interval
<1> QED BY <1>1, <1>3, <1>4 DEF NumRequests

\* The lines among the first packets and those among the rest are all there are.
LEMMA FirstLinesAreCounted ==
    ASSUME NEW packets \in Seq(Packet), NEW n \in 1..Len(packets)
    PROVE  LET first == SubSeq(packets, 1, n)
               rest  == SubSeq(packets, n + 1, Len(packets))
           IN  /\ NumLines(first) \in Nat /\ NumLines(rest) \in Nat
               /\ NumLines(packets) = NumLines(first) + NumLines(rest)
<1> DEFINE first == SubSeq(packets, 1, n)
           rest == SubSeq(packets, n + 1, Len(packets))
           len == Len(packets)
           A == {i \in 1..n : packets[i].type = "HeadData"}
           B == {i \in (n + 1)..len : packets[i].type = "HeadData"}
           R == {i \in 1..(len - n) : rest[i].type = "HeadData"}
<1>1. /\ len \in Nat /\ n \in Nat /\ n <= len
      /\ first \in Seq(Packet) /\ Len(first) = n /\ \A i \in 1..n : first[i] = packets[i]
  BY SubSeqProperties, LenProperties
<1>2. /\ rest \in Seq(Packet) /\ Len(rest) = len - n /\ len - n \in Nat
      /\ \A i \in 1..(len - n) : rest[i] = packets[i + n]
  <2>1. n + 1 \in 1..(len + 1)
    BY <1>1
  <2>2. /\ rest \in Seq(Packet) /\ Len(rest) = (IF n + 1 <= len THEN len - (n + 1) + 1 ELSE 0)
        /\ \A i \in 1..(len - (n + 1) + 1) : rest[i] = packets[(n + 1) + i - 1]
    BY <1>1, <2>1, SubSeqProperties
  <2>3. \A i \in 1..(len - n) : rest[i] = packets[(n + 1) + i - 1] /\ (n + 1) + i - 1 = i + n
    <3>1. len - (n + 1) + 1 = len - n
      BY <1>1
    <3> QED BY <1>1, <2>2, <3>1
  <2> QED BY <1>1, <2>2, <2>3
<1>3. NumLines(first) = Cardinality(A)
  <2>1. Lines(first) = A
    BY <1>1 DEF Lines
  <2> QED BY <1>1, <2>1, LinesAreFinite
<1>4. NumLines(rest) = Cardinality(R)
  <2>1. Lines(rest) = R
    BY <1>2 DEF Lines
  <2> QED BY <1>2, <2>1, LinesAreFinite
<1>5. Lines(packets) = A \cup B /\ A \cap B = {}
  BY <1>1 DEF Lines
<1>6. IsFiniteSet(A \cup B)
  BY <1>5, LinesAreFinite
<1>7. IsFiniteSet(A) /\ IsFiniteSet(B)
  BY <1>6, FS_Subset
<1>8. ExistsBijection(B, R)
  <2> DEFINE f == [i \in B |-> i - n]
  <2>1. \A i \in B : f[i] \in R
    BY <1>1, <1>2
  <2>2. \A i \in R : i + n \in B /\ f[i + n] = i
    BY <1>1, <1>2
  <2>3. \A i, j \in B : f[i] = f[j] => i = j
    BY <1>1
  <2>4. f \in [B -> R]
    BY <2>1
  <2> HIDE DEF f, B, R
  <2>5. f \in Bijection(B, R)
    BY <2>2, <2>3, <2>4 DEF Bijection, Injection, Surjection, IsInjective
  <2> QED BY <2>5 DEF ExistsBijection
<1> HIDE DEF A, B, R
<1>9. Cardinality(R) = Cardinality(B)
  BY <1>7, <1>8, FS_Bijection
<1>10. Cardinality(A \cup B) = Cardinality(A) + Cardinality(B)
  <2>1. Cardinality(A \cup B) = Cardinality(A) + Cardinality(B) - Cardinality({})
    BY <1>5, <1>7, FS_Union
  <2> QED BY <1>7, <2>1, FS_EmptySet, FS_CardinalityType
<1>11. NumLines(packets) = Cardinality(A \cup B)
  BY <1>5, LinesAreFinite
<1> QED BY <1>1, <1>2, <1>3, <1>4, <1>9, <1>10, <1>11, LinesAreFinite

LEMMA InitIsInv == Init => IInv
<1> SUFFICES ASSUME Init PROVE IInv
  OBVIOUS
<1>1. down \in Seq(Packet)
  <2>1. CASE down = <<>>
    BY <2>1
  <2>2. CASE \E p \in Packet : down = <<p>>
    BY <2>2
  <2>3. CASE \E p, q \in Packet : down = <<p, q>>
    BY <2>3
  <2> QED
    BY <2>1, <2>2, <2>3 DEF Init, Leftovers
<1>2. VersionEvery \in Nat /\ VersionEvery > 0 /\ QueueMax \in Nat
  BY SonarAssumption
<1>h. /\ head \in [on : BOOLEAN, ready : BOOLEAN, params : BOOLEAN, pending : Nat]
      /\ head.on = TRUE /\ head.params = TRUE
  <2>1. PICK n \in 0..3 : head = [on |-> TRUE, ready |-> TRUE, params |-> TRUE, pending |-> n]
    <3>1. head \in [on : {TRUE}, ready : {TRUE}, params : {TRUE}, pending : 0..3]
      BY DEF Init
    <3>2. /\ head.pending \in 0..3 /\ head.on = TRUE /\ head.ready = TRUE /\ head.params = TRUE
          /\ head = [on |-> head.on, ready |-> head.ready, params |-> head.params, pending |-> head.pending]
      BY <3>1
    <3> QED
      BY <3>2
  <2> QED
    BY <2>1
<1>u. up \in Seq({"Reboot", "SendVersion", "HeadParams", "SendData"})
  BY DEF Init
<1>3. TypeOK
  <2>1. state \in States /\ reqs \in 0..3
    BY DEF Init, States
  <2>a. isalive \in BOOLEAN /\ ready \in BOOLEAN /\ params \in BOOLEAN
    BY Zenon DEF Init
  <2>2. asked \in 0..(VersionEvery - 1) /\ queue \in 0..(QueueMax + 1)
    BY <1>2 DEF Init
  <2>3. faults \in [Faults -> Nat] /\ lost \in Nat
    BY DEF Init
  <2> QED
    BY <1>1, <1>h, <1>u, <2>1, <2>a, <2>2, <2>3 DEF TypeOK
<1>4. up = <<"Reboot">> /\ head.on /\ head.params /\ state = "WAITFORREADY" /\ ~ready
  BY <1>h DEF Init
<1>5. RequestsWillFind
  BY <1>4 DEF RequestsWillFind
<1> QED
  BY <1>3, <1>4, <1>5 DEF IInv, LineIsCut, DriverIsRight, HeadWasHeard, RequestsFindParams

LEMMA ReceiveKeepsInv == ASSUME IInv, Receive PROVE IInv'
<1> USE DEF IInv
<1> DEFINE p == Head(down)
           alive == p.type = "Alive"
           readyNow == IF alive THEN p.ready ELSE ready
           paramsNow == IF alive THEN p.params ELSE params
<1>1. /\ readyNow \in BOOLEAN /\ paramsNow \in BOOLEAN
      /\ (alive /\ isalive' = TRUE) \/ (~alive /\ isalive' = isalive)
      /\ Tail(down) \in Seq(Packet)
  BY PacketsAreTyped DEF Receive, TypeOK
<1>2. /\ down' \in Seq(Packet) /\ isalive' \in BOOLEAN /\ params' \in BOOLEAN
      /\ head' = head /\ faults' = faults /\ (Seen' <=> Seen)
      /\ isalive => isalive'
      /\ readyNow /\ ~ready => isalive'
  BY <1>1 DEF Receive, TypeOK, Seen
<1>3. VersionEvery \in Nat /\ VersionEvery > 0 /\ QueueMax \in Nat
  BY SonarAssumption
<1>4. /\ {<<>>, <<"Reboot">>, <<"SendVersion">>, <<"HeadParams">>} \subseteq Seq(Commands)
      /\ Len(<<>>) = 0 /\ \A c \in Commands : Len(<<c>>) = 1 /\ <<c>>[1] = c
  BY CommandsAreSent
\* What is left to show of each state: its own variables and the line.
<1>5. ASSUME state' \in States, ready' \in BOOLEAN, asked' \in 0..(VersionEvery - 1),
             reqs' \in 0..3, queue' \in 0..(QueueMax + 1), up' \in Seq(Commands), lost' \in Nat,
             LineIsCut', RequestsWillFind', DriverIsRight', HeadWasHeard'
      PROVE  IInv'
  BY <1>2, <1>5 DEF TypeOK, RequestsFindParams, Commands
<1>6. ASSUME NEW new \in {<<>>, <<"Reboot">>, <<"SendVersion">>, <<"HeadParams">>}, Send(new)
      PROVE  /\ up' \in Seq(Commands) /\ LineIsCut' /\ RequestsWillFind'
             /\ new = <<"HeadParams">> => DriverIsRight'
  <2>1. \A i \in 1..Len(new) : new[i] # "SendData"
    BY <1>4 DEF Commands
  <2>2. new \in Seq(Commands)
    BY <1>4
  <2> QED
    BY <1>2, <1>6, <2>1, <2>2, SendKeepsTheLine DEF DriverIsRight, LoadedAfter
<1>7. ASSUME up' = up
      PROVE  /\ up' \in Seq(Commands) /\ LineIsCut' /\ RequestsWillFind'
             /\ state \in {"WAITFORPARAMS", "SCANNING"} => DriverIsRight'
  BY <1>2, <1>7 DEF TypeOK, Commands, LineIsCut, RequestsWillFind, DriverIsRight, LoadedAfter
<1>a. CASE state = "SENDREBOOT"
  <2>1. Send(<<"Reboot">>) /\ state' = "WAITFORREADY" /\ ready' = FALSE /\ UNCHANGED <<asked, reqs, queue, lost>>
    BY <1>a DEF Receive
  <2> QED
    BY <1>5, <1>6, <2>1 DEF TypeOK, States, DriverIsRight, HeadWasHeard
<1>b. CASE state = "WAITFORREADY"
  <2>1. /\ state' = (IF readyNow THEN "WAITFORVERSION" ELSE state) /\ ready' = readyNow
        /\ UNCHANGED <<asked, reqs, queue, up, lost>>
    BY <1>b DEF Receive
  <2>2. HeadWasHeard'
    BY <1>b, <1>2, <2>1 DEF HeadWasHeard
  <2> QED
    BY <1>1, <1>5, <1>7, <1>b, <2>1, <2>2 DEF TypeOK, States, DriverIsRight
<1>c. CASE state = "WAITFORVERSION"
  <2>1. WaitForVersion(p) /\ ready' = readyNow /\ UNCHANGED <<reqs, queue, lost>>
    BY <1>c DEF Receive
  <2>2. isalive'
    BY <1>c, <1>2 DEF HeadWasHeard
  <2>3. CASE p.type = "VersionData"
    <3>1. state' = "WAITFORPARAMS" /\ Send(<<"HeadParams">>) /\ asked' = asked
      BY <2>1, <2>3 DEF WaitForVersion
    <3> QED
      BY <1>1, <1>5, <1>6, <2>1, <2>2, <3>1 DEF TypeOK, States, HeadWasHeard
  <2>4. CASE p.type # "VersionData"
    <3>1. /\ asked' = (asked + 1) % VersionEvery /\ state' = state
          /\ \E new \in {<<>>, <<"SendVersion">>} : Send(new)
      BY <2>1, <2>4 DEF WaitForVersion
    <3>2. asked' \in 0..(VersionEvery - 1)
      BY <1>3, <3>1 DEF TypeOK
    <3> QED
      BY <1>1, <1>5, <1>6, <1>c, <2>1, <2>2, <3>1, <3>2 DEF TypeOK, States, HeadWasHeard, DriverIsRight
  <2> QED
    BY <2>3, <2>4
<1>d. CASE state = "WAITFORPARAMS"
  <2>1. /\ state' = (IF paramsNow THEN "SCANNING" ELSE state) /\ ready' = readyNow
        /\ UNCHANGED <<asked, reqs, queue, up, lost>>
    BY <1>d DEF Receive
  <2>2. HeadWasHeard'
    BY <1>d, <1>2, <2>1 DEF HeadWasHeard
  <2> QED
    BY <1>1, <1>5, <1>7, <1>d, <2>1, <2>2 DEF TypeOK, States
<1>e. CASE state = "SCANNING"
  <2> DEFINE left == IF p.type = "HeadData" THEN reqs - 1 ELSE reqs
  <2>1. /\ queue' = (IF p.type = "HeadData" /\ queue <= QueueMax THEN queue + 1 ELSE queue)
        /\ Send(Requests(left)) /\ reqs' = (IF left <= 2 THEN 3 ELSE left)
        /\ lost' = (IF head.on THEN lost ELSE lost + NumRequests(Requests(left)))
        /\ ready' = readyNow /\ UNCHANGED <<state, asked>>
    BY <1>e DEF Receive, Scanning
  <2>2. left \in Int /\ left <= 3 /\ reqs' \in 0..3 /\ queue' \in 0..(QueueMax + 1)
    BY <1>3, <2>1 DEF TypeOK
  <2>3. /\ Requests(left) \in Seq(Commands)
        /\ \A i \in 1..Len(Requests(left)) : Requests(left)[i] # "Reboot"
    BY <2>2, CommandsAreSent
  <2>l. lost' \in Nat
    BY <2>1, <2>2, RequestsAreCounted DEF TypeOK
  <2>4. Seen /\ head.on => LoadedAfter(Len(up))
    BY <1>e DEF DriverIsRight
  <2>5. /\ up' \in Seq(Commands) /\ LineIsCut' /\ RequestsWillFind'
        /\ Seen /\ head.on => Loaded(head'.params, up', Len(up'))
    BY <1>2, <2>1, <2>3, <2>4, SendKeepsTheLine
  <2>6. DriverIsRight' /\ HeadWasHeard'
    BY <1>2, <1>e, <2>1, <2>5 DEF DriverIsRight, LoadedAfter, HeadWasHeard
  <2> QED
    BY <1>1, <1>5, <2>1, <2>2, <2>l, <2>5, <2>6 DEF TypeOK
<1> QED
  BY <1>a, <1>b, <1>c, <1>d, <1>e DEF TypeOK, States

\* The line to the head, when the head stays on and does its first packet.
LEMMA ObeyKeepsInv == ASSUME IInv, Obey PROVE IInv'
<1> USE DEF IInv
<1> DEFINE c == Head(up)
<1>1. /\ up \in Seq(Commands) /\ up # <<>> /\ c \in Commands /\ up' = Tail(up)
      /\ up' \in Seq(Commands) /\ c = up[1] /\ Len(up) \in Nat /\ Len(up) > 0
      /\ Len(up') = Len(up) - 1 /\ \A k \in 1..Len(up') : up'[k] = up[k + 1]
  BY HeadTailProperties, EmptySeq, LenProperties DEF Obey, TypeOK, Commands
<1>s. Seen' <=> Seen
  BY DEF Obey, Seen
<1>2. /\ head' \in [on : BOOLEAN, ready : BOOLEAN, params : BOOLEAN, pending : Nat]
      /\ head.on /\ head'.on
      /\ head'.params = (c = "HeadParams" \/ (head.params /\ c # "Reboot"))
      /\ head'.pending = (IF c = "Reboot" THEN 0 ELSE IF c = "SendData" THEN head.pending + 1 ELSE head.pending)
  <2>0. head.pending \in Nat /\ head.pending + 1 \in Nat
    BY DEF TypeOK
  <2>1. CASE c = "Reboot"
    BY <2>1 DEF Obey, TypeOK
  <2>2. CASE c = "HeadParams"
    BY <2>2 DEF Obey, TypeOK
  <2>3. CASE c = "SendData"
    BY <2>0, <2>3 DEF Obey, TypeOK
  <2>4. CASE c = "SendVersion"
    BY <2>4 DEF Obey, TypeOK
  <2> QED
    BY <1>1, <2>1, <2>2, <2>3, <2>4 DEF Commands
<1>3. \A k \in 1..Len(up) : LoadedAfter(k) => Loaded(head'.params, up', k - 1)
  BY <1>1, <1>2, ObeyingKeepsTheRest DEF LoadedAfter, TypeOK
<1>4. down' \in Seq(Packet)
  <2>1. [type |-> "VersionData"] \in Packet
    BY DEF Packet
  <2> QED
    BY <2>1, AppendProperties DEF Obey, TypeOK
<1>5. TypeOK'
  BY <1>1, <1>2, <1>4 DEF Obey, TypeOK, driver, Commands
<1>6. RequestsWillFind'
  <2> SUFFICES ASSUME Seen, NEW k \in 1..Len(up'), up'[k] = "SendData" PROVE Loaded(head'.params, up', k)
    BY <1>s DEF RequestsWillFind, LoadedAfter
  <2>1. k + 1 \in 1..Len(up) /\ up[k + 1] = "SendData" /\ (k + 1) - 1 = k
    BY <1>1
  <2>2. LoadedAfter(k + 1)
    BY <2>1 DEF RequestsWillFind
  <2> QED
    BY <1>3, <2>1, <2>2
<1>7. DriverIsRight'
  <2>1. Seen /\ state \in {"WAITFORPARAMS", "SCANNING"} => Loaded(head'.params, up', Len(up'))
    BY <1>1, <1>2, <1>3 DEF DriverIsRight
  <2> QED
    BY <1>s, <2>1 DEF DriverIsRight, LoadedAfter, Obey, driver
<1>8. RequestsFindParams'
  <2> SUFFICES ASSUME Seen PROVE RequestsFindParams'
    BY <1>s DEF RequestsFindParams, Seen
  <2>1. CASE c = "SendData"
    <3>1. LoadedAfter(1) /\ 1..1 = {1}
      BY <1>1, <2>1 DEF RequestsWillFind
    <3>2. head.params
      BY <1>1, <2>1, <3>1 DEF LoadedAfter, Loaded
    <3> QED
      BY <1>2, <2>1, <3>2 DEF RequestsFindParams
  <2>2. CASE c # "SendData"
    BY <1>2, <2>2 DEF RequestsFindParams, TypeOK, Seen
  <2> QED
    BY <2>1, <2>2
<1> QED
  BY <1>2, <1>5, <1>6, <1>7, <1>8 DEF LineIsCut, HeadWasHeard, Obey, driver

LEMMA IInvIsInductive == IInv /\ [Next]_vars => IInv'
<1> SUFFICES ASSUME IInv, [Next]_vars PROVE IInv'
  OBVIOUS
<1> USE DEF IInv
\* Steps that leave the line and the head's parameters alone.
<1>u. ASSUME up' = up, head'.on = head.on, head'.params = head.params, Seen' => Seen,
             state' = state \/ state' = "SENDREBOOT"
      PROVE  RequestsWillFind' /\ DriverIsRight'
  BY <1>u DEF RequestsWillFind, DriverIsRight, LoadedAfter
<1>1. CASE Receive
  BY <1>1, ReceiveKeepsInv
<1>g. ASSUME GiveUp PROVE /\ state' = "SENDREBOOT" /\ state' \in States /\ reqs' = 0
                          /\ isalive' \in BOOLEAN /\ lost' = 0 /\ UNCHANGED <<ready, params, asked>>
  BY <1>g, Zenon DEF GiveUp, States
<1>2. CASE Timeout
  <2>0. Seen' <=> Seen
    BY <1>2 DEF Timeout, Seen
  <2>1. TypeOK'
    BY <1>2, <1>g DEF Timeout, TypeOK
  <2> QED
    BY <1>2, <1>g, <1>u, <2>0, <2>1 DEF Timeout, LineIsCut, HeadWasHeard, RequestsFindParams, Seen
<1>3. CASE SkipGarbled \/ GarbledTimesOut
  <2>1. PICK n \in 1..Len(down) : LoseFirst(n)
    <3>1. down # <<>> => Len(down) \in 1..Len(down)
      BY EmptySeq, LenProperties DEF TypeOK
    <3> QED BY <1>3, <3>1 DEF SkipGarbled, GarbledTimesOut
  <2>2. down' \in Seq(Packet)
    <3>1. Len(down) \in Nat /\ n + 1 \in 1..(Len(down) + 1) /\ down \in Seq(Packet)
      BY DEF TypeOK
    <3> QED BY <2>1, <3>1, SubSeqProperties DEF LoseFirst
  <2>3. faults' \in [Faults -> Nat] /\ (Seen' => Seen)
    BY <2>1, CountingKeepsFaults DEF LoseFirst, Faults
  <2>4. \/ UNCHANGED driver
        \/ GiveUp
    BY <1>3 DEF SkipGarbled, GarbledTimesOut
  <2>5. lost' \in Nat
    <3>1. \A k \in 1..Len(down) : NumLines(SubSeq(down, 1, k)) \in Nat
      BY FirstLinesAreCounted DEF TypeOK
    <3>2. SubSeq(down, 1, Len(down)) = down
      BY SubSeqProperties DEF TypeOK
    <3>3. down # <<>> => Len(down) \in 1..Len(down)
      BY EmptySeq, LenProperties DEF TypeOK
    <3>4. lost \in Nat
      BY DEF TypeOK
    <3>5. CASE SkipGarbled
      <4>1. PICK k \in 1..Len(down) : lost' = lost + NumLines(SubSeq(down, 1, k))
        BY <3>5 DEF SkipGarbled
      <4> QED BY <3>1, <3>4, <4>1
    <3>6. CASE GarbledTimesOut /\ isalive
      BY <3>6 DEF GarbledTimesOut, GiveUp
    <3>7. CASE GarbledTimesOut /\ ~isalive
      <4>1. NumLines(down) \in Nat /\ lost' = lost + NumLines(down)
        BY <3>1, <3>2, <3>3, <3>7 DEF GarbledTimesOut
      <4> QED BY <3>4, <4>1
    <3> QED BY <1>3, <3>5, <3>6, <3>7
  <2>6. TypeOK'
    <3>1. /\ UNCHANGED <<queue, up, head>>
          /\ state' \in States /\ isalive' \in BOOLEAN /\ reqs' \in 0..3
          /\ UNCHANGED <<ready, params, asked>>
      BY <1>g, <2>1, <2>4 DEF LoseFirst, driver, TypeOK
    <3> QED BY <2>2, <2>3, <2>5, <3>1 DEF TypeOK
  <2>7. UNCHANGED <<queue, up, head>> /\ (state' = state \/ state' = "SENDREBOOT")
    BY <1>g, <2>1, <2>4 DEF LoseFirst, driver
  <2>8. HeadWasHeard'
    BY <1>g, <2>4 DEF HeadWasHeard, driver
  <2>9. LineIsCut' /\ RequestsFindParams'
    BY <2>3, <2>7 DEF LineIsCut, RequestsFindParams, Seen
  <2> QED
    BY <1>u, <2>3, <2>6, <2>7, <2>8, <2>9
<1>4. CASE Process
  <2>1. TypeOK'
    BY <1>4, SonarAssumption DEF Process, TypeOK, driver
  <2> QED
    BY <1>4, <1>u, <2>1 DEF Process, driver, LineIsCut, HeadWasHeard, RequestsFindParams, Seen
<1>5. CASE SetParams
  <2>1. /\ <<"HeadParams">> \in Seq(Commands) /\ Len(<<"HeadParams">>) = 1
        /\ \A i \in 1..Len(<<"HeadParams">>) : <<"HeadParams">>[i] = "HeadParams"
    BY DEF Commands
  <2>0. Seen' => Seen
    BY <1>5, CountingKeepsFaults DEF SetParams, Faults
  <2>2. up' \in Seq(Commands) /\ LineIsCut' /\ RequestsWillFind'
        /\ (head.on => Loaded(head'.params, up', Len(up')))
    BY <1>5, <2>0, <2>1, SendKeepsTheLine DEF SetParams
  <2>3. TypeOK'
    BY <1>5, <2>2, CountingKeepsFaults DEF SetParams, TypeOK, driver, Commands, Faults
  <2> QED
    BY <1>5, <2>0, <2>2, <2>3
    DEF SetParams, driver, DriverIsRight, LoadedAfter, HeadWasHeard, RequestsFindParams, Seen
<1>6. CASE Obey
  BY <1>6, ObeyKeepsInv
<1>7. CASE Centre
  <2>1. /\ head' \in [on : BOOLEAN, ready : BOOLEAN, params : BOOLEAN, pending : Nat]
        /\ head'.on = head.on /\ head'.params = head.params /\ head'.pending = head.pending
    BY <1>7 DEF Centre, TypeOK
  <2>2. TypeOK'
    BY <1>7, <2>1 DEF Centre, TypeOK, driver
  <2> QED
    BY <1>7, <1>u, <2>1, <2>2 DEF Centre, driver, LineIsCut, HeadWasHeard, RequestsFindParams, Seen
<1>8. CASE Answer
  <2>0. head.pending \in Nat /\ head.pending - 1 \in Nat
    BY <1>8 DEF Answer, TypeOK
  <2>1. /\ head' \in [on : BOOLEAN, ready : BOOLEAN, params : BOOLEAN, pending : Nat]
        /\ head'.on = head.on /\ head.on /\ head'.params = head.params /\ head.params
    BY <1>8, <2>0 DEF Answer, TypeOK
  <2>2. down' \in Seq(Packet)
    <3>1. [type |-> "HeadData"] \in Packet
      BY DEF Packet
    <3> QED
      BY <1>8, <3>1, AppendProperties DEF Answer, TypeOK
  <2>3. TypeOK'
    BY <1>8, <2>1, <2>2 DEF Answer, TypeOK, driver
  <2> QED
    BY <1>8, <1>u, <2>1, <2>3 DEF Answer, driver, LineIsCut, HeadWasHeard, RequestsFindParams, Seen
<1>9. CASE TellAlive
  <2>1. down' \in Seq(Packet)
    <3>1. [type |-> "Alive", ready |-> head.ready, params |-> head.params] \in Packet
      BY DEF Packet, TypeOK
    <3> QED
      BY <1>9, <3>1, AppendProperties DEF TellAlive, TypeOK
  <2>2. TypeOK'
    BY <1>9, <2>1 DEF TellAlive, TypeOK, driver
  <2> QED
    BY <1>9, <1>u, <2>2 DEF TellAlive, driver, LineIsCut, HeadWasHeard, RequestsFindParams, Seen
<1>10. CASE LosePower
  <2>0. lost' \in Nat
    <3>1. up \in Seq(Commands) /\ head.pending \in Nat /\ lost \in Nat
      BY DEF TypeOK, Commands
    <3>2. NumRequests(up) \in Nat
      BY <3>1, RequestsOnTheLine
    <3> QED BY <1>10, <3>1, <3>2 DEF LosePower
  <2>1. TypeOK'
    BY <1>10, <2>0, CountingKeepsFaults DEF LosePower, TypeOK, driver, Faults
  <2> QED
    BY <1>10, <2>1
    DEF LosePower, driver, LineIsCut, DriverIsRight, RequestsWillFind, HeadWasHeard, RequestsFindParams
<1>h. ASSUME PowerComesBack \/ Blink
      PROVE  /\ head' \in [on : BOOLEAN, ready : BOOLEAN, params : BOOLEAN, pending : Nat]
             /\ head'.on /\ ~head.on /\ head'.params = head.params /\ head'.pending = head.pending
  BY <1>h DEF PowerComesBack, Blink, TypeOK
<1>11. CASE PowerComesBack
  <2>2. TypeOK'
    BY <1>11, <1>h DEF PowerComesBack, TypeOK, driver
  <2> QED
    BY <1>11, <1>h, <2>2
    DEF PowerComesBack, driver, LineIsCut, DriverIsRight, RequestsWillFind, HeadWasHeard, RequestsFindParams
<1>12. CASE Blink
  <2>1. faults' \in [Faults -> Nat] /\ ~Seen'
    BY <1>12, CountingKeepsFaults DEF Blink, Faults
  <2>2. TypeOK'
    BY <1>12, <1>h, <2>1 DEF Blink, TypeOK, driver
  <2> QED
    BY <1>12, <1>h, <2>1, <2>2
    DEF Blink, driver, LineIsCut, DriverIsRight, RequestsWillFind, HeadWasHeard, RequestsFindParams, Seen
<1>13. CASE UNCHANGED vars
  <2>1. Seen' <=> Seen
    BY <1>13 DEF vars, Seen
  <2> QED
    BY <1>13, <1>u, <2>1 DEF vars, driver, TypeOK, LineIsCut, HeadWasHeard, RequestsFindParams, Seen
<1> QED
  BY <1>1, <1>2, <1>3, <1>4, <1>5, <1>6, <1>7, <1>8, <1>9, <1>10, <1>11, <1>12, <1>13
  DEF Next, ReadThread, HeadWorks

-----------------------------------------------------------------------------
(* Theorems *)

\* Every variable keeps its type: there are never more than three requests
\* out as far as the driver counts, nor fewer than none.
THEOREM TypeCorrect == Spec => []TypeOK
<1>1. Init => IInv
  BY InitIsInv
<1>2. IInv /\ [Next]_vars => IInv'
  BY IInvIsInductive
<1>3. IInv => TypeOK
  BY DEF IInv
<1> QED
  BY <1>1, <1>2, <1>3, PTL DEF Spec

\* No request for data reaches a head that has no parameters: the driver goes
\* through its states in an order that no old packet, lost packet or loss of
\* power that it sees can upset.
THEOREM RequestsAlwaysFindParams == Spec => []RequestsFindParams
<1>1. Init => IInv
  BY InitIsInv
<1>2. IInv /\ [Next]_vars => IInv'
  BY IInvIsInductive
<1>3. IInv => RequestsFindParams
  BY DEF IInv
<1> QED
  BY <1>1, <1>2, <1>3, PTL DEF Spec

-----------------------------------------------------------------------------
(* What the head owes *)

\* The requests on the line that no reboot will undo, and the lines of data
\* that are on their way back.
Rebooting(line) == \E i \in 1..Len(line) : line[i] = "Reboot"
Owing(line) == {i \in 1..Len(line) : line[i] = "SendData" /\ \A j \in i..Len(line) : line[j] # "Reboot"}

\* What the head will still answer.  A reboot on the line undoes what it keeps.
Owed ==
    (IF Rebooting(up) THEN 0 ELSE head.pending) + Cardinality(Owing(up)) + NumLines(down)

OwedInv ==
    /\ state # "SCANNING" => reqs = 0
    /\ reqs <= Owed + lost

\* The rest of a sequence has all positions but the first, one lower.
LEMMA ShiftingKeepsTheNumber ==
    ASSUME NEW n \in Nat, NEW S \in SUBSET (1..n), NEW T, T = {i - 1 : i \in S \ {1}}
    PROVE  /\ IsFiniteSet(S) /\ IsFiniteSet(T)
           /\ Cardinality(T) \in Nat /\ Cardinality(S) \in Nat
           /\ Cardinality(S) = Cardinality(T) + (IF 1 \in S THEN 1 ELSE 0)
<1> DEFINE R == S \ {1}
           f == [i \in R |-> i - 1]
<1>1. IsFiniteSet(S)
  <2>1. IsFiniteSet(1..n)
    BY FS_Interval
  <2> QED BY <2>1, FS_Subset
<1>2. IsFiniteSet(R) /\ Cardinality(R) = (IF 1 \in S THEN Cardinality(S) - 1 ELSE Cardinality(S))
  BY <1>1, FS_RemoveElement
<1>3. f \in Bijection(R, T)
  <2>1. f \in [R -> T] /\ \A t \in T : \E i \in R : f[i] = t
    OBVIOUS
  <2>2. \A i, j \in R : f[i] = f[j] => i = j
    OBVIOUS
  <2> QED BY <2>1, <2>2 DEF Bijection, Injection, Surjection, IsInjective
<1>4. ExistsBijection(R, T)
  BY <1>3 DEF ExistsBijection
<1> HIDE DEF R
<1>5. IsFiniteSet(T) /\ Cardinality(T) = Cardinality(R)
  BY <1>2, <1>4, FS_Bijection
<1>6. Cardinality(S) \in Nat /\ Cardinality(T) \in Nat
  BY <1>1, <1>5, FS_CardinalityType
<1> QED BY <1>1, <1>2, <1>5, <1>6

LEMMA OwingIsFinite ==
    ASSUME NEW line \in Seq(Commands)
    PROVE  IsFiniteSet(Owing(line)) /\ Cardinality(Owing(line)) \in Nat
<1>1. Owing(line) \subseteq 1..Len(line) /\ Len(line) \in Int
  BY DEF Owing
<1>2. IsFiniteSet(1..Len(line))
  BY <1>1, FS_Interval
<1>3. IsFiniteSet(Owing(line))
  BY <1>1, <1>2, FS_Subset
<1> QED BY <1>3, FS_CardinalityType

\* What is owed of the line is on it.
LEMMA OwingIsOnTheLine ==
    ASSUME NEW line \in Seq(Commands)
    PROVE  NumRequests(line) \in Nat /\ Cardinality(Owing(line)) <= NumRequests(line)
<1> DEFINE all == {i \in 1..Len(line) : line[i] = "SendData"}
<1>1. IsFiniteSet(all)
  <2>1. Len(line) \in Int
    OBVIOUS
  <2>2. IsFiniteSet(1..Len(line))
    BY <2>1, FS_Interval
  <2> QED BY <2>2, FS_Subset
<1>2. Owing(line) \in SUBSET all
  BY DEF Owing
<1>3. NumRequests(line) = Cardinality(all)
  BY DEF NumRequests
<1> HIDE DEF all
<1> QED BY <1>1, <1>2, <1>3, FS_Subset, FS_CardinalityType

\* A request that the head takes off the line was owed if no reboot follows.
LEMMA ObeyingTakesOne ==
    ASSUME NEW line \in Seq(Commands), line # <<>>
    PROVE  /\ Rebooting(line) <=> Head(line) = "Reboot" \/ Rebooting(Tail(line))
           /\ Cardinality(Owing(line)) = Cardinality(Owing(Tail(line)))
                + (IF Head(line) = "SendData" /\ ~Rebooting(Tail(line)) THEN 1 ELSE 0)
<1> DEFINE n == Len(line)
           rest == Tail(line)
<1>1. /\ n \in Nat /\ n > 0 /\ Len(rest) = n - 1 /\ Head(line) = line[1]
      /\ \A i \in 1..(n - 1) : rest[i] = line[i + 1]
  BY HeadTailProperties, EmptySeq, LenProperties
<1>2. Rebooting(line) <=> line[1] = "Reboot" \/ Rebooting(rest)
  <2>1. ASSUME NEW i \in 1..n, line[i] = "Reboot", i # 1 PROVE Rebooting(rest)
    <3>1. i - 1 \in 1..(n - 1) /\ rest[i - 1] = "Reboot"
      BY <1>1, <2>1
    <3> QED BY <1>1, <3>1 DEF Rebooting
  <2>2. ASSUME NEW i \in 1..(n - 1), rest[i] = "Reboot" PROVE Rebooting(line)
    <3>1. i + 1 \in 1..n /\ line[i + 1] = "Reboot"
      BY <1>1, <2>2
    <3> QED BY <3>1 DEF Rebooting
  <2> QED BY <1>1, <2>1, <2>2 DEF Rebooting
<1>3. 1 \in Owing(line) <=> line[1] = "SendData" /\ ~Rebooting(rest)
  <2>1. (\A j \in 1..n : line[j] # "Reboot") <=> ~Rebooting(line)
    BY DEF Rebooting
  <2> QED BY <1>1, <1>2, <2>1 DEF Owing
<1>4. Owing(rest) = {i - 1 : i \in Owing(line) \ {1}}
  <2>1. ASSUME NEW i \in 1..(n - 1)
        PROVE  (\A j \in i..(n - 1) : rest[j] # "Reboot") <=> \A j \in (i + 1)..n : line[j] # "Reboot"
    <3>1. \A j \in i..(n - 1) : j + 1 \in (i + 1)..n /\ rest[j] = line[j + 1]
      BY <1>1
    <3>2. \A j \in (i + 1)..n : j - 1 \in i..(n - 1) /\ rest[j - 1] = line[j]
      BY <1>1
    <3> QED BY <3>1, <3>2
  <2>2. \A i \in 1..(n - 1) : i \in Owing(rest) <=> i + 1 \in Owing(line)
    BY <1>1, <2>1 DEF Owing
  <2>3. Owing(rest) \subseteq 1..(n - 1) /\ Owing(line) \subseteq 1..n
    BY <1>1 DEF Owing
  <2>4. \A k \in Owing(line) \ {1} : k - 1 \in 1..(n - 1) /\ (k - 1) + 1 = k
    BY <1>1, <2>3
  <2>5. ASSUME NEW i \in Owing(rest) PROVE \E k \in Owing(line) \ {1} : i = k - 1
    <3>1. i + 1 \in Owing(line) \ {1} /\ i = (i + 1) - 1
      BY <2>2, <2>3
    <3> QED BY <3>1
  <2> QED BY <2>2, <2>4, <2>5
<1>5. Owing(line) \in SUBSET (1..n)
  BY DEF Owing
<1>6. Cardinality(Owing(line)) = Cardinality(Owing(rest)) + (IF 1 \in Owing(line) THEN 1 ELSE 0)
  BY <1>1, <1>4, <1>5, ShiftingKeepsTheNumber
<1> QED BY <1>1, <1>2, <1>3, <1>6

\* Requests are sent after all that is on the line.
LEMMA SendingRequestsOwesThem ==
    ASSUME NEW line \in Seq(Commands), NEW new \in Seq(Commands),
           \A i \in 1..Len(new) : new[i] = "SendData"
    PROVE  /\ Rebooting(line \o new) <=> Rebooting(line)
           /\ Cardinality(Owing(line \o new)) = Cardinality(Owing(line)) + Len(new)
<1> DEFINE n == Len(line)
           k == Len(new)
           all == line \o new
           last == (n + 1)..(n + k)
<1>1. /\ n \in Nat /\ k \in Nat /\ Len(all) = n + k
      /\ \A i \in 1..n : all[i] = line[i]
      /\ \A i \in last : i - n \in 1..k /\ all[i] = new[i - n]
  BY ConcatProperties, LenProperties
<1>2. \A i \in last : all[i] = "SendData"
  BY <1>1
<1>3. \A i \in 1..(n + k) : i \in 1..n \/ i \in last
  BY <1>1
<1>4. 1..n \subseteq 1..(n + k) /\ last \subseteq 1..(n + k) /\ (1..n) \cap last = {}
  BY <1>1
<1>5. Rebooting(all) <=> Rebooting(line)
  BY <1>1, <1>2, <1>3, <1>4 DEF Rebooting
<1>6. \A i \in 1..n : i \in Owing(all) <=> i \in Owing(line)
  <2>1. ASSUME NEW i \in 1..n
        PROVE  (\A j \in i..(n + k) : all[j] # "Reboot") <=> \A j \in i..n : line[j] # "Reboot"
    <3>1. \A j \in i..(n + k) : (j \in i..n /\ j \in 1..n) \/ j \in last
      BY <1>1
    <3>2. \A j \in i..n : j \in i..(n + k) /\ j \in 1..n
      BY <1>1
    <3> QED BY <1>1, <1>2, <3>1, <3>2
  <2> QED BY <1>1, <1>4, <2>1 DEF Owing
<1>7. \A i \in last : i \in Owing(all)
  <2>1. \A i \in last : \A j \in i..(n + k) : j \in last
    BY <1>1
  <2> QED BY <1>1, <1>2, <1>4, <2>1 DEF Owing
<1>8. Owing(all) \subseteq 1..(n + k) /\ Owing(line) \subseteq 1..n
  BY <1>1 DEF Owing
<1>9. Owing(all) = Owing(line) \cup last /\ Owing(line) \cap last = {}
  BY <1>3, <1>4, <1>6, <1>7, <1>8
<1>10. IsFiniteSet(last) /\ Cardinality(last) = k
  <2>1. n + 1 \in Int /\ n + k \in Int
    BY <1>1
  <2>2. IsFiniteSet(last) /\ Cardinality(last) = IF n + 1 > n + k THEN 0 ELSE (n + k) - (n + 1) + 1
    BY <2>1, FS_Interval
  <2> QED BY <1>1, <2>2
<1>11. IsFiniteSet(Owing(line)) /\ Cardinality(Owing(line)) \in Nat
  BY OwingIsFinite
<1> HIDE DEF last, all
<1>12. Cardinality(Owing(all)) = Cardinality(Owing(line)) + k - Cardinality({})
  BY <1>9, <1>10, <1>11, FS_Union
<1> QED BY <1>1, <1>5, <1>11, <1>12, FS_EmptySet DEF all

\* Another command that is no reboot leaves it all as it is.
LEMMA SendingOthersOwesNothing ==
    ASSUME NEW line \in Seq(Commands), NEW c \in {"SendVersion", "HeadParams"}
    PROVE  /\ Rebooting(line \o <<c>>) <=> Rebooting(line)
           /\ Owing(line \o <<c>>) = Owing(line)
<1> DEFINE n == Len(line)
           all == line \o <<c>>
<1>1. /\ n \in Nat /\ Len(all) = n + 1 /\ all[n + 1] = c
      /\ \A i \in 1..n : all[i] = line[i]
  OBVIOUS
<1>2. \A i \in 1..(n + 1) : i \in 1..n \/ i = n + 1
  BY <1>1
<1>3. 1..n \subseteq 1..(n + 1) /\ n + 1 \notin 1..n
  BY <1>1
<1> HIDE DEF all
<1>4. Rebooting(all) <=> Rebooting(line)
  BY <1>1, <1>2, <1>3 DEF Rebooting
<1>5. \A i \in 1..n : (\A j \in i..(n + 1) : all[j] # "Reboot") <=> \A j \in i..n : line[j] # "Reboot"
  <2>1. \A i \in 1..n : \A j \in i..(n + 1) : (j \in i..n /\ j \in 1..n) \/ j = n + 1
    BY <1>1
  <2>2. \A i \in 1..n : \A j \in i..n : j \in i..(n + 1) /\ j \in 1..n
    BY <1>1
  <2> QED BY <1>1, <2>1, <2>2
<1>6. Owing(all) = Owing(line)
  BY <1>1, <1>2, <1>3, <1>5 DEF Owing
<1> QED BY <1>4, <1>6 DEF all

LEMMA OneMoreLine ==
    ASSUME NEW packets \in Seq(Packet), NEW p \in Packet
    PROVE  NumLines(Append(packets, p)) =
                NumLines(packets) + (IF p.type = "HeadData" THEN 1 ELSE 0)
<1> DEFINE n == Len(packets)
           all == Append(packets, p)
<1>1. /\ n \in Nat /\ Len(all) = n + 1 /\ all[n + 1] = p
      /\ \A i \in 1..n : all[i] = packets[i]
  OBVIOUS
<1>2. 1..(n + 1) = (1..n) \cup {n + 1} /\ n + 1 \notin 1..n
  BY <1>1
<1> HIDE DEF all
<1>3. Lines(all) = IF p.type = "HeadData" THEN Lines(packets) \cup {n + 1} ELSE Lines(packets)
  BY <1>1, <1>2 DEF Lines
<1>4. n + 1 \notin Lines(packets)
  BY <1>2 DEF Lines
<1>5. Cardinality(Lines(all)) = Cardinality(Lines(packets)) + (IF p.type = "HeadData" THEN 1 ELSE 0)
  <2>1. IsFiniteSet(Lines(packets)) /\ Cardinality(Lines(packets)) \in Nat
    BY LinesAreFinite
  <2>2. Cardinality(Lines(packets) \cup {n + 1}) = Cardinality(Lines(packets)) + 1
    BY <1>4, <2>1, FS_AddElement
  <2> QED BY <1>3, <2>1, <2>2
<1> QED BY <1>5 DEF all, NumLines, Lines

LEMMA OneLineLess ==
    ASSUME NEW packets \in Seq(Packet), packets # <<>>
    PROVE  NumLines(packets) =
                NumLines(Tail(packets)) + (IF Head(packets).type = "HeadData" THEN 1 ELSE 0)
<1> DEFINE n == Len(packets)
           rest == Tail(packets)
<1>1. /\ n \in Nat /\ n > 0 /\ Len(rest) = n - 1 /\ Head(packets) = packets[1]
      /\ \A i \in 1..(n - 1) : rest[i] = packets[i + 1]
  BY HeadTailProperties, EmptySeq, LenProperties
<1>2. 1 \in Lines(packets) <=> Head(packets).type = "HeadData"
  BY <1>1 DEF Lines
<1>3. Lines(rest) = {i - 1 : i \in Lines(packets) \ {1}}
  <2>1. \A i \in 1..(n - 1) : i \in Lines(rest) <=> i + 1 \in Lines(packets)
    BY <1>1 DEF Lines
  <2>2. Lines(rest) \subseteq 1..(n - 1) /\ Lines(packets) \subseteq 1..n
    BY <1>1 DEF Lines
  <2>3. \A k \in Lines(packets) \ {1} : k - 1 \in 1..(n - 1) /\ (k - 1) + 1 = k
    BY <1>1, <2>2
  <2>4. ASSUME NEW i \in Lines(rest) PROVE \E k \in Lines(packets) \ {1} : i = k - 1
    <3>1. i + 1 \in Lines(packets) \ {1} /\ i = (i + 1) - 1
      BY <2>1, <2>2
    <3> QED BY <3>1
  <2> QED BY <2>1, <2>3, <2>4
<1>4. Lines(packets) \in SUBSET (1..n)
  BY DEF Lines
<1>5. Cardinality(Lines(packets)) =
            Cardinality(Lines(rest)) + (IF 1 \in Lines(packets) THEN 1 ELSE 0)
  BY <1>1, <1>3, <1>4, ShiftingKeepsTheNumber
<1> QED BY <1>2, <1>5 DEF NumLines, Lines

\* The numbers that what the head owes is made of.
LEMMA OwedIsANumber ==
    ASSUME IInv
    PROVE  /\ up \in Seq(Commands) /\ down \in Seq(Packet) /\ head.pending \in Nat /\ reqs \in 0..3
           /\ lost \in Nat
           /\ Cardinality(Owing(up)) \in Nat /\ NumLines(down) \in Nat
<1>1. /\ up \in Seq(Commands) /\ down \in Seq(Packet) /\ head.pending \in Nat /\ reqs \in 0..3
      /\ lost \in Nat
  BY DEF IInv, TypeOK, Commands
<1> QED BY <1>1, OwingIsFinite, LinesAreFinite

\* What the head owes is a number.
LEMMA OwedIsNat ==
    ASSUME NEW line \in Seq(Commands), NEW packets \in Seq(Packet), NEW n \in Nat
    PROVE  (IF Rebooting(line) THEN 0 ELSE n) + Cardinality(Owing(line)) + NumLines(packets) \in Nat
<1> DEFINE a == IF Rebooting(line) THEN 0 ELSE n
           b == Cardinality(Owing(line))
           c == NumLines(packets)
<1>1. a \in Nat /\ b \in Nat /\ c \in Nat
  BY OwingIsFinite, LinesAreFinite
<1>2. a + b + c \in Nat
  <2> HIDE DEF a, b, c
  <2> QED BY <1>1
<1> QED BY <1>2

\* What is owed is outstanding: it is among the requests on the line, those
\* that the head keeps and the answers on their way.
LEMMA OwedIsOutstanding == IInv => Owed <= Outstanding /\ Owed \in Nat /\ Outstanding \in Nat
<1> SUFFICES ASSUME IInv PROVE Owed <= Outstanding /\ Owed \in Nat /\ Outstanding \in Nat
  OBVIOUS
<1> DEFINE a == IF Rebooting(up) THEN 0 ELSE head.pending
           b == Cardinality(Owing(up))
           c == NumLines(down)
           k == NumRequests(up)
<1>1. k \in Nat /\ b <= k
  BY OwingIsOnTheLine, OwedIsANumber
<1>2. a \in Nat /\ b \in Nat /\ c \in Nat /\ head.pending \in Nat /\ a <= head.pending
  BY OwedIsANumber
<1>3. Owed = a + b + c /\ Outstanding = head.pending + k + c
  BY DEF Owed, Outstanding
<1> HIDE DEF a, b, c, k
<1> QED BY <1>1, <1>2, <1>3

LEMMA ReceiveIsOwed == ASSUME IInv, OwedInv, Receive PROVE OwedInv'
<1> DEFINE p == Head(down)
           data == p.type = "HeadData"
<1>1. down # <<>> /\ down' = Tail(down) /\ head' = head
  BY DEF Receive
<1>2. NumLines(down) = NumLines(down') + (IF data THEN 1 ELSE 0)
  BY <1>1, OwedIsANumber, OneLineLess
<1>3. NumLines(down') \in Nat
  <2>1. down' \in Seq(Packet)
    BY <1>1, PacketsAreTyped DEF IInv
  <2> QED BY <2>1, LinesAreFinite
<1>4. CASE state # "SCANNING"
  <2>1. reqs' = reqs /\ reqs = 0 /\ lost' = lost
    BY <1>4 DEF Receive, OwedInv
  <2>2. Owed' \in Nat
    <3>1. up' \in Seq(Commands) /\ down' \in Seq(Packet) /\ head'.pending \in Nat
      BY ReceiveKeepsInv DEF IInv, TypeOK, Commands
    <3> QED BY <3>1, OwedIsNat DEF Owed
  <2> QED BY <2>1, <2>2, OwedIsANumber DEF OwedInv
<1>5. CASE state = "SCANNING"
  <2> DEFINE left == IF data THEN reqs - 1 ELSE reqs
  <2>1. /\ Send(Requests(left)) /\ reqs' = (IF left <= 2 THEN 3 ELSE left)
        /\ lost' = (IF head.on THEN lost ELSE lost + NumRequests(Requests(left)))
        /\ state' = "SCANNING"
    BY <1>5 DEF Receive, Scanning
  <2>2. left \in Int /\ left <= 3
    BY OwedIsANumber
  <2>n. NumRequests(Requests(left)) = 3 - left /\ 3 - left \in Nat
    BY <2>2, RequestsAreCounted
  <2>a. reqs <= Owed + lost /\ Owed \in Nat /\ lost \in Nat /\ reqs \in Nat
    BY OwedIsANumber DEF OwedInv, Owed
  <2>b. left + (IF data THEN 1 ELSE 0) = reqs /\ reqs' = 3
    BY <2>1, <2>2, OwedIsANumber DEF left
  <2>3. CASE ~head.on
    <3>1. up' = up
      BY <2>1, <2>3 DEF Send, IInv, LineIsCut
    <3>2. Owed' = Owed - (IF data THEN 1 ELSE 0)
      <4> DEFINE a == IF Rebooting(up) THEN 0 ELSE head.pending
                 b == Cardinality(Owing(up))
                 c == NumLines(down)
                 d == NumLines(down')
      <4>1. a \in Nat /\ b \in Nat /\ c \in Nat /\ d \in Nat /\ c = d + (IF data THEN 1 ELSE 0)
        BY <1>2, <1>3, OwedIsANumber
      <4>2. Owed = a + b + c /\ Owed' = a + b + d
        BY <1>1, <3>1 DEF Owed
      <4> HIDE DEF a, b, c, d, data
      <4> QED BY <4>1, <4>2
    <3>3. lost' = lost + (3 - left)
      BY <2>1, <2>3, <2>n
    <3> HIDE DEF left, data
    <3>4. reqs' <= Owed' + lost'
      BY <2>2, <2>n, <2>a, <2>b, <3>2, <3>3
    <3> QED BY <2>1, <3>4 DEF OwedInv
  <2>4. CASE head.on
    <3>1. up' = up \o Requests(left)
      BY <2>1, <2>4 DEF Send
    <3> HIDE DEF left
    <3>a. /\ Requests(left) \in Seq(Commands)
          /\ \A i \in 1..Len(Requests(left)) : Requests(left)[i] = "SendData"
      BY <2>2, CommandsAreSent
    <3>b. Len(Requests(left)) = 3 - left
      BY <2>n DEF Requests
    <3>2. /\ Requests(left) \in Seq(Commands) /\ Len(Requests(left)) = 3 - left
          /\ \A i \in 1..Len(Requests(left)) : Requests(left)[i] = "SendData"
      BY <3>a, <3>b
    <3>3. /\ Rebooting(up') <=> Rebooting(up)
          /\ Cardinality(Owing(up')) = Cardinality(Owing(up)) + (3 - left)
      BY <3>1, <3>2, OwedIsANumber, SendingRequestsOwesThem
    <3>5. Owed' = Owed + (3 - left) - (IF data THEN 1 ELSE 0)
      <4>1. /\ head.pending \in Nat /\ Cardinality(Owing(up)) \in Nat
            /\ NumLines(down) \in Nat
        BY OwedIsANumber
      <4>2. Owed' = (IF Rebooting(up') THEN 0 ELSE head.pending)
                        + Cardinality(Owing(up')) + NumLines(down')
        BY <1>1 DEF Owed
      <4>3. Owed' = (IF Rebooting(up) THEN 0 ELSE head.pending)
                        + Cardinality(Owing(up)) + (3 - left) + NumLines(down')
        BY <1>3, <2>2, <3>3, <4>2, <4>1
      <4> QED BY <1>2, <1>3, <2>2, <4>3, <4>1 DEF Owed
    <3>6. lost' = lost
      BY <2>1, <2>4
    <3> HIDE DEF data
    <3>7. reqs' <= Owed' + lost'
      BY <2>2, <2>n, <2>a, <2>b, <3>5, <3>6
    <3> QED BY <2>1, <3>7 DEF OwedInv
  <2> QED BY <2>3, <2>4
<1> QED BY <1>4, <1>5

LEMMA ObeyIsOwed == ASSUME IInv, OwedInv, Obey PROVE OwedInv'
<1> DEFINE c == Head(up)
<1>1. head.on /\ up # <<>> /\ up' = Tail(up) /\ reqs' = reqs /\ state' = state /\ lost' = lost
  BY DEF Obey, driver
<1>2. /\ Rebooting(up) <=> c = "Reboot" \/ Rebooting(up')
      /\ Cardinality(Owing(up)) = Cardinality(Owing(up'))
            + (IF c = "SendData" /\ ~Rebooting(up') THEN 1 ELSE 0)
  BY <1>1, OwedIsANumber, ObeyingTakesOne
<1>3. up' \in Seq(Commands) /\ Cardinality(Owing(up')) \in Nat
  <2>1. up' \in Seq(Commands)
    BY <1>1, OwedIsANumber, HeadTailProperties
  <2> QED BY <2>1, OwingIsFinite
<1>4. head'.pending = IF c = "Reboot" THEN 0 ELSE IF c = "SendData" THEN head.pending + 1 ELSE head.pending
  BY DEF Obey, IInv, TypeOK
<1>5. NumLines(down') = NumLines(down)
  <2>1. CASE down' = down
    BY <2>1
  <2>2. CASE down' = Append(down, [type |-> "VersionData"])
    <3>1. [type |-> "VersionData"] \in Packet
      BY DEF Packet
    <3> QED BY <2>2, <3>1, OwedIsANumber, OneMoreLine
  <2> QED BY <2>1, <2>2 DEF Obey
<1>6. Owed' >= Owed /\ Owed \in Nat /\ Owed' \in Nat
  <2>1. /\ head.pending \in Nat /\ head'.pending \in Nat
        /\ Cardinality(Owing(up)) \in Nat /\ NumLines(down) \in Nat
    BY <1>4, OwedIsANumber
  <2>2. CASE Rebooting(up')
    BY <1>2, <1>3, <1>5, <2>1, <2>2 DEF Owed
  <2>3. CASE ~Rebooting(up') /\ c = "Reboot"
    BY <1>2, <1>3, <1>4, <1>5, <2>1, <2>3 DEF Owed
  <2>4. CASE ~Rebooting(up') /\ c # "Reboot"
    BY <1>2, <1>3, <1>4, <1>5, <2>1, <2>4 DEF Owed
  <2> QED BY <2>2, <2>3, <2>4
<1>7. reqs' <= Owed' + lost'
  BY <1>1, <1>6, OwedIsANumber DEF OwedInv
<1> QED BY <1>1, <1>7 DEF OwedInv

LEMMA AnswerIsOwed == ASSUME IInv, OwedInv, Answer PROVE OwedInv'
<1>1. /\ head.on /\ head.pending > 0 /\ head'.pending = head.pending - 1
      /\ down' = Append(down, [type |-> "HeadData"])
      /\ UNCHANGED <<up, reqs, state, lost>>
  BY DEF Answer, driver, IInv, TypeOK
<1>2. [type |-> "HeadData"] \in Packet
  BY DEF Packet
<1>3. NumLines(down') = NumLines(down) + 1
  BY <1>1, <1>2, OwedIsANumber, OneMoreLine
<1>4. Owed' >= Owed /\ Owed \in Nat /\ Owed' \in Nat
  <2>1. Owed' = (IF Rebooting(up) THEN 0 ELSE head.pending - 1)
                    + Cardinality(Owing(up)) + (NumLines(down) + 1)
    BY <1>1, <1>3 DEF Owed
  <2> DEFINE b == Cardinality(Owing(up))
             c == NumLines(down)
  <2>4. /\ b \in Nat /\ c \in Nat /\ head.pending \in Nat
        /\ head.pending > 0
        /\ Owed = (IF Rebooting(up) THEN 0 ELSE head.pending) + b + c
        /\ Owed' = (IF Rebooting(up) THEN 0 ELSE head.pending - 1) + b + (c + 1)
    BY <1>1, <2>1, OwedIsANumber DEF Owed
  <2> HIDE DEF b, c
  <2>2. CASE Rebooting(up)
    BY <2>2, <2>4
  <2>3. CASE ~Rebooting(up)
    BY <2>3, <2>4
  <2> QED BY <2>2, <2>3
<1>5. reqs' <= Owed' + lost'
  BY <1>1, <1>4, OwedIsANumber DEF OwedInv
<1> QED BY <1>1, <1>5 DEF OwedInv

LEMMA TellAliveIsOwed == ASSUME IInv, OwedInv, TellAlive PROVE OwedInv'
<1> DEFINE p == [type |-> "Alive", ready |-> head.ready, params |-> head.params]
<1>1. down' = Append(down, p) /\ UNCHANGED <<up, head, reqs, state, lost>>
  BY DEF TellAlive, driver
<1>2. p \in Packet /\ p.type # "HeadData"
  BY DEF Packet, IInv, TypeOK
<1> HIDE DEF p
<1>3. NumLines(down') = NumLines(down)
  BY <1>1, <1>2, OwedIsANumber, OneMoreLine
<1> QED BY <1>1, <1>3 DEF OwedInv, Owed

LEMMA SetParamsIsOwed == ASSUME IInv, OwedInv, SetParams PROVE OwedInv'
<1>1. Send(<<"HeadParams">>) /\ UNCHANGED <<down, head, reqs, state, lost>>
  BY DEF SetParams, driver
<1>2. CASE ~head.on
  <2>1. up' = up
    BY <1>1, <1>2 DEF Send, IInv, LineIsCut
  <2> QED BY <1>1, <2>1 DEF OwedInv, Owed
<1>3. CASE head.on
  <2>1. up' = up \o <<"HeadParams">>
    BY <1>1, <1>3 DEF Send
  <2>2. (Rebooting(up') <=> Rebooting(up)) /\ Owing(up') = Owing(up)
    BY <2>1, OwedIsANumber, SendingOthersOwesNothing
  <2> QED BY <1>1, <2>2 DEF OwedInv, Owed
<1> QED BY <1>2, <1>3

\* The lines that go with a garbled packet are counted as lost.
LEMMA SkipGarbledIsOwed == ASSUME IInv, OwedInv, SkipGarbled PROVE OwedInv'
<1>1. PICK n \in 1..Len(down) : /\ down' = SubSeq(down, n + 1, Len(down))
                                /\ lost' = lost + NumLines(SubSeq(down, 1, n))
                                /\ UNCHANGED <<up, head, reqs, state>>
  BY DEF SkipGarbled, LoseFirst, driver
<1>2. /\ NumLines(SubSeq(down, 1, n)) \in Nat /\ NumLines(down') \in Nat
      /\ NumLines(down) = NumLines(SubSeq(down, 1, n)) + NumLines(down')
  BY <1>1, OwedIsANumber, FirstLinesAreCounted
<1>3. Owed' + lost' = Owed + lost
  BY <1>1, <1>2, OwedIsANumber DEF Owed
<1> QED BY <1>1, <1>3 DEF OwedInv

\* A driver that gives up waits for nothing.
LEMMA GivingUpIsOwed == ASSUME IInv, IInv', GiveUp PROVE OwedInv'
<1>1. reqs' = 0 /\ lost' = 0 /\ lost' \in Nat
  BY DEF GiveUp
<1>2. Owed' \in Nat
  <2>1. /\ up' \in Seq(Commands) /\ down' \in Seq(Packet) /\ head'.pending \in Nat
    BY DEF IInv, TypeOK, Commands
  <2> QED BY <2>1, OwedIsNat DEF Owed
<1>3. reqs' <= Owed' + lost'
  <2>1. \A a, b \in Nat : 0 <= a + b
    OBVIOUS
  <2> QED BY <1>1, <1>2, <2>1, Zenon
<1> QED BY <1>1, <1>3 DEF OwedInv

LEMMA GarbledTimesOutIsOwed == ASSUME IInv, IInv', OwedInv, GarbledTimesOut PROVE OwedInv'
<1>1. CASE isalive
  BY <1>1, GivingUpIsOwed DEF GarbledTimesOut
<1>2. CASE ~isalive
  <2>1. state # "SCANNING"
    BY <1>2 DEF IInv, HeadWasHeard
  <2>2. reqs' = 0 /\ UNCHANGED <<up, head, state>> /\ lost' \in Nat
    BY <1>2, <2>1 DEF GarbledTimesOut, LoseFirst, driver, OwedInv, IInv, TypeOK
  <2>3. Owed' \in Nat
    <3>1. down' \in Seq(Packet) /\ up' \in Seq(Commands) /\ head'.pending \in Nat
      BY DEF IInv, TypeOK, Commands
    <3> QED BY <3>1, OwedIsNat DEF Owed
  <2>4. reqs' <= Owed' + lost'
    <3>1. \A a, b \in Nat : 0 <= a + b
      OBVIOUS
    <3> QED BY <2>2, <2>3, <3>1, Zenon
  <2> QED BY <2>2, <2>4 DEF OwedInv
<1> QED BY <1>1, <1>2

\* What the head owes is on the line or with the head, and counted when it is
\* lost with its power.
LEMMA LosePowerIsOwed == ASSUME IInv, OwedInv, LosePower PROVE OwedInv'
<1>1. /\ lost' = lost + head.pending + NumRequests(up)
      /\ up' = <<>> /\ head'.pending = 0 /\ UNCHANGED <<state, reqs, down>>
  BY DEF LosePower, driver
<1>2. Owed <= Outstanding /\ Owed \in Nat
  BY OwedIsOutstanding
<1>3. Owed' = NumLines(down)
  <2>1. Owing(<<>>) = {} /\ ~Rebooting(<<>>)
    BY DEF Owing, Rebooting
  <2>2. Cardinality(Owing(up')) = 0 /\ ~Rebooting(up')
    BY <1>1, <2>1, FS_EmptySet
  <2>3. Owed' = 0 + 0 + NumLines(down)
    BY <1>1, <2>2 DEF Owed
  <2> QED BY <2>3, OwedIsANumber
<1>4. NumRequests(up) \in Nat
  BY OwedIsANumber, RequestsOnTheLine
<1>5. reqs' <= Owed' + lost'
  <2> DEFINE k == NumRequests(up)
             c == NumLines(down)
  <2>1. reqs <= Owed + lost /\ Owed <= head.pending + k + c
    BY <1>2 DEF OwedInv, Outstanding
  <2>2. Owed' = c /\ lost' = lost + head.pending + k /\ reqs' = reqs
    BY <1>1, <1>3
  <2>3. k \in Nat /\ c \in Nat /\ head.pending \in Nat /\ lost \in Nat /\ reqs \in Nat /\ Owed \in Nat
    BY <1>2, <1>4, OwedIsANumber
  <2> HIDE DEF k, c
  <2> QED BY <2>1, <2>2, <2>3
<1> QED BY <1>1, <1>5 DEF OwedInv

LEMMA OwedIsInductive == IInv /\ OwedInv /\ [Next]_vars => OwedInv'
<1> SUFFICES ASSUME IInv, OwedInv, [Next]_vars PROVE OwedInv'
  OBVIOUS
<1>0. IInv'
  BY IInvIsInductive
<1>1. ASSUME UNCHANGED <<state, reqs, up, down, lost>>, head'.on = head.on, head'.pending = head.pending
      PROVE  OwedInv'
  BY <1>1 DEF OwedInv, Owed
<1>2. CASE Process
  BY <1>1, <1>2 DEF Process, driver
<1>3. CASE Centre
  <2>1. head'.on = head.on /\ head'.pending = head.pending
    BY <1>3 DEF Centre, IInv, TypeOK
  <2> QED BY <1>1, <1>3, <2>1 DEF Centre, driver
<1>4. CASE UNCHANGED vars
  BY <1>1, <1>4 DEF vars, driver
<1>5. CASE Timeout
  BY <1>0, <1>5, GivingUpIsOwed DEF Timeout
<1>6. CASE PowerComesBack \/ Blink
  <2>1. head'.pending = head.pending /\ UNCHANGED <<up, down, reqs, state, lost>>
    BY <1>6 DEF PowerComesBack, Blink, driver, IInv, TypeOK
  <2> QED BY <2>1 DEF OwedInv, Owed
<1> QED
  BY <1>0, <1>2, <1>3, <1>4, <1>5, <1>6, ReceiveIsOwed, ObeyIsOwed, AnswerIsOwed, TellAliveIsOwed,
     SetParamsIsOwed, SkipGarbledIsOwed, GarbledTimesOutIsOwed, LosePowerIsOwed DEF Next, ReadThread, HeadWorks

LEMMA InitIsOwed == Init => OwedInv
<1> SUFFICES ASSUME Init PROVE OwedInv
  OBVIOUS
<1>1. IInv
  BY InitIsInv
<1>2. Owed \in Nat
  BY <1>1, OwedIsANumber DEF Owed
<1> QED BY <1>2 DEF OwedInv, Init

\* The driver (seanet_sonar.cpp:391) never counts a request that nobody will
\* answer, but for what was lost: a reboot on the line, old lines of data, and a
\* loss of power that it sees leave no more counted than the head owes.
THEOREM AwaitedAnswersAreOwed == Spec => []NoAnswerIsAwaitedInVain
<1>1. Init => IInv /\ OwedInv
  BY InitIsInv, InitIsOwed
<1>2. IInv /\ OwedInv /\ [Next]_vars => (IInv /\ OwedInv)'
  BY IInvIsInductive, OwedIsInductive
<1>3. IInv /\ OwedInv => NoAnswerIsAwaitedInVain
  BY OwedIsOutstanding, OwedIsANumber DEF OwedInv, NoAnswerIsAwaitedInVain
<1> QED
  BY <1>1, <1>2, <1>3, PTL DEF Spec

\* seanet_sonar.h:108 says so of m_cur_data_reqs: if the driver believes that a
\* request is outstanding, one is, as long as it counts more than was lost.
THEOREM OneIsAlwaysOutstanding == Spec => [](reqs > lost => Outstanding > 0)
<1>1. IInv /\ NoAnswerIsAwaitedInVain => (reqs > lost => Outstanding > 0)
  BY OwedIsOutstanding, OwedIsANumber DEF NoAnswerIsAwaitedInVain
<1>2. Spec => []IInv
  BY InitIsInv, IInvIsInductive, PTL DEF Spec
<1> QED BY <1>1, <1>2, AwaitedAnswersAreOwed, PTL
=============================================================================
