------------------------ MODULE PipelineClient_proofs ------------------------
(***************************************************************************)
(* Proofs about PipelineClient, for any number of calls and of requests of *)
(* other clients: its type invariant, that no answer to the call that is   *)
(* under way is missed, that calls of addSynchronous return different      *)
(* nodes however late the answers come, that calls take the answers to     *)
(* what they asked as long as none of their kind has timed out, and that a *)
(* node is then gone when the call that removes it returns.                *)
(***************************************************************************)
EXTENDS PipelineClient, TLAPS

\* The calls that were begun.  The nr of the last one is their number.
Asked == Len(returned) + (IF call = None THEN 0 ELSE 1)

Numbered ==
    /\ Asked <= MaxCalls
    /\ call # None => call.nr = Asked
    /\ own \subseteq 0..Asked
    /\ \A i \in DOMAIN requests : requests[i].nr <= Asked
    /\ \A i \in DOMAIN messages : messages[i].nr <= Asked
    /\ handled # None => handled.nr <= Asked

\* What has the number of the call under way is about what it asked for.
Matches(m) == m.nr = call.nr => m.kind = call.kind /\ m.key = call.key
OwnMatches ==
    call # None =>
        /\ \A i \in DOMAIN requests : Matches(requests[i])
        /\ \A i \in DOMAIN messages : Matches(messages[i])
        /\ handled # None => Matches(handled)

\* The call waits, or has its answer, or is about to get it.
Awaited ==
    /\ cleared => handled # None
    /\ call # None =>
        \/ waitFor[call.kind] = call.key
        \/ answer[call.kind] # None
        \/ cleared /\ handled.kind = call.kind

\* Ids are given out in turn, each for a request.
Counted == \E n \in Nat : created = 1..n /\ n + Len(requests) <= Asked + others

\* m tells of a new node, and the nodes of m and n are not the same.
Added(m) == m # None /\ m.kind = "add" /\ m.id # 0
Known(m) == Added(m) => m.id \in created
Apart(m, n) == Added(m) /\ Added(n) => m.id # n.id

KindsKept ==
    /\ \A k \in Kinds : answer[k] # None => answer[k].kind = k
    /\ \A c \in Calls : returned[c].answer # None =>
            returned[c].answer.kind = returned[c].request.kind

AddsKnown ==
    /\ \A i \in DOMAIN messages : Known(messages[i])
    /\ Known(handled) /\ Known(answer["add"])
    /\ \A c \in Calls : Known(returned[c].answer)

\* A node is told of once.  Between two calls answer may be what the first took.
MessagesApart ==
    /\ \A i, j \in DOMAIN messages : i # j => Apart(messages[i], messages[j])
    /\ \A i \in DOMAIN messages : Apart(messages[i], handled)
    /\ \A i \in DOMAIN messages : Apart(messages[i], answer["add"])
    /\ \A i \in DOMAIN messages : \A c \in Calls : Apart(messages[i], returned[c].answer)
AnswersApart ==
    /\ Apart(handled, answer["add"])
    /\ \A c \in Calls : Apart(handled, returned[c].answer)
    /\ call # None /\ call.kind = "add" =>
            \A c \in Calls : Apart(answer["add"], returned[c].answer)
    /\ \A c, d \in Calls : c # d => Apart(returned[c].answer, returned[d].answer)

\* The inductive invariant.
IInv ==
    /\ TypeOK
    /\ Numbered
    /\ OwnMatches
    /\ Awaited
    /\ NoAnswerIsMissed
    /\ Counted
    /\ KindsKept
    /\ AddsKnown
    /\ MessagesApart
    /\ AnswersApart

-----------------------------------------------------------------------------
(* Sequences, requests and messages *)

LEMMA AppendFacts ==
    ASSUME NEW S, NEW s \in Seq(S), NEW e \in S
    PROVE  /\ Append(s, e) \in Seq(S)
           /\ Len(s) \in Nat /\ DOMAIN s = 1..Len(s)
           /\ Len(Append(s, e)) = Len(s) + 1
           /\ DOMAIN Append(s, e) = DOMAIN s \cup {Len(s) + 1}
           /\ Len(s) + 1 \notin DOMAIN s
           /\ \A i \in DOMAIN s : Append(s, e)[i] = s[i]
           /\ Append(s, e)[Len(s) + 1] = e
  OBVIOUS

LEMMA TailFacts ==
    ASSUME NEW S, NEW s \in Seq(S), s # <<>>
    PROVE  /\ Tail(s) \in Seq(S)
           /\ Len(s) \in Nat \ {0} /\ Len(Tail(s)) = Len(s) - 1
           /\ Head(s) = s[1] /\ Head(s) \in S /\ 1 \in DOMAIN s
           /\ \A i \in DOMAIN Tail(s) :
                i \in Nat /\ i + 1 \in DOMAIN s /\ i + 1 # 1 /\ Tail(s)[i] = s[i + 1]
  OBVIOUS

LEMMA RequestFacts ==
    \A r \in Request : /\ r # None
                       /\ r.kind \in Kinds /\ r.key \in Keys[r.kind] /\ r.nr \in 0..MaxCalls
  BY NoneAssumption DEF Request

LEMMA MessageFacts ==
    \A m \in Message : /\ m # None
                       /\ m.kind \in Kinds /\ m.key \in Keys[m.kind]
                       /\ m.nr \in 0..MaxCalls /\ m.id \in NodeId
  BY NoneAssumption DEF Message

LEMMA RequestType ==
    ASSUME NEW k \in Kinds, NEW key \in Keys[k], NEW nr \in 0..MaxCalls
    PROVE  [kind |-> k, key |-> key, nr |-> nr] \in Request
  BY DEF Request

LEMMA MessageType ==
    ASSUME NEW k \in Kinds, NEW key \in Keys[k], NEW nr \in 0..MaxCalls, NEW id \in NodeId
    PROVE  [kind |-> k, key |-> key, nr |-> nr, id |-> id] \in Message
  BY DEF Message

LEMMA ThinkableFacts ==
    ASSUME created \subseteq NodeId, NEW k \in Kinds
    PROVE  Thinkable[k] \subseteq Keys[k]
<1>1. CASE k = "add" BY <1>1 DEF Thinkable, Keys
<1>2. CASE k = "remove" BY <1>2 DEF Thinkable, Keys
<1>3. CASE k = "set" BY <1>3 DEF Thinkable, Keys
<1>4. CASE k = "arc" BY <1>4 DEF Thinkable, Keys
<1> QED BY <1>1, <1>2, <1>3, <1>4 DEF Kinds

-----------------------------------------------------------------------------
(* The caller *)

LEMMA BeginStep ==
    ASSUME IInv, NEW k \in Kinds, NEW key \in Thinkable[k], Begin(k, key)
    PROVE  IInv'
<1> DEFINE c == [kind |-> k, key |-> key, nr |-> Len(returned) + 1]
<1> USE DEF IInv
<1>1. /\ call = None /\ call' = c
      /\ answer' = [answer EXCEPT ![k] = None]
      /\ waitFor' = [waitFor EXCEPT ![k] = key]
      /\ requests' = Append(requests, c)
      /\ Len(returned) < MaxCalls
      /\ UNCHANGED <<messages, handled, cleared, nodes, created, others, own, returned>>
  BY DEF Begin, handler, server
<1>2. Len(returned) \in Nat /\ MaxCalls \in Nat
  BY ClientAssumption DEF TypeOK
<1>3. key \in Keys[k] /\ Len(returned) + 1 \in 0..MaxCalls
  BY <1>1, <1>2, ThinkableFacts DEF TypeOK
<1>4. c \in Request /\ c # None
  BY <1>3, RequestType, RequestFacts
<1>5. c.kind = k /\ c.key = key /\ c.nr = Len(returned) + 1
  OBVIOUS
<1> HIDE DEF c
<1>6. Asked = Len(returned) /\ Asked' = Len(returned) + 1
  BY <1>1, <1>4 DEF Asked
<1>7. /\ requests' \in Seq(Request)
      /\ DOMAIN requests' = DOMAIN requests \cup {Len(requests) + 1}
      /\ \A i \in DOMAIN requests : requests'[i] = requests[i]
      /\ requests'[Len(requests) + 1] = c
      /\ Len(requests') = Len(requests) + 1
      /\ Len(requests) \in Nat
  BY <1>1, <1>4, AppendFacts DEF TypeOK
<1>8. TypeOK'
  <2>1. waitFor' = [j \in Kinds |-> waitFor'[j]] /\ \A j \in Kinds : waitFor'[j] # None => waitFor'[j] \in Keys[j]
    BY <1>1, <1>3 DEF TypeOK
  <2>2. answer' \in [Kinds -> Message \cup {None}]
    BY <1>1 DEF TypeOK
  <2> QED BY <1>1, <1>4, <1>7, <2>1, <2>2 DEF TypeOK
<1>9. Numbered'
  <2>1. \A m : m \in Nat /\ m <= Asked => m <= Asked'
    BY <1>2, <1>6
  <2>2. /\ \A i \in DOMAIN requests : requests[i].nr \in Nat
        /\ \A i \in DOMAIN messages : messages[i].nr \in Nat
        /\ handled # None => handled.nr \in Nat
    BY RequestFacts, MessageFacts DEF TypeOK
  <2>3. own' \subseteq 0..Asked'
    BY <1>1, <1>2, <1>6 DEF Numbered
  <2>4. \A i \in DOMAIN requests' : requests'[i].nr <= Asked'
    BY <1>2, <1>5, <1>6, <1>7, <2>1, <2>2 DEF Numbered
  <2>5. \A i \in DOMAIN messages' : messages'[i].nr <= Asked'
    BY <1>1, <2>1, <2>2 DEF Numbered
  <2>6. handled' # None => handled'.nr <= Asked'
    BY <1>1, <2>1, <2>2 DEF Numbered
  <2> QED BY <1>1, <1>2, <1>3, <1>5, <1>6, <2>3, <2>4, <2>5, <2>6 DEF Numbered
<1>10. OwnMatches'
  <2>1. /\ \A i \in DOMAIN requests : requests[i].nr # c.nr
        /\ \A i \in DOMAIN messages : messages[i].nr # c.nr
        /\ handled # None => handled.nr # c.nr
    BY <1>2, <1>5, <1>6, RequestFacts, MessageFacts DEF Numbered, TypeOK
  <2> QED BY <1>1, <1>7, <2>1 DEF OwnMatches, Matches
<1>11. Awaited'
  BY <1>1, <1>5 DEF Awaited, TypeOK
<1>12. NoAnswerIsMissed'
  BY <1>1, <1>2, <1>5, <1>6 DEF NoAnswerIsMissed, Numbered
<1>13. Counted'
  <2>1. PICK n \in Nat : created = 1..n /\ n + Len(requests) <= Asked + others
    BY DEF Counted
  <2>2. others \in Nat
    BY ClientAssumption DEF TypeOK
  <2>3. n + Len(requests') <= Asked' + others
    BY <1>2, <1>6, <1>7, <2>1, <2>2
  <2> QED BY <1>1, <2>1, <2>3 DEF Counted
<1>14. answer'["add"] = answer["add"] \/ answer'["add"] = None
  BY <1>1 DEF TypeOK, Kinds
<1>15. KindsKept'
  BY <1>1 DEF KindsKept, TypeOK, Calls
<1>16. AddsKnown'
  BY <1>1, <1>14 DEF AddsKnown, Known, Added, Calls
<1>17. MessagesApart'
  BY <1>1, <1>14 DEF MessagesApart, Apart, Added, Calls
<1>18. AnswersApart'
  <2>1. call'.kind = "add" => answer'["add"] = None
    BY <1>1, <1>5 DEF TypeOK
  <2> QED BY <1>1, <1>14, <2>1 DEF AnswersApart, Apart, Added, Calls
<1> QED BY <1>8, <1>9, <1>10, <1>11, <1>12, <1>13, <1>15, <1>16, <1>17, <1>18

LEMMA EndStep ==
    ASSUME IInv, End
    PROVE  IInv'
<1> DEFINE e == [request |-> call, answer |-> answer[call.kind]]
<1> USE DEF IInv
<1>1. /\ call # None /\ call' = None
      /\ returned' = Append(returned, e)
      /\ UNCHANGED <<waitFor, answer, requests, messages, handled, cleared, nodes, created,
                     others, own>>
  BY DEF End, handler, server
<1>2. call \in Request /\ call.kind \in Kinds
  BY <1>1, RequestFacts DEF TypeOK
<1>3. e \in Taken /\ e.request = call /\ e.answer = answer[call.kind]
  BY <1>2 DEF TypeOK, Taken
<1> HIDE DEF e
<1>4. /\ returned' \in Seq(Taken)
      /\ Len(returned) \in Nat
      /\ Len(returned') = Len(returned) + 1
      /\ Calls = 1..Len(returned)
      /\ Calls' = Calls \cup {Len(returned) + 1}
      /\ Len(returned) + 1 \notin Calls
      /\ \A i \in Calls : returned'[i] = returned[i]
      /\ returned'[Len(returned) + 1] = e
  BY <1>1, <1>3, AppendFacts DEF TypeOK, Calls
<1>5. Asked' = Asked
  BY <1>1, <1>4 DEF Asked
<1>6. TypeOK'
  BY <1>1, <1>4 DEF TypeOK
<1>7. Numbered' /\ OwnMatches' /\ Awaited' /\ NoAnswerIsMissed' /\ Counted'
  BY <1>1, <1>5 DEF Numbered, OwnMatches, Awaited, NoAnswerIsMissed, Counted
<1>8. KindsKept'
  BY <1>1, <1>2, <1>3, <1>4 DEF KindsKept
<1>9. Added(e.answer) => call.kind = "add" /\ e.answer = answer["add"]
  BY <1>2, <1>3 DEF KindsKept, Added
<1>10. AddsKnown'
  BY <1>1, <1>4, <1>9 DEF AddsKnown, Known, Added
<1>11. MessagesApart'
  <2>1. \A i \in DOMAIN messages : Apart(messages[i], e.answer)
    BY <1>9 DEF MessagesApart, Apart
  <2>2. \A i \in DOMAIN messages : \A d \in Calls' : Apart(messages[i], returned'[d].answer)
    BY <1>4, <2>1 DEF MessagesApart
  <2> QED BY <1>1, <2>2 DEF MessagesApart, Apart, Added
<1>12. AnswersApart'
  <2>1. Apart(handled, e.answer)
    BY <1>9 DEF AnswersApart, Apart
  <2>2. \A d \in Calls : Apart(e.answer, returned[d].answer) /\ Apart(returned[d].answer, e.answer)
    BY <1>1, <1>9 DEF AnswersApart, Apart
  <2>3. \A d \in Calls' : Apart(handled, returned'[d].answer)
    BY <1>4, <2>1 DEF AnswersApart
  <2>4. \A d, b \in Calls' : d # b => Apart(returned'[d].answer, returned'[b].answer)
    BY <1>4, <2>2 DEF AnswersApart
  <2> QED BY <1>1, <2>3, <2>4 DEF AnswersApart, Apart, Added
<1> QED BY <1>6, <1>7, <1>8, <1>10, <1>11, <1>12

-----------------------------------------------------------------------------
(* The thread that brings messages *)

LEMMA OnMessageStep ==
    ASSUME IInv, OnMessage
    PROVE  IInv'
<1> DEFINE m == Head(messages)
<1> USE DEF IInv
<1>1. /\ handled = None /\ messages # <<>>
      /\ messages' = Tail(messages)
      /\ handled' = IF waitFor[m.kind] = m.key THEN m ELSE None
      /\ own' = IF handled' = None THEN own \cup {m.nr} ELSE own
      /\ UNCHANGED <<call, waitFor, answer, requests, cleared, nodes, created, others, returned>>
  BY DEF OnMessage, Idle, Compare, server
<1>2. /\ messages' \in Seq(Message)
      /\ m = messages[1] /\ m \in Message /\ 1 \in DOMAIN messages
      /\ \A i \in DOMAIN messages' :
            i + 1 \in DOMAIN messages /\ i + 1 # 1 /\ messages'[i] = messages[i + 1]
  BY <1>1, TailFacts DEF TypeOK
<1>3. m # None /\ m.nr \in 0..MaxCalls
  BY <1>2, MessageFacts
<1> HIDE DEF m
<1>4. handled' = m \/ handled' = None
  BY <1>1
<1>5. \A i, j \in DOMAIN messages' : i # j => i + 1 # j + 1
  BY <1>1, TailFacts DEF TypeOK
<1>6. TypeOK'
  BY <1>1, <1>2, <1>3, <1>4 DEF TypeOK
<1>7. Asked' = Asked
  BY <1>1 DEF Asked
<1>8. Numbered'
  <2>1. m.nr <= Asked
    BY <1>2 DEF Numbered
  <2>2. Asked \in Nat
    BY DEF Asked, TypeOK
  <2>3. own' \subseteq 0..Asked
    <3>1. m.nr \in 0..Asked
      BY <1>3, <2>1, <2>2, ClientAssumption
    <3>2. own \subseteq 0..Asked
      BY DEF Numbered
    <3> QED BY <1>1, <3>1, <3>2
  <2> QED BY <1>1, <1>2, <1>4, <1>7, <2>1, <2>3 DEF Numbered
<1>9. OwnMatches'
  BY <1>1, <1>2, <1>4 DEF OwnMatches, Matches
<1>10. Awaited'
  BY <1>1 DEF Awaited
<1>11. NoAnswerIsMissed'
  <2> SUFFICES ASSUME call # None, call.nr \in own', call.nr \notin own
               PROVE  answer[call.kind] # None
    BY <1>1 DEF NoAnswerIsMissed
  <2>1. m.nr = call.nr /\ waitFor[m.kind] # m.key
    BY <1>1, <1>3
  <2>2. m.kind = call.kind /\ m.key = call.key
    BY <1>2, <2>1 DEF OwnMatches, Matches
  <2> QED BY <1>1, <2>1, <2>2 DEF Awaited
<1>12. Counted'
  BY <1>1, <1>7 DEF Counted
<1>13. KindsKept'
  BY <1>1 DEF KindsKept, Calls
<1>14. AddsKnown'
  BY <1>1, <1>2, <1>4 DEF AddsKnown, Known, Added, Calls
<1>15. MessagesApart'
  <2>1. \A i, j \in DOMAIN messages' : i # j => Apart(messages'[i], messages'[j])
    BY <1>2, <1>5 DEF MessagesApart
  <2>2. \A i \in DOMAIN messages' : Apart(messages'[i], handled')
    BY <1>2, <1>4 DEF MessagesApart, Apart, Added
  <2> QED BY <1>1, <1>2, <2>1, <2>2 DEF MessagesApart, Apart, Added, Calls
<1>16. AnswersApart'
  BY <1>1, <1>2, <1>4 DEF AnswersApart, MessagesApart, Apart, Added, Calls
<1> QED BY <1>6, <1>8, <1>9, <1>10, <1>11, <1>12, <1>13, <1>14, <1>15, <1>16

LEMMA ClearStep ==
    ASSUME IInv, Clear
    PROVE  IInv'
<1> USE DEF IInv
<1>1. /\ handled # None /\ cleared' = TRUE
      /\ waitFor' = [waitFor EXCEPT ![handled.kind] = None]
      /\ UNCHANGED <<call, answer, requests, messages, handled, nodes, created, others, own,
                     returned>>
  BY DEF Clear, Idle, server
<1>2. TypeOK'
  <2>1. waitFor' = [j \in Kinds |-> waitFor'[j]] /\ \A j \in Kinds : waitFor'[j] # None => waitFor'[j] \in Keys[j]
    BY <1>1 DEF TypeOK
  <2> QED BY <1>1, <2>1 DEF TypeOK
<1>3. Awaited'
  <2>1. call # None => call.kind \in Kinds
    BY RequestFacts DEF TypeOK
  <2> QED BY <1>1, <2>1 DEF Awaited, TypeOK
<1>4. Numbered' /\ OwnMatches' /\ NoAnswerIsMissed' /\ Counted'
  BY <1>1 DEF Numbered, OwnMatches, Matches, NoAnswerIsMissed, Counted, Asked
<1>5. KindsKept' /\ AddsKnown'
  BY <1>1 DEF KindsKept, AddsKnown, Known, Added, Calls
<1>6. MessagesApart' /\ AnswersApart'
  BY <1>1 DEF MessagesApart, AnswersApart, Apart, Added, Calls
<1> QED BY <1>2, <1>3, <1>4, <1>5, <1>6

LEMMA KeepStep ==
    ASSUME IInv, Keep
    PROVE  IInv'
<1> USE DEF IInv
<1>1. /\ cleared /\ cleared' = FALSE /\ handled' = None
      /\ answer' = [answer EXCEPT ![handled.kind] = handled]
      /\ own' = own \cup {handled.nr}
      /\ UNCHANGED <<call, waitFor, requests, messages, nodes, created, others, returned>>
  BY DEF Keep, server
<1>2. handled # None /\ handled \in Message /\ handled.kind \in Kinds /\ handled.nr \in 0..MaxCalls
  BY <1>1, MessageFacts DEF Awaited, TypeOK
<1>3. answer' \in [Kinds -> Message \cup {None}]
      /\ answer'[handled.kind] = handled
      /\ \A k \in Kinds : k # handled.kind => answer'[k] = answer[k]
  BY <1>1, <1>2 DEF TypeOK
<1>4. answer'["add"] = answer["add"] \/ answer'["add"] = handled
  BY <1>3 DEF Kinds
<1>5. Asked' = Asked
  BY <1>1 DEF Asked
<1>6. TypeOK'
  BY <1>1, <1>2, <1>3 DEF TypeOK
<1>7. Numbered'
  <2>1. handled.nr <= Asked /\ Asked \in Nat
    BY <1>2 DEF Numbered, Asked, TypeOK
  <2>2. handled.nr \in 0..Asked
    BY <1>2, <2>1, ClientAssumption
  <2>3. own \subseteq 0..Asked
    BY DEF Numbered
  <2>4. own' \subseteq 0..Asked
    BY <1>1, <2>2, <2>3
  <2> QED BY <1>1, <1>5, <2>4 DEF Numbered
<1>8. OwnMatches'
  BY <1>1 DEF OwnMatches, Matches
<1>9. call # None => call.kind \in Kinds
  BY RequestFacts DEF TypeOK
<1>10. Awaited'
  BY <1>1, <1>2, <1>3, <1>9 DEF Awaited
<1>11. NoAnswerIsMissed'
  <2>1. call # None /\ call.nr = handled.nr => answer'[call.kind] # None
    BY <1>2, <1>3 DEF OwnMatches, Matches
  <2>2. call # None /\ answer[call.kind] # None => answer'[call.kind] # None
    BY <1>2, <1>3, <1>9
  <2> QED BY <1>1, <2>1, <2>2 DEF NoAnswerIsMissed
<1>12. Counted'
  BY <1>1, <1>5 DEF Counted
<1>13. KindsKept'
  BY <1>1, <1>2, <1>3 DEF KindsKept, Calls
<1>14. AddsKnown'
  BY <1>1, <1>4 DEF AddsKnown, Known, Added, Calls
<1>15. MessagesApart'
  BY <1>1, <1>4 DEF MessagesApart, Apart, Added, Calls
<1>16. AnswersApart'
  BY <1>1, <1>4 DEF AnswersApart, Apart, Added, Calls
<1> QED BY <1>6, <1>7, <1>8, <1>10, <1>11, <1>12, <1>13, <1>14, <1>15, <1>16

-----------------------------------------------------------------------------
(* Other clients and the pipeline *)

LEMMA OtherAsksStep ==
    ASSUME IInv, NEW k \in Kinds, NEW key \in Thinkable[k], OtherAsks(k, key)
    PROVE  IInv'
<1> DEFINE c == [kind |-> k, key |-> key, nr |-> 0]
<1> USE DEF IInv
<1>1. /\ others < MaxOthers /\ others' = others + 1
      /\ requests' = Append(requests, c)
      /\ UNCHANGED <<call, waitFor, answer, messages, handled, cleared, nodes, created, own,
                     returned>>
  BY DEF OtherAsks, handler, server
<1>2. key \in Keys[k] /\ 0 \in 0..MaxCalls
  BY ThinkableFacts, ClientAssumption DEF TypeOK
<1>3. c \in Request /\ c.nr = 0
  BY <1>2, RequestType
<1> HIDE DEF c
<1>4. /\ requests' \in Seq(Request)
      /\ DOMAIN requests' = DOMAIN requests \cup {Len(requests) + 1}
      /\ \A i \in DOMAIN requests : requests'[i] = requests[i]
      /\ requests'[Len(requests) + 1] = c
      /\ Len(requests') = Len(requests) + 1
      /\ Len(requests) \in Nat
  BY <1>1, <1>3, AppendFacts DEF TypeOK
<1>5. Asked' = Asked /\ Asked \in Nat /\ others \in Nat /\ MaxOthers \in Nat
  BY <1>1, ClientAssumption DEF Asked, TypeOK
<1>6. TypeOK'
  BY <1>1, <1>4, <1>5 DEF TypeOK
<1>7. Numbered'
  BY <1>1, <1>3, <1>4, <1>5 DEF Numbered
<1>8. OwnMatches'
  <2>1. call # None => call.nr # 0
    BY DEF Numbered, Asked, TypeOK
  <2> QED BY <1>1, <1>3, <1>4, <2>1 DEF OwnMatches, Matches
<1>9. Awaited' /\ NoAnswerIsMissed'
  BY <1>1 DEF Awaited, NoAnswerIsMissed
<1>10. Counted'
  <2>1. PICK n \in Nat : created = 1..n /\ n + Len(requests) <= Asked + others
    BY DEF Counted
  <2>2. n + Len(requests') <= Asked' + others'
    BY <1>1, <1>4, <1>5, <2>1
  <2> QED BY <1>1, <2>1, <2>2 DEF Counted
<1>11. KindsKept' /\ AddsKnown'
  BY <1>1 DEF KindsKept, AddsKnown, Known, Added, Calls
<1>12. MessagesApart' /\ AnswersApart'
  BY <1>1 DEF MessagesApart, AnswersApart, Apart, Added, Calls
<1> QED BY <1>6, <1>7, <1>8, <1>9, <1>10, <1>11, <1>12

\* What the pipeline does with the request r: it answers or not, and an answer
\* names a node it has, none, or a new one, whose id is the next.
Answered(r, id) == messages' = Append(messages, [kind |-> r.kind, key |-> r.key, nr |-> r.nr, id |-> id])

LEMMA AddFacts ==
    ASSUME IInv, requests # <<>>, NEW r \in Request, Add(r), r.kind = "add"
    PROVE  \/ Answered(r, 0) /\ UNCHANGED server
           \/ \E id \in NodeId \ ({0} \cup created) :
                /\ Answered(r, id) /\ created = 1..(id - 1) /\ created' = 1..id
                /\ nodes' \subseteq created'
<1> USE DEF IInv
<1>1. CASE r.key \notin Creatable
  BY <1>1 DEF Add, Answer, Answered
<1>2. CASE r.key \in Creatable
  <2> DEFINE Next1(i) == i \notin created /\ \A j \in 1..(i - 1) : j \in created
             id == CHOOSE i \in NodeId \ {0} : Next1(i)
  <2>1. PICK n \in Nat : created = 1..n /\ n + Len(requests) <= Asked + others
    BY DEF Counted
  <2>2. n + 1 \in NodeId \ {0}
    <3>1. /\ Len(requests) \in Nat \ {0} /\ Asked \in Nat /\ Asked <= MaxCalls
          /\ others \in Nat /\ others <= MaxOthers
      BY TailFacts, ClientAssumption DEF Numbered, Asked, TypeOK
    <3> QED BY <2>1, <3>1, ClientAssumption DEF NodeId
  <2>3. Next1(n + 1)
    BY <2>1
  <2>4. id \in NodeId \ {0} /\ Next1(id)
    BY <2>2, <2>3
  <2>5. Answered(r, id) /\ created' = created \cup {id} /\ nodes' = nodes \cup {id}
    BY <1>2 DEF Add, Answer, Answered
  <2> HIDE DEF id
  <2>6. id = n + 1
    <3>1. id \in Nat \ {0}
      BY <2>4, ClientAssumption DEF NodeId
    <3>2. ~(id <= n)
      BY <2>1, <2>4, <3>1
    <3>3. ~(n + 1 < id)
      <4> SUFFICES ASSUME n + 1 < id PROVE FALSE
        OBVIOUS
      <4>1. n + 1 \in 1..(id - 1)
        BY <3>1
      <4>2. n + 1 \in created
        BY <2>4, <4>1
      <4> QED BY <2>1, <4>2
    <3> QED BY <3>1, <3>2, <3>3
  <2>7. id \in NodeId \ ({0} \cup created) /\ created = 1..(id - 1) /\ created' = 1..id
    BY <2>1, <2>4, <2>5, <2>6
  <2>8. nodes' \subseteq created'
    BY <2>5 DEF TypeOK
  <2> QED BY <2>5, <2>7, <2>8
<1> QED BY <1>1, <1>2

LEMMA ServeFacts ==
    ASSUME IInv, Serve
    PROVE  LET r == Head(requests) IN
           /\ \/ UNCHANGED messages
              \/ r.kind = "add" /\ Answered(r, 0)
              \/ r.kind # "add" /\ \E id \in created : Answered(r, id)
           /\ created' = created /\ nodes' \subseteq created
        \/ /\ r.kind = "add"
           /\ \E id \in NodeId \ ({0} \cup created) :
                Answered(r, id) /\ created = 1..(id - 1) /\ created' = 1..id
           /\ nodes' \subseteq created'
<1> DEFINE r == Head(requests)
<1> USE DEF IInv
<1>1. requests # <<>> /\ r \in Request
  BY TailFacts DEF Serve, TypeOK
<1>2. nodes \subseteq created
  BY DEF TypeOK
<1> HIDE DEF r
<1>3. CASE r.kind = "add" /\ Add(r)
  BY <1>1, <1>2, <1>3, AddFacts DEF server, r
<1>4. CASE r.kind = "remove" /\ Remove(r)
  BY <1>2, <1>4 DEF Remove, Answer, Answered, server, r
<1>5. CASE r.kind = "set" /\ SetParameter(r)
  BY <1>2, <1>5 DEF SetParameter, Answer, Answered, server, r
<1>6. CASE r.kind = "arc" /\ AddArc(r)
  BY <1>2, <1>6 DEF AddArc, Answer, Answered, server, r
<1> QED BY <1>3, <1>4, <1>5, <1>6 DEF Serve, r

LEMMA ServeStep ==
    ASSUME IInv, Serve
    PROVE  IInv'
<1> DEFINE r == Head(requests)
<1> USE DEF IInv
<1>1. /\ requests # <<>> /\ requests' = Tail(requests)
      /\ UNCHANGED <<call, waitFor, answer, handled, cleared, others, own, returned>>
  BY DEF Serve, handler
<1>2. /\ requests' \in Seq(Request)
      /\ Len(requests) \in Nat \ {0} /\ Len(requests') = Len(requests) - 1
      /\ r = requests[1] /\ r \in Request /\ 1 \in DOMAIN requests
      /\ \A i \in DOMAIN requests' :
            i + 1 \in DOMAIN requests /\ requests'[i] = requests[i + 1]
  BY <1>1, TailFacts DEF TypeOK
<1>3. r.kind \in Kinds /\ r.key \in Keys[r.kind] /\ r.nr \in 0..MaxCalls
  BY <1>2, RequestFacts
<1>4. created \subseteq NodeId \ {0} /\ 0 \in NodeId
  BY ClientAssumption DEF TypeOK, NodeId
<1>5. \/ /\ UNCHANGED <<messages, created>> /\ nodes' \subseteq created
      \/ /\ created' = created /\ nodes' \subseteq created
         /\ \E id \in NodeId : Answered(r, id) /\ (r.kind = "add" => id = 0)
      \/ /\ r.kind = "add" /\ nodes' \subseteq created'
         /\ \E id \in NodeId \ ({0} \cup created) :
                Answered(r, id) /\ created = 1..(id - 1) /\ created' = 1..id
  BY <1>4, ServeFacts
<1> HIDE DEF r
<1>6. Asked' = Asked /\ Asked \in Nat /\ others \in Nat
  BY <1>1, ClientAssumption DEF Asked, TypeOK
<1>7. CASE UNCHANGED <<messages, created>> /\ nodes' \subseteq created
  <2>1. TypeOK'
    BY <1>1, <1>2, <1>7 DEF TypeOK
  <2>2. Numbered' /\ OwnMatches'
    BY <1>1, <1>2, <1>6, <1>7 DEF Numbered, OwnMatches, Matches
  <2>3. Awaited' /\ NoAnswerIsMissed' /\ KindsKept' /\ AddsKnown'
    BY <1>1, <1>7 DEF Awaited, NoAnswerIsMissed, KindsKept, AddsKnown, Known, Added, Calls
  <2>4. MessagesApart' /\ AnswersApart'
    BY <1>1, <1>7 DEF MessagesApart, AnswersApart, Apart, Added, Calls
  <2>5. Counted'
    <3>1. PICK n \in Nat : created = 1..n /\ n + Len(requests) <= Asked + others
      BY DEF Counted
    <3>2. n + Len(requests') <= Asked' + others'
      BY <1>1, <1>2, <1>6, <3>1
    <3> QED BY <1>7, <3>1, <3>2 DEF Counted
  <2> QED BY <2>1, <2>2, <2>3, <2>4, <2>5
<1>8. ASSUME NEW id \in NodeId, Answered(r, id), nodes' \subseteq created',
             \/ created' = created /\ (r.kind = "add" => id = 0)
             \/ id \notin {0} \cup created /\ created = 1..(id - 1) /\ created' = 1..id
      PROVE  IInv'
  <2> DEFINE m == [kind |-> r.kind, key |-> r.key, nr |-> r.nr, id |-> id]
  <2>1. m \in Message /\ m.kind = r.kind /\ m.key = r.key /\ m.nr = r.nr /\ m.id = id
    BY <1>3, <1>8, MessageType
  <2>2. messages' = Append(messages, m)
    BY <1>8 DEF Answered
  <2> HIDE DEF m
  <2>3. /\ messages' \in Seq(Message)
        /\ DOMAIN messages' = DOMAIN messages \cup {Len(messages) + 1}
        /\ Len(messages) + 1 \notin DOMAIN messages
        /\ \A i \in DOMAIN messages : messages'[i] = messages[i]
        /\ messages'[Len(messages) + 1] = m
    BY <2>1, <2>2, AppendFacts DEF TypeOK
  <2>4. id \in Nat
    BY <1>8, ClientAssumption DEF NodeId
  <2>5. created \subseteq created' /\ created' \subseteq NodeId \ {0}
    <3>1. CASE created' = created
      BY <1>4, <3>1
    <3>2. CASE created = 1..(id - 1) /\ created' = 1..id
      BY <1>8, <2>4, <3>2, ClientAssumption DEF NodeId
    <3> QED BY <1>8, <3>1, <3>2
  <2>6. TypeOK'
    BY <1>1, <1>2, <1>8, <2>3, <2>5 DEF TypeOK
  <2>7. Numbered'
    <3>1. m.nr <= Asked
      BY <1>2, <2>1 DEF Numbered
    <3> QED BY <1>1, <1>2, <1>6, <2>3, <3>1 DEF Numbered
  <2>8. OwnMatches'
    <3>1. call # None => Matches(m)
      BY <1>2, <2>1 DEF OwnMatches, Matches
    <3> QED BY <1>1, <1>2, <2>3, <3>1 DEF OwnMatches, Matches
  <2>9. Awaited' /\ NoAnswerIsMissed' /\ KindsKept'
    BY <1>1 DEF Awaited, NoAnswerIsMissed, KindsKept, Calls
  <2>10. Counted'
    <3>1. PICK n \in Nat : created = 1..n /\ n + Len(requests) <= Asked + others
      BY DEF Counted
    <3>2. CASE created' = created
      <4>1. n + Len(requests') <= Asked' + others'
        BY <1>1, <1>2, <1>6, <3>1
      <4> QED BY <3>1, <3>2, <4>1 DEF Counted
    <3>3. CASE id \notin {0} \cup created /\ created = 1..(id - 1) /\ created' = 1..id
      <4>1. id # 0
        BY <3>3
      <4>2. n = id - 1
        BY <2>4, <3>1, <3>3, <4>1
      <4>3. id + Len(requests') <= Asked' + others'
        BY <1>1, <1>2, <1>6, <2>4, <3>1, <4>2
      <4> QED BY <2>4, <3>3, <4>3 DEF Counted
    <3> QED BY <1>8, <3>2, <3>3
  <2>11. Added(m) => m.id \in created'
    <3>1. CASE r.kind = "add" => id = 0
      BY <2>1, <3>1 DEF Added
    <3>2. CASE created' = 1..id
      BY <2>1, <2>4, <3>2 DEF Added
    <3> QED BY <1>8, <3>1, <3>2
  <2>12. Added(m) => m.id \notin created
    BY <1>8, <2>1 DEF Added
  <2>13. AddsKnown'
    BY <1>1, <2>3, <2>5, <2>11 DEF AddsKnown, Known, Added, Calls
  <2>14. \A x : Known(x) => Apart(m, x) /\ Apart(x, m)
    BY <2>12 DEF Known, Apart
  <2>15. MessagesApart'
    <3>1. /\ \A i \in DOMAIN messages : Apart(m, messages[i]) /\ Apart(messages[i], m)
          /\ Apart(m, handled) /\ Apart(m, answer["add"])
          /\ \A c \in Calls : Apart(m, returned[c].answer)
      BY <2>14 DEF AddsKnown
    <3> QED BY <1>1, <2>3, <3>1 DEF MessagesApart, Calls, Apart, Added
  <2>16. AnswersApart'
    BY <1>1 DEF AnswersApart, Apart, Added, Calls
  <2> QED BY <2>6, <2>7, <2>8, <2>9, <2>10, <2>13, <2>15, <2>16
<1> QED BY <1>5, <1>7, <1>8

-----------------------------------------------------------------------------
(* The theorems *)

LEMMA InitInvariant == Init => IInv
<1> SUFFICES ASSUME Init PROVE IInv
  OBVIOUS
<1> USE DEF Init
<1>1. Asked = 0
  BY DEF Asked
<1>2. TypeOK
  <2>1. requests \in Seq(Request) /\ messages \in Seq(Message) /\ returned \in Seq(Taken)
    OBVIOUS
  <2>2. waitFor = [k \in Kinds |-> waitFor[k]] /\ \A k \in Kinds : waitFor[k] = None
    OBVIOUS
  <2>3. answer \in [Kinds -> Message \cup {None}] /\ others \in 0..MaxOthers
    BY ClientAssumption
  <2> QED BY <2>1, <2>2, <2>3 DEF TypeOK
<1>3. Numbered /\ OwnMatches /\ Awaited /\ NoAnswerIsMissed /\ Calls = {}
  BY <1>1, ClientAssumption DEF Numbered, OwnMatches, Awaited, NoAnswerIsMissed, Calls
<1>4. Counted
  <2>1. created = 1..0 /\ 0 + Len(requests) <= Asked + others
    BY <1>1
  <2> QED BY <2>1 DEF Counted
<1>5. KindsKept /\ AddsKnown /\ MessagesApart /\ AnswersApart
  BY <1>3 DEF KindsKept, AddsKnown, MessagesApart, AnswersApart, Known, Apart, Added, Kinds
<1> QED BY <1>2, <1>3, <1>4, <1>5 DEF IInv

LEMMA NextInvariant == IInv /\ [Next]_vars => IInv'
<1> SUFFICES ASSUME IInv, [Next]_vars PROVE IInv'
  OBVIOUS
<1>1. CASE UNCHANGED vars
  <2>1. UNCHANGED <<call, waitFor, answer, requests, messages, handled, cleared, nodes,
                    created, others, own, returned>>
    BY <1>1 DEF vars, handler, server
  <2>2. (TypeOK /\ Numbered /\ OwnMatches /\ Awaited /\ NoAnswerIsMissed /\ Counted)'
    BY <2>1 DEF IInv, TypeOK, Numbered, OwnMatches, Matches, Awaited, NoAnswerIsMissed,
                Counted, Asked
  <2>3. (KindsKept /\ AddsKnown /\ MessagesApart /\ AnswersApart)'
    BY <2>1 DEF IInv, KindsKept, AddsKnown, MessagesApart, AnswersApart, Known, Apart, Added,
                Calls
  <2> QED BY <2>2, <2>3 DEF IInv
<1>2. CASE Next
  BY <1>2, BeginStep, EndStep, OnMessageStep, ClearStep, KeepStep, OtherAsksStep, ServeStep
     DEF Next
<1> QED BY <1>1, <1>2

\* Whatever the other clients ask, the invariant holds in every reachable state.
THEOREM Invariance == Spec => []IInv
<1>1. IInv /\ [Next]_vars => IInv'
  BY NextInvariant
<1> QED BY <1>1, InitInvariant, PTL DEF Spec

\* Every variable keeps its type, for any number of calls and other clients.
THEOREM TypeCorrect == Spec => []TypeOK
<1>1. IInv => TypeOK
  BY DEF IInv
<1> QED BY <1>1, Invariance, PTL

\* A call whose own answer has been handled has an answer: comparing and
\* deleting without the lock of the condition (pipeline.py:380) loses none.
THEOREM NoneIsMissed == Spec => []NoAnswerIsMissed
<1>1. IInv => NoAnswerIsMissed
  BY DEF IInv
<1> QED BY <1>1, Invariance, PTL

\* No two calls of addSynchronous (pipeline.py:284) return one node, though
\* the answers to calls that timed out come to later ones.
THEOREM NodesAreDistinct == Spec => []AddsReturnDistinctNodes
<1>1. IInv => AddsReturnDistinctNodes
  BY DEF IInv, KindsKept, AnswersApart, Apart, Added, AddsReturnDistinctNodes, Succeeded
<1> QED BY <1>1, Invariance, PTL

-----------------------------------------------------------------------------
(* Calls in time *)

\* No call of the kind k has timed out so far.
Timely(k) == \A d \in Calls : returned[d].request.kind = k => returned[d].answer # None
Undecided(k) == call # None /\ call.kind = k /\ answer[k] = None

\* Then what is waited for, what is handled and what was kept all belong to the
\* call under way: no call before it has left anything behind.
Undisturbed(k) ==
    /\ waitFor[k] # None => Undecided(k) /\ waitFor[k] = call.key
    /\ handled # None /\ handled.kind = k =>
          Undecided(k) /\ handled.key = call.key /\ (cleared => waitFor[k] = None)
    /\ call # None /\ call.kind = k /\ answer[k] # None => answer[k].key = call.key

TimelyInv ==
    /\ \A k \in Kinds : Timely(k) => Undisturbed(k)
    /\ TimelyCallsAreAnswered

\* Steps other than the end of a call leave what has returned.
LEMMA TimelyStays ==
    ASSUME TimelyInv, returned' = returned,
           \A k \in Kinds : Timely(k) /\ Undisturbed(k) => Undisturbed(k)'
    PROVE  TimelyInv'
  BY DEF TimelyInv, Timely, TimelyCallsAreAnswered, Calls

LEMMA BeginIsTimely ==
    ASSUME IInv, TimelyInv, NEW k \in Kinds, NEW key \in Thinkable[k], Begin(k, key)
    PROVE  TimelyInv'
<1>1. /\ call = None /\ call' = [kind |-> k, key |-> key, nr |-> Len(returned) + 1]
      /\ answer' = [answer EXCEPT ![k] = None] /\ waitFor' = [waitFor EXCEPT ![k] = key]
      /\ UNCHANGED <<handled, cleared, returned>>
  BY DEF Begin, handler
<1>2. call' # None /\ call'.kind = k /\ call'.key = key
  <2>1. call' \in Request
    <3>1. key \in Keys[k]
      BY ThinkableFacts DEF IInv, TypeOK
    <3>2. Len(returned) + 1 \in 0..MaxCalls
      BY ClientAssumption DEF Begin, IInv, TypeOK
    <3> QED BY <1>1, <3>1, <3>2, RequestType
  <2> QED BY <1>1, <2>1, RequestFacts
<1>3. /\ answer'[k] = None /\ waitFor'[k] = key
      /\ \A j \in Kinds : j # k => answer'[j] = answer[j] /\ waitFor'[j] = waitFor[j]
  BY <1>1 DEF IInv, TypeOK
<1>4. ASSUME NEW j \in Kinds, Undisturbed(j) PROVE Undisturbed(j)'
  <2>1. waitFor[j] = None /\ ~(handled # None /\ handled.kind = j)
    BY <1>1, <1>4 DEF Undisturbed, Undecided
  <2> QED BY <1>1, <1>2, <1>3, <2>1 DEF Undisturbed, Undecided
<1> QED BY <1>1, <1>4, TimelyStays

\* A call that has its answer when it returns leaves nothing behind.
LEMMA EndIsTimely ==
    ASSUME IInv, TimelyInv, End
    PROVE  TimelyInv'
<1> DEFINE n == Len(returned) + 1
           t == [request |-> call, answer |-> answer[call.kind]]
<1>1. /\ call # None /\ call' = None /\ returned' = Append(returned, t)
      /\ UNCHANGED <<waitFor, answer, handled, cleared>>
  BY DEF End, handler
<1>2. call \in Request /\ call.kind \in Kinds /\ returned \in Seq(Taken)
  BY <1>1, RequestFacts DEF IInv, TypeOK
<1>3. t \in Taken /\ t.request = call /\ t.answer = answer[call.kind]
  BY <1>2 DEF IInv, TypeOK, Taken
<1> HIDE DEF t
<1>4. /\ Calls' = Calls \cup {n} /\ n \notin Calls
      /\ \A c \in Calls : returned'[c] = returned[c]
      /\ returned'[n] = t
  BY <1>1, <1>2, <1>3, AppendFacts DEF Calls
<1>5. \A k \in Kinds : Timely(k)' => Timely(k) /\ (call.kind = k => answer[k] # None)
  BY <1>3, <1>4 DEF Timely
<1>6. ASSUME NEW k \in Kinds, Timely(k)' PROVE Undisturbed(k)'
  <2>1. Undisturbed(k) /\ ~Undecided(k)
    BY <1>5, <1>6 DEF TimelyInv, Undecided
  <2> QED BY <1>1, <2>1 DEF Undisturbed
<1>7. TimelyCallsAreAnswered'
  <2> SUFFICES ASSUME NEW c \in Calls',
                      \A d \in 1..c : returned'[d].request.kind = returned'[c].request.kind
                            => returned'[d].answer # None
               PROVE  returned'[c].answer.key = returned'[c].request.key
    BY DEF TimelyCallsAreAnswered
  <2>1. c \in Nat /\ n \in Nat /\ Calls = 1..(n - 1) /\ c \in 1..n
    BY <1>2, <1>4 DEF Calls
  <2>2. CASE c \in Calls
    <3>1. \A d \in 1..c : d \in Calls
      BY <2>1, <2>2
    <3>2. \A d \in 1..c : returned'[d] = returned[d]
      BY <1>4, <3>1
    <3>3. returned'[c] = returned[c]
      BY <1>4, <2>2
    <3> QED BY <2>2, <3>2, <3>3 DEF TimelyInv, TimelyCallsAreAnswered
  <2>3. CASE c = n
    <3>1. \A k \in Kinds : k = call.kind => Timely(k)'
      <4>1. Calls' = 1..c /\ returned'[c].request.kind = call.kind
        BY <1>3, <1>4, <2>1, <2>3
      <4> QED BY <4>1 DEF Timely
    <3>2. Timely(call.kind) /\ answer[call.kind] # None
      BY <1>2, <1>5, <3>1
    <3>3. answer[call.kind].key = call.key
      BY <1>1, <1>2, <3>2 DEF TimelyInv, Undisturbed
    <3> QED BY <1>3, <1>4, <2>3, <3>3
  <2> QED BY <1>4, <2>2, <2>3
<1> QED BY <1>6, <1>7 DEF TimelyInv

LEMMA OnMessageIsTimely ==
    ASSUME IInv, TimelyInv, OnMessage
    PROVE  TimelyInv'
<1> DEFINE m == Head(messages)
<1>1. /\ handled = None /\ messages # <<>>
      /\ handled' = (IF waitFor[m.kind] = m.key THEN m ELSE None)
      /\ UNCHANGED <<call, waitFor, answer, cleared, returned>>
  BY DEF OnMessage, Idle, Compare
<1>2. m \in Message
  BY <1>1, TailFacts DEF IInv, TypeOK
<1>3. m.kind \in Kinds /\ m.key # None /\ ~cleared
  BY <1>1, <1>2, MessageFacts, NoneAssumption DEF IInv, Awaited
<1> HIDE DEF m
<1>4. ASSUME NEW k \in Kinds, Undisturbed(k) PROVE Undisturbed(k)'
  BY <1>1, <1>3, <1>4 DEF Undisturbed, Undecided
<1> QED BY <1>1, <1>4, TimelyStays

LEMMA ClearIsTimely ==
    ASSUME IInv, TimelyInv, Clear
    PROVE  TimelyInv'
<1>1. /\ handled # None /\ ~cleared /\ cleared' = TRUE
      /\ waitFor' = [waitFor EXCEPT ![handled.kind] = None]
      /\ UNCHANGED <<call, answer, handled, returned>>
  BY DEF Clear, Idle
<1>2. \A k \in Kinds : waitFor'[k] = IF k = handled.kind THEN None ELSE waitFor[k]
  BY <1>1 DEF IInv, TypeOK
<1>3. ASSUME NEW k \in Kinds, Undisturbed(k) PROVE Undisturbed(k)'
  BY <1>1, <1>2, <1>3 DEF Undisturbed, Undecided
<1> QED BY <1>1, <1>3, TimelyStays

LEMMA KeepIsTimely ==
    ASSUME IInv, TimelyInv, Keep
    PROVE  TimelyInv'
<1>1. /\ cleared /\ answer' = [answer EXCEPT ![handled.kind] = handled]
      /\ handled' = None /\ cleared' = FALSE
      /\ UNCHANGED <<call, waitFor, returned>>
  BY DEF Keep
<1>2. handled # None
  BY <1>1 DEF IInv, Awaited
<1>3. \A k \in Kinds : answer'[k] = IF k = handled.kind THEN handled ELSE answer[k]
  BY <1>1 DEF IInv, TypeOK
<1>4. ASSUME NEW k \in Kinds, Undisturbed(k) PROVE Undisturbed(k)'
  BY <1>1, <1>2, <1>3, <1>4 DEF Undisturbed, Undecided
<1> QED BY <1>1, <1>4, TimelyStays

LEMMA NextIsTimely == IInv /\ TimelyInv /\ [Next]_vars => TimelyInv'
<1> SUFFICES ASSUME IInv, TimelyInv, [Next]_vars PROVE TimelyInv'
  OBVIOUS
<1>1. ASSUME UNCHANGED <<call, waitFor, answer, handled, cleared, returned>> PROVE TimelyInv'
  BY <1>1, TimelyStays DEF Undisturbed, Undecided
<1>2. CASE UNCHANGED vars
  BY <1>1, <1>2 DEF vars, handler
<1>3. CASE Serve
  BY <1>1, <1>3 DEF Serve, handler
<1>4. ASSUME NEW k \in Kinds, NEW key \in Thinkable[k], OtherAsks(k, key) PROVE TimelyInv'
  BY <1>1, <1>4 DEF OtherAsks, handler
<1> QED BY <1>2, <1>3, <1>4, BeginIsTimely, EndIsTimely, OnMessageIsTimely, ClearIsTimely,
           KeepIsTimely DEF Next

LEMMA InitIsTimely == Init => TimelyInv
<1> SUFFICES ASSUME Init PROVE TimelyInv
  OBVIOUS
<1>1. call = None /\ handled = None /\ \A k \in Kinds : waitFor[k] = None
  BY DEF Init
<1>2. Calls = {}
  BY DEF Init, Calls
<1> QED BY <1>1, <1>2 DEF TimelyInv, Timely, Undisturbed, Undecided, TimelyCallsAreAnswered

\* As long as no call of its kind has timed out, each call takes an answer to
\* what it asked: pipeline.py:380 compares before it takes the lock, but no
\* message is then compared with what another call waits for.
THEOREM TimelyCallsGetTheirAnswers == Spec => []TimelyCallsAreAnswered
<1>1. TimelyInv => TimelyCallsAreAnswered
  BY DEF TimelyInv
<1> QED BY <1>1, InitIsTimely, NextIsTimely, Invariance, PTL DEF Spec

-----------------------------------------------------------------------------
(* Nodes that were removed *)

\* An answer to a removal, whoever asked for it, is about a node that is gone.
Gone(m) == m # None /\ m.kind = "remove" => m.key \in created \ nodes
GoneInv ==
    /\ \A i \in DOMAIN messages : Gone(messages[i])
    /\ Gone(handled) /\ Gone(answer["remove"])
    /\ \A c \in Calls : Gone(returned[c].answer)

\* RemovedIsGone, for the calls before which no removal has timed out.
RemovedInTimeIsGone ==
    \A c \in Calls :
        /\ Succeeded(c, "remove")
        /\ \A d \in 1..c : returned[d].request.kind = "remove" => returned[d].answer # None
        => returned[c].request.key \notin nodes

\* Ids are not given out again.
LEMMA ServeKeepsGone ==
    ASSUME IInv, GoneInv, Serve
    PROVE  /\ created \subseteq created' /\ nodes' \cap created \subseteq nodes
           /\ (\A i \in DOMAIN messages : Gone(messages[i]))'
<1> DEFINE r == Head(requests)
<1>1. requests # <<>> /\ r \in Request /\ messages \in Seq(Message) /\ nodes \subseteq created
  BY TailFacts DEF Serve, IInv, TypeOK
<1>2. /\ created \subseteq created' /\ nodes' \cap created \subseteq nodes
      /\ \/ UNCHANGED messages
         \/ r.kind # "remove" /\ \E id \in NodeId : Answered(r, id)
         \/ r.key \in created \ nodes' /\ \E id \in NodeId : Answered(r, id)
  <2> HIDE DEF r
  <2>0. created \subseteq NodeId /\ 0 \in NodeId
    BY ClientAssumption DEF IInv, TypeOK, NodeId
  <2>1. CASE r.kind = "add" /\ Add(r)
    <3>1. CASE r.key \notin Creatable
      BY <2>0, <2>1, <3>1 DEF Add, Answer, Answered, server
    <3>2. CASE r.key \in Creatable
      <4>1. PICK x : nodes' = nodes \cup {x} /\ created' = created \cup {x}
        BY <2>1, <3>2 DEF Add
      <4>2. \E id \in NodeId : Answered(r, id) /\ (UNCHANGED created => UNCHANGED nodes)
        <5>1. CASE Answered(r, 0) /\ UNCHANGED server
          BY <2>0, <5>1 DEF server
        <5>2. CASE \E id \in NodeId \ ({0} \cup created) : Answered(r, id) /\ created = 1..(id - 1) /\ created' = 1..id
          <6>1. PICK id \in NodeId \ ({0} \cup created) : Answered(r, id) /\ created' = 1..id
            BY <5>2
          <6>2. id \in created'
            BY <6>1, ClientAssumption DEF NodeId
          <6> QED BY <6>1, <6>2
        <5> QED BY <1>1, <2>1, <5>1, <5>2, AddFacts
      <4>3. x \in created => UNCHANGED nodes
        BY <4>1, <4>2
      <4> QED BY <2>1, <4>1, <4>2, <4>3
    <3> QED BY <3>1, <3>2
  <2>2. CASE r.kind = "remove" /\ Remove(r)
    BY <1>1, <2>0, <2>2 DEF Remove, Answer, Answered, server
  <2>3. CASE r.kind = "set" /\ SetParameter(r)
    <3>1. r.key \in NodeId
      BY <1>1, <2>3, RequestFacts DEF Keys
    <3> QED BY <2>3, <3>1 DEF SetParameter, Answer, Answered, server
  <2>4. CASE r.kind = "arc" /\ AddArc(r)
    <3>1. r.key[2] \in NodeId
      BY <1>1, <2>4, RequestFacts DEF Keys
    <3> QED BY <2>4, <3>1 DEF AddArc, Answer, Answered, server
  <2> QED BY <2>1, <2>2, <2>3, <2>4 DEF Serve, r
<1> DEFINE After(m) == m # None /\ m.kind = "remove" => m.key \in created' \ nodes'
<1>3. SUFFICES \A i \in DOMAIN messages' : After(messages'[i])
  BY <1>2 DEF Gone
<1>4. \A i \in DOMAIN messages : After(messages[i])
  BY <1>2 DEF GoneInv, Gone
<1>5. CASE UNCHANGED messages
  BY <1>4, <1>5
<1>6. CASE /\ \E id \in NodeId : Answered(r, id)
           /\ r.kind # "remove" \/ r.key \in created \ nodes'
  <2>1. PICK id \in NodeId : Answered(r, id)
    BY <1>6
  <2> DEFINE m == [kind |-> r.kind, key |-> r.key, nr |-> r.nr, id |-> id]
  <2>2. m \in Message /\ m.kind = r.kind /\ m.key = r.key
    BY <1>1, <2>1, RequestFacts, MessageType
  <2>3. messages' = Append(messages, m)
    BY <2>1 DEF Answered
  <2> HIDE DEF m, r
  <2>4. \A i \in DOMAIN messages' : (i \in DOMAIN messages /\ messages'[i] = messages[i]) \/ messages'[i] = m
    BY <1>1, <2>2, <2>3, AppendFacts
  <2>5. After(m)
    BY <1>2, <1>6, <2>2
  <2> QED BY <1>4, <2>4, <2>5
<1> QED BY <1>2, <1>5, <1>6

LEMMA NextKeepsGone == IInv /\ GoneInv /\ [Next]_vars => GoneInv'
<1> SUFFICES ASSUME IInv, GoneInv, [Next]_vars PROVE GoneInv'
  OBVIOUS
<1>0. "remove" \in Kinds /\ answer \in [Kinds -> Message \cup {None}]
  BY DEF Kinds, IInv, TypeOK
<1>2. CASE Serve
  <2>1. UNCHANGED <<handled, answer, returned>>
    BY <1>2 DEF Serve, handler
  <2>2. /\ created \subseteq created' /\ nodes' \cap created \subseteq nodes
        /\ (\A i \in DOMAIN messages : Gone(messages[i]))'
    BY <1>2, ServeKeepsGone
  <2>3. Gone(handled)' /\ Gone(answer["remove"])'
    BY <2>1, <2>2 DEF GoneInv, Gone
  <2>4. (\A c \in Calls : Gone(returned[c].answer))'
    BY <2>1, <2>2 DEF GoneInv, Gone, Calls
  <2> QED BY <2>2, <2>3, <2>4 DEF GoneInv
<1>3. CASE End
  <2> DEFINE e == [request |-> call, answer |-> answer[call.kind]]
  <2>1. call \in Request /\ answer[call.kind] \in Message \cup {None}
    BY <1>3, RequestFacts DEF End, IInv, TypeOK
  <2>2. Gone(answer[call.kind])
    <3>1. answer[call.kind] # None => answer[call.kind].kind = call.kind
      BY <2>1, RequestFacts DEF IInv, KindsKept
    <3> QED BY <3>1 DEF GoneInv, Gone
  <2>3. /\ returned' = Append(returned, e) /\ e \in Taken /\ e.answer = answer[call.kind]
        /\ UNCHANGED <<answer, messages, handled, nodes, created>>
    BY <1>3, <2>1 DEF End, Taken, handler, server
  <2> HIDE DEF e
  <2>4. \A c \in Calls' : Gone(returned'[c].answer)
    <3>1. returned \in Seq(Taken)
      BY DEF IInv, TypeOK
    <3>2. \A c \in Calls' : (c \in Calls /\ returned'[c] = returned[c]) \/ returned'[c] = e
      BY <2>3, <3>1, AppendFacts DEF Calls
    <3> QED BY <2>2, <2>3, <3>2 DEF GoneInv
  <2> QED BY <2>3, <2>4 DEF GoneInv, Gone, Calls
<1>4. CASE OnMessage
  <2>1. /\ messages # <<>> /\ messages' = Tail(messages) /\ handled' \in {Head(messages), None}
        /\ UNCHANGED <<answer, returned, nodes, created>>
    BY <1>4 DEF OnMessage, Compare, server
  <2>2. messages \in Seq(Message)
    BY DEF IInv, TypeOK
  <2>3. /\ Gone(Head(messages))
        /\ \A i \in DOMAIN messages' : Gone(messages'[i])
    BY <2>1, <2>2, TailFacts DEF GoneInv
  <2>4. Gone(handled)'
    BY <2>1, <2>3 DEF Gone
  <2> QED BY <2>1, <2>3, <2>4 DEF GoneInv, Gone, Calls
<1>5. CASE Keep
  <2>1. /\ answer'["remove"] \in {answer["remove"], handled} /\ handled' = None
        /\ UNCHANGED <<messages, returned, nodes, created>>
    BY <1>0, <1>5 DEF Keep, server
  <2> QED BY <2>1 DEF GoneInv, Gone, Calls
<1>6. ASSUME NEW k \in Kinds, NEW key \in Thinkable[k], Begin(k, key) PROVE GoneInv'
  <2>1. /\ answer'["remove"] \in {answer["remove"], None}
        /\ UNCHANGED <<messages, handled, returned, nodes, created>>
    BY <1>0, <1>6 DEF Begin, server, handler
  <2> QED BY <2>1 DEF GoneInv, Gone, Calls
<1>7. CASE Clear \/ UNCHANGED vars \/ \E k \in Kinds : \E key \in Thinkable[k] : OtherAsks(k, key)
  <2>1. UNCHANGED <<answer, messages, handled, returned, nodes, created>>
    BY <1>7 DEF Clear, OtherAsks, vars, server, handler
  <2> QED BY <2>1 DEF GoneInv, Gone, Calls
<1> QED BY <1>2, <1>3, <1>4, <1>5, <1>6, <1>7 DEF Next

\* What pipeline.py:302 says of removeSynchronous is true as long as no removal has
\* timed out: the node is gone when the call returns, and stays so.
THEOREM TimelyRemovalsAreDone == Spec => []RemovedInTimeIsGone
<1>1. Init => GoneInv
  <2>1. Init => messages = <<>> /\ returned = <<>> /\ handled = None /\ answer["remove"] = None
    BY DEF Init, Kinds
  <2> QED BY <2>1 DEF GoneInv, Gone, Calls
<1>2. GoneInv /\ KindsKept /\ TimelyCallsAreAnswered => RemovedInTimeIsGone
  BY DEF GoneInv, Gone, KindsKept, TimelyCallsAreAnswered, RemovedInTimeIsGone, Succeeded
<1>3. IInv => KindsKept
  BY DEF IInv
<1> QED BY <1>1, <1>2, <1>3, NextKeepsGone, Invariance, TimelyCallsGetTheirAnswers, PTL DEF Spec
=============================================================================
