--------------------------- MODULE PipelineClient ---------------------------
(***************************************************************************)
(* A script that edits the image pipeline and waits for the answers        *)
(* (class Model of auv/scripting/cauv/pipeline.py).                        *)
(*                                                                         *)
(* A call writes down what it waits for, sends its request and sleeps on a *)
(* condition, up to a timeout.  The thread that brings messages compares   *)
(* each answer with what is waited for - without the lock of the condition *)
(* - then deletes that, then takes the lock, keeps the answer and wakes    *)
(* the caller.  Answers name no request: all clients get all of them, and  *)
(* those to a call that has timed out come all the same.                   *)
(*                                                                         *)
(* The caller is one thread.  The pipeline (img-pipeline/imageProcessor.cpp) *)
(* does one request after the other, at any time, and messages from it     *)
(* come in order; PipelineGraph tells what they do to it.  A timeout can   *)
(* come at any time, so that nothing depends on notify.                    *)
(*                                                                         *)
(* A definition named Defect... is not the code: it is what a bug would    *)
(* make of the definition after it, to show that a property can fail.      *)
(***************************************************************************)
EXTENDS Naturals, Sequences

CONSTANTS
    Type,       \* node types
    Creatable,  \* those that the pipeline has a class for
    None,
    MaxCalls,   \* bound: calls of this client
    MaxOthers   \* bound: requests of other clients

ASSUME ClientAssumption ==
    /\ Creatable \subseteq Type
    /\ MaxCalls \in Nat /\ MaxOthers \in Nat

VARIABLES
    call,       \* the request of the call that is under way, None between calls
    waitFor,    \* node_added_wait_for, node_removed_wait_for, ...
    answer,     \* node_added, node_removed, ...
    requests,   \* on their way to the pipeline
    messages,   \* on their way to the client
    handled,    \* the message that an on...Message has compared, or None
    cleared,    \* it has also deleted what was waited for
    nodes,      \* m_nodes
    created,    \* history: every node there ever was
    others,     \* how many requests other clients have made
    own,        \* history: the requests whose own answers an on...Message is done with
    returned    \* history: for each call that returned, its request and the answer it took

server == <<nodes, created>>
handler == <<handled, cleared>>
vars == <<call, waitFor, answer, requests, messages, handler, server, others, own, returned>>

\* addSynchronous, removeSynchronous, setParameterSynchronous, addArcSynchronous
Kinds == {"add", "remove", "set", "arc"}
NodeId == 0..(MaxCalls + MaxOthers)
Keys == [add |-> Type, remove |-> NodeId, set |-> NodeId, arc |-> NodeId \X NodeId]

Request == UNION {[kind : {k}, key : Keys[k], nr : 0..MaxCalls] : k \in Kinds}
Message == UNION {[kind : {k}, key : Keys[k], nr : 0..MaxCalls, id : NodeId] : k \in Kinds}

ASSUME NoneAssumption ==
    /\ None \notin Request \cup Message
    /\ \A k \in Kinds : None \notin Keys[k]

\* Requests of which a client may think: about nodes it has heard of.
Thinkable == [add |-> Type, remove |-> created, set |-> created,
              arc |-> {a \in created \X created : a[1] # a[2]}]

-----------------------------------------------------------------------------
(* The caller *)

DefectBegin(k, key) ==
    /\ call = None
    /\ Len(returned) < MaxCalls
    /\ call' = [kind |-> k, key |-> key, nr |-> Len(returned) + 1]
    /\ waitFor' = [waitFor EXCEPT ![k] = key]
    /\ requests' = Append(requests, call')
    /\ UNCHANGED <<answer, messages, handler, server, others, own, returned>>

\* From acquire to wait.  The handler's steps before and after the sending can
\* as well come before and after the whole.
Begin(k, key) ==
    /\ call = None
    /\ Len(returned) < MaxCalls
    /\ call' = [kind |-> k, key |-> key, nr |-> Len(returned) + 1]
    /\ answer' = [answer EXCEPT ![k] = None]
    /\ waitFor' = [waitFor EXCEPT ![k] = key]
    /\ requests' = Append(requests, call')
    /\ UNCHANGED <<messages, handler, server, others, own, returned>>

\* Woken, or tired of waiting: without an answer it raises a RuntimeError.
End ==
    /\ call # None
    /\ call' = None
    /\ returned' = Append(returned, [request |-> call, answer |-> answer[call.kind]])
    /\ UNCHANGED <<waitFor, answer, requests, messages, handler, server, others, own>>

-----------------------------------------------------------------------------
(* The thread that brings messages *)

Idle == handled = None

DefectCompare(m) ==
    /\ handled' = IF waitFor[m.kind] # None THEN m ELSE None
    /\ UNCHANGED waitFor

DefectClear ==
    /\ ~Idle /\ ~cleared
    /\ waitFor' = [k \in Kinds |-> None]
    /\ cleared' = TRUE
    /\ UNCHANGED <<call, answer, requests, messages, handled, server, others, own, returned>>

Compare(m) ==
    /\ handled' = IF waitFor[m.kind] = m.key THEN m ELSE None
    /\ UNCHANGED waitFor

\* An answer that does not match is dropped.
OnMessage ==
    /\ Idle
    /\ messages # <<>>
    /\ messages' = Tail(messages)
    /\ Compare(Head(messages))
    /\ own' = IF handled' = None THEN own \cup {Head(messages).nr} ELSE own
    /\ UNCHANGED <<call, answer, requests, cleared, server, others, returned>>

Clear ==
    /\ ~Idle /\ ~cleared
    /\ waitFor' = [waitFor EXCEPT ![handled.kind] = None]
    /\ cleared' = TRUE
    /\ UNCHANGED <<call, answer, requests, messages, handled, server, others, own, returned>>

\* acquire, the copy of the message, notify, release.
Keep ==
    /\ cleared
    /\ answer' = [answer EXCEPT ![handled.kind] = handled]
    /\ own' = own \cup {handled.nr}
    /\ handled' = None
    /\ cleared' = FALSE
    /\ UNCHANGED <<call, waitFor, requests, messages, server, others, returned>>

-----------------------------------------------------------------------------
(* The pipeline, and the other clients *)

\* nr 0: a request of another client.
OtherAsks(k, key) ==
    /\ others < MaxOthers
    /\ others' = others + 1
    /\ requests' = Append(requests, [kind |-> k, key |-> key, nr |-> 0])
    /\ UNCHANGED <<call, waitFor, answer, messages, handler, server, own, returned>>

Answer(r, id) == messages' = Append(messages, [kind |-> r.kind, key |-> r.key, nr |-> r.nr, id |-> id])

DefectAdd(r) ==
    LET id == CHOOSE i \in NodeId \ {0} : i \notin nodes IN
    /\ nodes' = nodes \cup {id}
    /\ Answer(r, id)
    /\ UNCHANGED created

\* onAddNodeMessage answers even when there is no such node type, with the id 0.
Add(r) ==
    IF r.key \in Creatable
    THEN LET id == CHOOSE i \in NodeId \ {0} : i \notin created /\ \A j \in 1..(i - 1) : j \in created IN
         /\ nodes' = nodes \cup {id}
         /\ created' = created \cup {id}
         /\ Answer(r, id)
    ELSE Answer(r, 0) /\ UNCHANGED server

\* An unknown node: an exception is caught, and nobody is answered.
Remove(r) ==
    IF r.key \in nodes
    THEN nodes' = nodes \ {r.key} /\ Answer(r, r.key) /\ UNCHANGED created
    ELSE UNCHANGED <<server, messages>>

SetParameter(r) ==
    /\ IF r.key \in nodes THEN Answer(r, r.key) ELSE UNCHANGED messages
    /\ UNCHANGED server

AddArc(r) ==
    /\ IF r.key[1] \in nodes /\ r.key[2] \in nodes THEN Answer(r, r.key[2]) ELSE UNCHANGED messages
    /\ UNCHANGED server

Serve ==
    /\ requests # <<>>
    /\ requests' = Tail(requests)
    /\ LET r == Head(requests) IN
        \/ r.kind = "add" /\ Add(r)
        \/ r.kind = "remove" /\ Remove(r)
        \/ r.kind = "set" /\ SetParameter(r)
        \/ r.kind = "arc" /\ AddArc(r)
    /\ UNCHANGED <<call, waitFor, answer, handler, others, own, returned>>

-----------------------------------------------------------------------------
Init ==
    /\ call = None
    /\ waitFor = [k \in Kinds |-> None]
    /\ answer = [k \in Kinds |-> None]
    /\ requests = <<>>
    /\ messages = <<>>
    /\ handled = None
    /\ cleared = FALSE
    /\ nodes = {}
    /\ created = {}
    /\ others = 0
    /\ own = {}
    /\ returned = <<>>

Next ==
    \/ \E k \in Kinds : \E key \in Thinkable[k] : Begin(k, key) \/ OtherAsks(k, key)
    \/ End \/ OnMessage \/ Clear \/ Keep \/ Serve

Spec == Init /\ [][Next]_vars

-----------------------------------------------------------------------------
(* Properties *)

Taken == [request : Request, answer : Message \cup {None}]

\* The type invariant.
TypeOK ==
    /\ call \in Request \cup {None}
    /\ waitFor = [k \in Kinds |-> waitFor[k]]
    /\ \A k \in Kinds : waitFor[k] # None => waitFor[k] \in Keys[k]
    /\ answer \in [Kinds -> Message \cup {None}]
    /\ requests \in Seq(Request)
    /\ messages \in Seq(Message)
    /\ handled \in Message \cup {None}
    /\ cleared \in BOOLEAN
    /\ nodes \subseteq created
    /\ created \subseteq NodeId \ {0}
    /\ others \in 0..MaxOthers
    /\ own \subseteq 0..MaxCalls
    /\ returned \in Seq(Taken)

Calls == 1..Len(returned)
Succeeded(c, k) == returned[c].request.kind = k /\ returned[c].answer # None

\* However late the answers of calls that timed out come, no two calls of
\* addSynchronous return the same node: a retry never shares its node with
\* the call before.
AddsReturnDistinctNodes ==
    \A c, d \in Calls : c # d /\ Succeeded(c, "add") /\ Succeeded(d, "add")
        => returned[c].answer.id # returned[d].answer.id \/ returned[c].answer.id = 0

\* As long as no call has timed out, each takes an answer to what it asked,
\* although the handler compares before it takes the lock.
TimelyCallsAreAnswered ==
    \A c \in Calls : LET k == returned[c].request.kind IN
        (\A d \in 1..c : returned[d].request.kind = k => returned[d].answer # None)
            => returned[c].answer.key = returned[c].request.key

\* A call whose own answer has been handled never raises: that the handler
\* compares and deletes without the lock loses no answer, although it may
\* delete what a later call waits for.
NoAnswerIsMissed ==
    call # None /\ call.nr \in own => answer[call.kind] # None

\* pipeline.py:302, of removeSynchronous: "Remove a node, wait for it to be
\* removed. Raises a RuntimeError if a timeout occurs."
RemovedIsGone ==
    \A c \in Calls : Succeeded(c, "remove") => returned[c].request.key \notin nodes
=============================================================================
