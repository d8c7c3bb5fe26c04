------------------------------ MODULE Mailbox ------------------------------
(***************************************************************************)
(* How the nodes of one vehicle find each other, and how a node learns     *)
(* that its subscriptions have reached the others                          *)
(* (common/zeromq/zeromq_mailbox.cpp).                                     *)
(*                                                                         *)
(* There is no server.  A node binds a socket file, reads the directory of *)
(* these files, connects its publishing socket to each file whose process  *)
(* lives, and sends each a connect message as soon as the subscriptions of *)
(* its pid come over the connection; the other connects back.  All else is *)
(* subscriptions: that of a node's pid identifies it, that of a special    *)
(* marker asks for a confirmation.                                         *)
(*                                                                         *)
(* A node is one process: one that is started again is another node, with  *)
(* another pid.  The sockets belong to libxs, outside the repository: a    *)
(* subscriber's filters come to a publisher in the order in which they     *)
(* were set, at any later time, once however many connections lead there;  *)
(* a publisher is told of the first subscription and of the last           *)
(* cancellation of a topic.  What a node reads next is what has come,      *)
(* so the order of priorities in doMonitoring decides nothing here.        *)
(*                                                                         *)
(* A definition named Defect... is not the code: it is what a bug would    *)
(* make of the definition after it, to show that a property can fail.      *)
(***************************************************************************)
EXTENDS Naturals, Sequences

CONSTANTS
    Node,       \* the processes, by pid
    Topic,      \* message ids
    Mortal,     \* the nodes that may end or be killed
    Replaces,   \* the nodes that have ended when a node is started (a restart)
    Calls       \* what the program in each node asks of its mailbox, in order

ASSUME MailboxAssumption ==
    /\ Mortal \subseteq Node
    /\ Replaces \in [Node -> SUBSET Mortal]
    /\ Calls \in [Node -> Seq([op : {"sub", "unsub"}, t : Topic])]

VARIABLES
    phase,          \* of each node: see Phases
    files,          \* the nodes whose socket files are in the directory
    unread,         \* the files that a node's readdir has still to return
    found,          \* the nodes that a node connected to when it read the directory
    toInvite,       \* send_connect_pids: those it has still to send a connect message
    invited,        \* the connect messages on their way to a node, for each sender
    accepted,       \* those it has connected for: found and accepted make up connections
    called,         \* how many of the Calls have been handled
    subscriptions,  \* how often a node subscribes to each topic
    filters,        \* what has been set on its subscribing socket, in order
    heard,          \* how many filters of the second node have come to the first
    publications,   \* the topics a node knows to have subscribers
    replies,        \* the confirmations on their way to a node
    confirmed       \* history: the <<node, topic>> whose onSubscribed a node was called with

links == <<found, toInvite, invited, accepted>>
topics == <<called, subscriptions, filters>>
vars == <<phase, files, unread, links, topics, heard, publications, replies, confirmed>>

\* "up" covers the 200 ms at most in which doMonitoring holds back messages.
Phases == {"none", "bound", "scanning", "up", "dead"}
Alive(n) == phase[n] \notin {"none", "dead"}
Monitoring(n) == phase[n] = "up"

\* Each connection of n to m brings every message of n to m once.
Connections(n, m) == accepted[n][m] + (IF m \in found[n] THEN 1 ELSE 0)

-----------------------------------------------------------------------------
(* The constructor *)

\* The node's own socket.  A directory that is just being read may or may not
\* show the new file.
Bind(n) ==
    /\ phase[n] = "none"
    /\ \A m \in Replaces[n] : phase[m] = "dead"
    /\ phase' = [phase EXCEPT ![n] = "bound"]
    /\ files' = files \cup {n}
    /\ filters' = [filters EXCEPT ![n] = Append(@, [op |-> "node"])]
    /\ \E S \in SUBSET {r \in Node : phase[r] = "scanning"} :
         unread' = [r \in Node |-> IF r \in S THEN unread[r] \cup {n} ELSE unread[r]]
    /\ UNCHANGED <<links, called, subscriptions, heard, publications, replies, confirmed>>

OpenDir(n) ==
    /\ phase[n] = "bound"
    /\ phase' = [phase EXCEPT ![n] = "scanning"]
    /\ unread' = [unread EXCEPT ![n] = files \ {n}]
    /\ UNCHANGED <<files, links, topics, heard, publications, replies, confirmed>>

DefectIsOrphan(f) == phase[f] # "up"
IsOrphan(f) == ~Alive(f)

\* A file whose process does not exist is unlinked, any other is connected to.
Scan(n, f) ==
    /\ phase[n] = "scanning"
    /\ f \in unread[n]
    /\ unread' = [unread EXCEPT ![n] = @ \ {f}]
    /\ IF IsOrphan(f)
       THEN files' = files \ {f} /\ UNCHANGED links
       ELSE /\ found' = [found EXCEPT ![n] = @ \cup {f}]
            /\ toInvite' = [toInvite EXCEPT ![n] = @ \cup {f}]
            /\ UNCHANGED <<files, invited, accepted>>
    /\ UNCHANGED <<phase, topics, heard, publications, replies, confirmed>>

ScanEnds(n) ==
    /\ phase[n] = "scanning"
    /\ unread[n] = {}
    /\ phase' = [phase EXCEPT ![n] = "up"]
    /\ UNCHANGED <<files, unread, links, topics, heard, publications, replies, confirmed>>

-----------------------------------------------------------------------------
(* Filters of m that come to n: handle_pub_message *)

Wants(n, m, t) ==
    \E i \in 1..heard[n][m] :
        /\ filters[m][i] = [op |-> "sub", t |-> t]
        /\ \A j \in (i + 1)..heard[n][m] : filters[m][j] # [op |-> "unsub", t |-> t]

WantedByOther(n, m, t) == \E o \in Node \ {m} : Wants(n, o, t)

DefectInvites(n, m) == TRUE
Invites(n, m) == m \in toInvite[n]

DefectInvite(n, m) == UNCHANGED <<toInvite, invited>>

\* A connect message for m, over each connection that is up by now.
Invite(n, m) ==
    IF Invites(n, m)
    THEN /\ toInvite' = [toInvite EXCEPT ![n] = @ \ {m}]
         /\ \E k \in 1..Connections(n, m) : invited' = [invited EXCEPT ![m][n] = @ + k]
    ELSE UNCHANGED <<toInvite, invited>>

DefectConfirm(n, m, t) == replies' = [replies EXCEPT ![m] = {<<n, t>>}]
Confirm(n, m, t) == replies' = [replies EXCEPT ![m] = @ \cup {<<n, t>>}]

HandlePub(n, m) ==
    /\ Monitoring(n)
    /\ Alive(m)
    /\ Connections(n, m) > 0
    /\ heard[n][m] < Len(filters[m])
    /\ heard' = [heard EXCEPT ![n][m] = @ + 1]
    /\ LET e == filters[m][heard[n][m] + 1] IN
        \/ /\ e.op = "node"
           /\ Invite(n, m)
           /\ UNCHANGED <<publications, replies>>
        \/ /\ e.op = "sub"
           /\ publications' = [publications EXCEPT ![n] = @ \cup {e.t}]
           /\ UNCHANGED <<toInvite, invited, replies>>
        \/ /\ e.op = "unsub"
           /\ publications' = [publications EXCEPT
                                  ![n] = IF WantedByOther(n, m, e.t) THEN @ ELSE @ \ {e.t}]
           /\ UNCHANGED <<toInvite, invited, replies>>
        \/ /\ e.op = "confirm"
           /\ Confirm(n, m, e.t)
           /\ UNCHANGED <<toInvite, invited, publications>>
    /\ UNCHANGED <<phase, files, unread, found, accepted, topics, confirmed>>

\* The connections to a node that has ended break.
ConnectionBreaks(n, m) ==
    /\ Monitoring(n)
    /\ phase[m] = "dead"
    /\ heard[n][m] > 0
    /\ heard' = [heard EXCEPT ![n][m] = 0]
    /\ publications' = [publications EXCEPT
                           ![n] = {t \in @ : Wants(n, m, t) => WantedByOther(n, m, t)}]
    /\ UNCHANGED <<phase, files, unread, links, topics, replies, confirmed>>

-----------------------------------------------------------------------------
(* Messages that come to n: handle_sub_message *)

DefectHandleInvitation(n, m) ==
    /\ Monitoring(n)
    /\ invited[n][m] > 0
    /\ invited' = [invited EXCEPT ![n][m] = @ - 1]
    /\ accepted' = [accepted EXCEPT ![n][m] = @ + 1]
    /\ toInvite' = [toInvite EXCEPT ![n] = @ \cup {m}]
    /\ UNCHANGED <<phase, files, unread, found, topics, heard, publications, replies, confirmed>>

\* The new connection is made without a look at connections.
HandleInvitation(n, m) ==
    /\ Monitoring(n)
    /\ invited[n][m] > 0
    /\ invited' = [invited EXCEPT ![n][m] = @ - 1]
    /\ accepted' = [accepted EXCEPT ![n][m] = @ + 1]
    /\ UNCHANGED <<phase, files, unread, found, toInvite, topics, heard, publications, replies, confirmed>>

HandleConfirmation(n, r) ==
    /\ Monitoring(n)
    /\ r \in replies[n]
    /\ replies' = [replies EXCEPT ![n] = @ \ {r}]
    /\ confirmed' = [confirmed EXCEPT ![n] = @ \cup {r}]
    /\ UNCHANGED <<phase, files, unread, links, topics, heard, publications>>

-----------------------------------------------------------------------------
(* The node's own subscriptions: handle_subscription_message *)

DefectNewFilters(s, t) == Append(Append(s, [op |-> "confirm", t |-> t]), [op |-> "sub", t |-> t])
NewFilters(s, t) == Append(Append(s, [op |-> "sub", t |-> t]), [op |-> "confirm", t |-> t])

\* The filter of a confirmation is never taken back, and set again it is not
\* sent again.
Asked(n, t) == \E i \in 1..Len(filters[n]) : filters[n][i] = [op |-> "confirm", t |-> t]

Subscribe(n, t) ==
    /\ subscriptions' = [subscriptions EXCEPT ![n][t] = @ + 1]
    /\ filters' = [filters EXCEPT ![n] =
                     IF subscriptions[n][t] > 0 THEN @
                     ELSE IF Asked(n, t) THEN Append(@, [op |-> "sub", t |-> t])
                     ELSE NewFilters(@, t)]

Unsubscribe(n, t) ==
    /\ subscriptions' = [subscriptions EXCEPT ![n][t] = IF @ > 0 THEN @ - 1 ELSE 0]
    /\ filters' = [filters EXCEPT ![n] =
                     IF subscriptions[n][t] = 1 THEN Append(@, [op |-> "unsub", t |-> t]) ELSE @]

\* subMessage, joinGroup and leaveGroup subscribe, unSubMessage unsubscribes.
HandleSubscription(n) ==
    /\ Monitoring(n)
    /\ called[n] < Len(Calls[n])
    /\ called' = [called EXCEPT ![n] = @ + 1]
    /\ LET c == Calls[n][called[n] + 1] IN
        \/ c.op = "sub" /\ Subscribe(n, c.t)
        \/ c.op = "unsub" /\ Unsubscribe(n, c.t)
    /\ UNCHANGED <<phase, files, unread, links, heard, publications, replies, confirmed>>

\* The process ends, and leaves its file behind.
End(n) ==
    /\ n \in Mortal
    /\ Alive(n)
    /\ phase' = [phase EXCEPT ![n] = "dead"]
    /\ UNCHANGED <<files, unread, links, topics, heard, publications, replies, confirmed>>

-----------------------------------------------------------------------------
Init ==
    /\ phase = [n \in Node |-> "none"]
    /\ files = {}
    /\ unread = [n \in Node |-> {}]
    /\ found = [n \in Node |-> {}]
    /\ toInvite = [n \in Node |-> {}]
    /\ invited = [n \in Node |-> [m \in Node |-> 0]]
    /\ accepted = [n \in Node |-> [m \in Node |-> 0]]
    /\ called = [n \in Node |-> 0]
    /\ subscriptions = [n \in Node |-> [t \in Topic |-> 0]]
    /\ filters = [n \in Node |-> <<>>]
    /\ heard = [n \in Node |-> [m \in Node |-> 0]]
    /\ publications = [n \in Node |-> {}]
    /\ replies = [n \in Node |-> {}]
    /\ confirmed = [n \in Node |-> {}]

\* What the thread of doMonitoring does, from the constructor on.
Thread(n) ==
    \/ OpenDir(n) \/ ScanEnds(n) \/ HandleSubscription(n)
    \/ \E m \in Node : Scan(n, m) \/ HandlePub(n, m) \/ ConnectionBreaks(n, m) \/ HandleInvitation(n, m)
    \/ \E r \in replies[n] : HandleConfirmation(n, r)

Next == \E n \in Node : Bind(n) \/ End(n) \/ Thread(n)

Spec == Init /\ [][Next]_vars

\* The threads run and the sockets deliver.  Nobody has to start a node, and
\* none has to end.
FairSpec == Spec /\ \A n \in Node : WF_vars(Thread(n))

-----------------------------------------------------------------------------
(* Properties *)

Filter == [op : {"node"}] \cup [op : {"sub", "unsub", "confirm"}, t : Topic]

\* The type invariant.
TypeOK ==
    /\ phase \in [Node -> Phases]
    /\ files \subseteq Node
    /\ unread \in [Node -> SUBSET Node]
    /\ found \in [Node -> SUBSET Node]
    /\ toInvite \in [Node -> SUBSET Node]
    /\ invited \in [Node -> [Node -> Nat]]
    /\ accepted \in [Node -> [Node -> Nat]]
    /\ called \in [Node -> Nat]
    /\ subscriptions \in [Node -> [Topic -> Nat]]
    /\ filters \in [Node -> Seq(Filter)]
    /\ heard \in [Node -> [Node -> Nat]]
    /\ publications \in [Node -> SUBSET Topic]
    /\ replies \in [Node -> SUBSET (Node \X Topic)]
    /\ confirmed \in [Node -> SUBSET (Node \X Topic)]
    /\ \A n, m \in Node : heard[n][m] <= Len(filters[m])
    /\ \A n \in Node : toInvite[n] \subseteq found[n]

\* Of any two nodes that have read the directory, one has found the other:
\* each binds its socket before it reads, so they cannot both come too early.
\* Otherwise the two would never hear of each other.
ScansMeet ==
    \A n, m \in Node : n # m /\ Monitoring(n) /\ Monitoring(m) => n \in found[m] \/ m \in found[n]

\* A node that was told of the subscription to t by another (onSubscribed)
\* knows that it also gets what this one sends on each topic it subscribed to
\* before: gui/plugins/ai/plugin.cpp:68 relies on it ("LEAVE THIS ONE LAST!").
\* It holds of programs that never unsubscribe.
Stays(n) == \A i \in 1..Len(Calls[n]) : Calls[n][i].op = "sub"
FirstCall(n, i) == \A j \in 1..(i - 1) : Calls[n][j].t # Calls[n][i].t
ConfirmedInOrder ==
    \A n, m \in Node : \A i \in 1..called[m] :
        Stays(m) /\ FirstCall(m, i) /\ Alive(m) /\ <<n, Calls[m][i].t>> \in confirmed[m]
            => \A j \in 1..i : Calls[m][j].t \in publications[n]

\* A node connects to another twice only when both found each other, because
\* they read the directory at the same time.
DoubledOnlyIfBothFound ==
    \A n, m \in Node : Connections(n, m) > 1 => n \in found[m] /\ m \in found[n]

\* Each node is started once and ends once, so in the end none comes or goes:
\* then all that run are connected with each other in both directions.
NodesMeet ==
    <>[](\A n, m \in Node : n # m /\ Alive(n) /\ Alive(m) => Connections(n, m) > 0)

\* In the end, whatever a node subscribes to, each other node has confirmed.
SubscriptionsAreConfirmed ==
    <>[](\A n, m \in Node : n # m /\ Alive(n) /\ Alive(m) =>
            \A t \in Topic : subscriptions[n][t] > 0 => <<m, t>> \in confirmed[n])

\* zeromq_mailbox.h:81, of connections: "xs connections strings that this node
\* has connected to already".  No node connects to another a second time.
ConnectedOnce == \A n, m \in Node : Connections(n, m) <= 1
=============================================================================
