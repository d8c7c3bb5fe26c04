--------------------------- MODULE Mailbox_proofs ---------------------------
(***************************************************************************)
(* Proofs about Mailbox, for any nodes, any topics, and programs that ask  *)
(* for anything.                                                           *)
(***************************************************************************)
EXTENDS Mailbox, TLAPS

-----------------------------------------------------------------------------
(* Tables of two indices *)

LEMMA UpdatesAreTyped ==
    ASSUME NEW A, NEW B, NEW S, NEW f \in [A -> [B -> S]], NEW a \in A, NEW b \in B, NEW v \in S
    PROVE  /\ [f EXCEPT ![a][b] = v] \in [A -> [B -> S]]
           /\ \A k \in A, l \in B :
                [f EXCEPT ![a][b] = v][k][l] = IF k = a /\ l = b THEN v ELSE f[k][l]
OBVIOUS

-----------------------------------------------------------------------------
(* Types *)

\* What is added to the filters of a node is added behind the others.
Extends(s, r) == /\ s \in Seq(Filter)
                 /\ Len(r) <= Len(s)
                 /\ \A i \in 1..Len(r) : s[i] = r[i]

LEMMA AppendExtends ==
    ASSUME NEW r \in Seq(Filter), NEW f \in Filter
    PROVE  /\ Extends(Append(r, f), r)
           /\ Len(Append(r, f)) = Len(r) + 1
           /\ Append(r, f)[Len(r) + 1] = f
BY DEF Extends

LEMMA NewFiltersExtend ==
    ASSUME NEW r \in Seq(Filter), NEW t \in Topic
    PROVE  /\ Extends(NewFilters(r, t), r)
           /\ Len(NewFilters(r, t)) = Len(r) + 2
           /\ NewFilters(r, t)[Len(r) + 1] = [op |-> "sub", t |-> t]
           /\ NewFilters(r, t)[Len(r) + 2] = [op |-> "confirm", t |-> t]
<1> DEFINE s == Append(r, [op |-> "sub", t |-> t])
<1>1. [op |-> "sub", t |-> t] \in Filter /\ [op |-> "confirm", t |-> t] \in Filter
  BY DEF Filter
<1>2. /\ Extends(s, r)
      /\ Len(s) = Len(r) + 1
      /\ s[Len(r) + 1] = [op |-> "sub", t |-> t]
  BY <1>1, AppendExtends
<1> HIDE DEF s
<1>3. /\ Extends(Append(s, [op |-> "confirm", t |-> t]), s)
      /\ Len(Append(s, [op |-> "confirm", t |-> t])) = Len(s) + 1
      /\ Append(s, [op |-> "confirm", t |-> t])[Len(s) + 1] = [op |-> "confirm", t |-> t]
  BY <1>1, <1>2, AppendExtends DEF Extends
<1>4. NewFilters(r, t) = Append(s, [op |-> "confirm", t |-> t])
  BY DEF NewFilters, s
<1> QED
  BY <1>2, <1>3, <1>4 DEF Extends

FiltersGrow == /\ filters' \in [Node -> Seq(Filter)]
               /\ \A m \in Node : Extends(filters'[m], filters[m])

LEMMA BindGrows ==
    ASSUME filters \in [Node -> Seq(Filter)], NEW n \in Node, Bind(n)
    PROVE  FiltersGrow
<1>1. Extends(Append(filters[n], [op |-> "node"]), filters[n])
  <2>1. [op |-> "node"] \in Filter
    BY DEF Filter
  <2> QED
    BY <2>1, AppendExtends
<1>2. \A m \in Node : Extends(filters[m], filters[m])
  BY DEF Extends
<1>3. filters' = [filters EXCEPT ![n] = Append(filters[n], [op |-> "node"])]
  BY DEF Bind
<1>4. \A m \in Node : Extends(filters'[m], filters[m])
  BY <1>1, <1>2, <1>3
<1> QED
  BY <1>3, <1>4 DEF FiltersGrow, Extends

\* The filters that a call adds.
Added(n, t) == {Append(filters[n], [op |-> "sub", t |-> t]), Append(filters[n], [op |-> "unsub", t |-> t]),
                filters[n], NewFilters(filters[n], t)}

LEMMA CallsGrow ==
    ASSUME filters \in [Node -> Seq(Filter)], NEW n \in Node, NEW t \in Topic,
           Subscribe(n, t) \/ Unsubscribe(n, t)
    PROVE  FiltersGrow
<1>1. /\ [op |-> "sub", t |-> t] \in Filter
      /\ [op |-> "unsub", t |-> t] \in Filter
  BY DEF Filter
<1>2. \A m \in Node : Extends(filters[m], filters[m])
  BY DEF Extends
<1>3. \A s \in Added(n, t) : Extends(s, filters[n])
  <2>1. filters[n] \in Seq(Filter)
    OBVIOUS
  <2>2. /\ Extends(Append(filters[n], [op |-> "sub", t |-> t]), filters[n])
        /\ Extends(Append(filters[n], [op |-> "unsub", t |-> t]), filters[n])
    BY <1>1, <2>1, AppendExtends
  <2>3. Extends(NewFilters(filters[n], t), filters[n])
    BY <2>1, NewFiltersExtend
  <2> QED
    BY <1>2, <2>2, <2>3 DEF Added
<1>4. \E s \in Added(n, t) : filters' = [filters EXCEPT ![n] = s]
  BY DEF Subscribe, Unsubscribe, Added
<1>5. \A m \in Node : Extends(filters'[m], filters[m])
  BY <1>2, <1>3, <1>4
<1> QED
  BY <1>4, <1>5 DEF FiltersGrow, Extends

LEMMA TypeIsKept == TypeOK /\ [Next]_vars => TypeOK'
<1> SUFFICES ASSUME TypeOK, [Next]_vars PROVE TypeOK'
  OBVIOUS
<1>t. /\ toInvite \in [Node -> SUBSET Node]
      /\ invited \in [Node -> [Node -> Nat]]
      /\ accepted \in [Node -> [Node -> Nat]]
      /\ subscriptions \in [Node -> [Topic -> Nat]]
      /\ heard \in [Node -> [Node -> Nat]]
  BY DEF TypeOK
<1>u. /\ publications \in [Node -> SUBSET Topic]
      /\ replies \in [Node -> SUBSET (Node \X Topic)]
  BY DEF TypeOK
<1> DEFINE Bounded == \A k, m \in Node : heard[k][m] <= Len(filters[m])
<1>a. FiltersGrow /\ UNCHANGED heard => Bounded'
  <2> SUFFICES ASSUME FiltersGrow, UNCHANGED heard, NEW k \in Node, NEW m \in Node
               PROVE  heard'[k][m] <= Len(filters'[m])
    OBVIOUS
  <2>1. /\ heard[k][m] \in Nat /\ heard[k][m] <= Len(filters[m]) /\ Len(filters[m]) \in Nat
    BY DEF TypeOK
  <2>2. Len(filters[m]) <= Len(filters'[m]) /\ Len(filters'[m]) \in Nat
    BY DEF FiltersGrow, Extends
  <2> QED
    BY <2>1, <2>2
<1>1. ASSUME NEW n \in Node, Bind(n) PROVE TypeOK'
  <2>1. FiltersGrow
    BY <1>1, BindGrows DEF TypeOK
  <2>2. Bounded'
    BY <1>1, <1>a, <2>1 DEF Bind
  <2>3. unread' \in [Node -> SUBSET Node] /\ files' \subseteq Node /\ phase' \in [Node -> Phases]
    BY <1>1 DEF Bind, TypeOK, Phases
  <2> QED
    BY <1>1, <2>1, <2>2, <2>3 DEF Bind, FiltersGrow, TypeOK, links
<1>2. ASSUME NEW n \in Node, End(n) PROVE TypeOK'
  BY <1>2 DEF End, TypeOK, links, topics, Phases
<1>3. ASSUME NEW n \in Node, OpenDir(n) PROVE TypeOK'
  BY <1>3 DEF OpenDir, TypeOK, links, topics, Phases
<1>4. ASSUME NEW n \in Node, ScanEnds(n) PROVE TypeOK'
  BY <1>4 DEF ScanEnds, TypeOK, links, topics, Phases
<1>5. ASSUME NEW n \in Node, HandleSubscription(n) PROVE TypeOK'
  <2> DEFINE c == Calls[n][called[n] + 1]
  <2>1. c.t \in Topic
    <3>1. Calls[n] \in Seq([op : {"sub", "unsub"}, t : Topic])
      BY MailboxAssumption
    <3>2. called[n] \in Nat /\ called[n] < Len(Calls[n])
      BY <1>5 DEF HandleSubscription, TypeOK
    <3> DEFINE C == [op : {"sub", "unsub"}, t : Topic]
    <3>3. Calls[n] \in Seq(C) /\ called[n] + 1 \in 1..Len(Calls[n])
      BY <3>1, <3>2
    <3> HIDE DEF C
    <3>4. c \in C
      BY <3>3
    <3> QED
      BY <3>4 DEF C
  <2>2. Subscribe(n, c.t) \/ Unsubscribe(n, c.t)
    BY <1>5 DEF HandleSubscription
  <2> HIDE DEF c
  <2>3. subscriptions' \in [Node -> [Topic -> Nat]]
    <3>1. subscriptions \in [Node -> [Topic -> Nat]] /\ subscriptions[n][c.t] \in Nat
      BY <2>1 DEF TypeOK
    <3>2. \E v \in Nat : subscriptions' = [subscriptions EXCEPT ![n][c.t] = v]
      <4>1. CASE Subscribe(n, c.t)
        <5>1. subscriptions' = [subscriptions EXCEPT ![n][c.t] = subscriptions[n][c.t] + 1]
          BY <4>1 DEF Subscribe
        <5>2. subscriptions[n][c.t] + 1 \in Nat
          BY <3>1
        <5> QED
          BY <5>1, <5>2
      <4>2. CASE Unsubscribe(n, c.t)
        <5> DEFINE v == IF subscriptions[n][c.t] > 0 THEN subscriptions[n][c.t] - 1 ELSE 0
        <5>1. v \in Nat
          BY <3>1
        <5>2. subscriptions' = [subscriptions EXCEPT ![n][c.t] = v]
          BY <4>2 DEF Unsubscribe
        <5> QED
          BY <5>1, <5>2
      <4> QED
        BY <2>2, <4>1, <4>2
    <3> QED
      BY <2>1, <3>1, <3>2, UpdatesAreTyped
  <2>4. FiltersGrow
    BY <2>1, <2>2, CallsGrow DEF TypeOK
  <2>5. Bounded'
    BY <1>5, <1>a, <2>4 DEF HandleSubscription
  <2>6. called' \in [Node -> Nat]
    BY <1>5 DEF HandleSubscription, TypeOK
  <2> QED
    BY <1>5, <2>3, <2>4, <2>5, <2>6 DEF HandleSubscription, FiltersGrow, TypeOK, links
<1>6. ASSUME NEW n \in Node, NEW m \in Node, Scan(n, m) PROVE TypeOK'
  <2>1. UNCHANGED <<phase, accepted, invited, topics, heard, publications, replies, confirmed>>
    BY <1>6 DEF Scan, links
  <2>2. unread' \in [Node -> SUBSET Node]
    BY <1>6 DEF Scan, TypeOK
  <2>3. files' \subseteq Node
    BY <1>6 DEF Scan, TypeOK
  <2>4. /\ found' \in [Node -> SUBSET Node] /\ toInvite' \in [Node -> SUBSET Node]
        /\ \A k \in Node : toInvite'[k] \subseteq found'[k]
    <3>1. found \in [Node -> SUBSET Node] /\ \A k \in Node : toInvite[k] \subseteq found[k]
      BY DEF TypeOK
    <3>2. \/ UNCHANGED <<found, toInvite>>
          \/ /\ found' = [found EXCEPT ![n] = found[n] \cup {m}]
             /\ toInvite' = [toInvite EXCEPT ![n] = toInvite[n] \cup {m}]
      BY <1>6 DEF Scan, links
    <3>3. CASE UNCHANGED <<found, toInvite>>
      BY <1>t, <3>1, <3>3
    <3>4. ASSUME /\ found' = [found EXCEPT ![n] = found[n] \cup {m}]
                 /\ toInvite' = [toInvite EXCEPT ![n] = toInvite[n] \cup {m}]
          PROVE  /\ found' \in [Node -> SUBSET Node] /\ toInvite' \in [Node -> SUBSET Node]
                 /\ \A k \in Node : toInvite'[k] \subseteq found'[k]
      <4>1. found' \in [Node -> SUBSET Node]
        BY <3>1, <3>4
      <4>2. toInvite' \in [Node -> SUBSET Node]
        BY <1>t, <3>4
      <4>3. \A k \in Node : toInvite'[k] \subseteq found'[k]
        BY <1>t, <3>1, <3>4
      <4> QED
        BY <4>1, <4>2, <4>3
    <3> QED
      BY <3>2, <3>3, <3>4
  <2> QED
    BY <2>1, <2>2, <2>3, <2>4 DEF TypeOK, topics
<1>7. ASSUME NEW n \in Node, NEW m \in Node, HandlePub(n, m) PROVE TypeOK'
  <2> DEFINE e == filters[m][heard[n][m] + 1]
  <2>0. heard[n][m] \in Nat /\ filters[m] \in Seq(Filter) /\ heard[n][m] < Len(filters[m])
    BY <1>7 DEF HandlePub, TypeOK
  <2>1. e \in Filter
    BY <2>0
  <2>2. heard' \in [Node -> [Node -> Nat]] /\ Bounded'
    <3>1. heard' = [heard EXCEPT ![n][m] = heard[n][m] + 1] /\ filters' = filters
      BY <1>7 DEF HandlePub, topics
    <3>2. heard \in [Node -> [Node -> Nat]] /\ Bounded /\ \A l \in Node : Len(filters[l]) \in Nat
      BY DEF TypeOK
    <3>3. heard[n][m] + 1 \in Nat /\ heard[n][m] + 1 <= Len(filters[m])
      BY <2>0
    <3> HIDE DEF Bounded
    <3>4. /\ heard' \in [Node -> [Node -> Nat]]
          /\ \A k, l \in Node : heard'[k][l] = IF k = n /\ l = m THEN heard[n][m] + 1 ELSE heard[k][l]
      BY <3>1, <3>2, <3>3, UpdatesAreTyped
    <3> QED
      BY <3>1, <3>2, <3>3, <3>4 DEF Bounded
  <2>3. /\ toInvite' \in [Node -> SUBSET Node]
        /\ \A k \in Node : toInvite'[k] \subseteq toInvite[k]
        /\ invited' \in [Node -> [Node -> Nat]]
    <3>1. CASE Invite(n, m) /\ Invites(n, m)
      <4>1. Connections(n, m) \in Nat /\ invited[m][n] \in Nat
        BY DEF Connections, TypeOK
      <4>2. PICK k \in 1..Connections(n, m) : invited' = [invited EXCEPT ![m][n] = invited[m][n] + k]
        BY <3>1 DEF Invite
      <4>3. invited' \in [Node -> [Node -> Nat]]
        <5> DEFINE v == invited[m][n] + k
        <5>1. v \in Nat /\ invited' = [invited EXCEPT ![m][n] = v]
          BY <4>1, <4>2
        <5>2. invited \in [Node -> [Node -> Nat]]
          BY <1>t
        <5> HIDE DEF v
        <5> QED
          BY <5>1, <5>2
      <4>4. toInvite' = [toInvite EXCEPT ![n] = toInvite[n] \ {m}]
        BY <3>1 DEF Invite
      <4> QED
        BY <1>t, <4>3, <4>4
    <3>2. CASE UNCHANGED <<toInvite, invited>>
      BY <1>t, <3>2
    <3> QED
      BY <3>1, <3>2, <1>7 DEF HandlePub, Invite
  <2>4. publications' \in [Node -> SUBSET Topic]
    <3>1. e.op = "sub" => e.t \in Topic
      BY <2>1 DEF Filter
    <3>2. \/ e.op = "sub" /\ publications' = [publications EXCEPT ![n] = publications[n] \cup {e.t}]
          \/ \E T \in SUBSET publications[n] : publications' = [publications EXCEPT ![n] = T]
          \/ UNCHANGED publications
      BY <1>7 DEF HandlePub
    <3> HIDE DEF e
    <3> QED
      BY <1>u, <3>1, <3>2
  <2>5. replies' \in [Node -> SUBSET (Node \X Topic)]
    <3>1. e.op = "confirm" => e.t \in Topic
      BY <2>1 DEF Filter
    <3>2. \/ e.op = "confirm" /\ replies' = [replies EXCEPT ![m] = replies[m] \cup {<<n, e.t>>}]
          \/ UNCHANGED replies
      BY <1>7 DEF HandlePub, Confirm
    <3> HIDE DEF e
    <3> QED
      BY <1>u, <3>1, <3>2
  <2>6. UNCHANGED <<phase, files, unread, found, accepted, called, subscriptions, filters, confirmed>>
    BY <1>7 DEF HandlePub, topics
  <2> HIDE DEF e
  <2> QED
    BY <2>2, <2>3, <2>4, <2>5, <2>6 DEF TypeOK
<1>8. ASSUME NEW n \in Node, NEW m \in Node, ConnectionBreaks(n, m) PROVE TypeOK'
  <2>1. heard' \in [Node -> [Node -> Nat]] /\ \A k, l \in Node : heard'[k][l] \in {0, heard[k][l]}
    <3>1. heard' = [heard EXCEPT ![n][m] = 0] /\ 0 \in Nat
      BY <1>8 DEF ConnectionBreaks
    <3>2. /\ heard' \in [Node -> [Node -> Nat]]
          /\ \A k, l \in Node : heard'[k][l] = IF k = n /\ l = m THEN 0 ELSE heard[k][l]
      BY <1>t, <3>1
    <3> QED
      BY <3>2
  <2>2. UNCHANGED <<phase, files, unread, links, topics, replies, confirmed>>
    BY <1>8 DEF ConnectionBreaks
  <2>3. Bounded'
    <3> SUFFICES ASSUME NEW k \in Node, NEW l \in Node PROVE heard'[k][l] <= Len(filters'[l])
      OBVIOUS
    <3>1. UNCHANGED filters /\ heard[k][l] <= Len(filters[l]) /\ Len(filters[l]) \in Nat
      BY <2>2 DEF TypeOK, topics
    <3>2. heard'[k][l] = 0 \/ heard'[k][l] = heard[k][l]
      BY <2>1
    <3> QED
      BY <3>1, <3>2
  <2>4. \E T \in SUBSET publications[n] : publications' = [publications EXCEPT ![n] = T]
    BY <1>8 DEF ConnectionBreaks
  <2>5. publications' \in [Node -> SUBSET Topic]
    BY <1>u, <2>4
  <2> QED
    BY <2>1, <2>2, <2>3, <2>5 DEF TypeOK, links, topics
<1>9. ASSUME NEW n \in Node, NEW m \in Node, HandleInvitation(n, m) PROVE TypeOK'
  <2>1. invited[n][m] \in Nat /\ accepted[n][m] \in Nat /\ invited[n][m] > 0
    BY <1>9 DEF HandleInvitation, TypeOK
  <2>2. invited' \in [Node -> [Node -> Nat]] /\ accepted' \in [Node -> [Node -> Nat]]
    <3>1. /\ invited' = [invited EXCEPT ![n][m] = invited[n][m] - 1]
          /\ accepted' = [accepted EXCEPT ![n][m] = accepted[n][m] + 1]
      BY <1>9 DEF HandleInvitation
    <3>2. invited[n][m] - 1 \in Nat /\ accepted[n][m] + 1 \in Nat
      BY <2>1
    <3> QED
      BY <1>t, <3>1, <3>2, UpdatesAreTyped
  <2> QED
    BY <1>9, <2>2 DEF HandleInvitation, TypeOK, topics
<1>10. ASSUME NEW n \in Node, NEW r \in replies[n], HandleConfirmation(n, r) PROVE TypeOK'
  BY <1>10 DEF HandleConfirmation, TypeOK, links, topics
<1>11. CASE UNCHANGED vars
  BY <1>11 DEF vars, TypeOK, links, topics
<1> QED
  BY <1>1, <1>2, <1>3, <1>4, <1>5, <1>6, <1>7, <1>8, <1>9, <1>10, <1>11 DEF Next, Thread

\* Every variable keeps its type; a node has heard no more filters than have
\* been set, and has only nodes to invite that it has found.
THEOREM TypeCorrect == Spec => []TypeOK
<1>1. Init => TypeOK
  BY DEF Init, TypeOK, Phases
<1> QED
  BY <1>1, TypeIsKept, PTL DEF Spec

-----------------------------------------------------------------------------
(* Of two nodes that read the directory, one finds the other *)

FilesAreThere == \A n \in Node : Alive(n) => n \in files
AllIsRead == \A n \in Node : phase[n] = "up" => unread[n] = {}
Reading(n) == phase[n] \in {"scanning", "up"}
OneSeesTheOther ==
    \A n, m \in Node : n # m /\ Reading(n) /\ Reading(m)
        => m \in unread[n] \cup found[n] \/ n \in unread[m] \cup found[m]
ScanInv == FilesAreThere /\ AllIsRead /\ OneSeesTheOther

LEMMA ScanInvIsKept == TypeOK /\ ScanInv /\ [Next]_vars => ScanInv'
<1> SUFFICES ASSUME TypeOK, ScanInv, [Next]_vars PROVE ScanInv'
  OBVIOUS
<1>t. /\ phase \in [Node -> Phases] /\ files \subseteq Node
      /\ unread \in [Node -> SUBSET Node] /\ found \in [Node -> SUBSET Node]
  BY DEF TypeOK
<1> USE DEF FilesAreThere, AllIsRead, OneSeesTheOther, Alive, Reading
<1>1. ASSUME NEW n \in Node, Bind(n) PROVE ScanInv'
  <2>1. phase' = [phase EXCEPT ![n] = "bound"] /\ files' = files \cup {n} /\ UNCHANGED found
    BY <1>1 DEF Bind, links
  <2>2. \A r \in Node : /\ unread[r] \subseteq unread'[r]
                        /\ phase[r] # "scanning" => unread'[r] = unread[r]
    BY <1>1, <1>t DEF Bind
  <2>3. FilesAreThere' /\ AllIsRead'
    BY <1>t, <2>1, <2>2 DEF ScanInv
  <2>4. OneSeesTheOther'
    <3> SUFFICES ASSUME NEW r \in Node, NEW m \in Node, r # m, Reading(r)', Reading(m)'
                 PROVE  m \in unread'[r] \cup found'[r] \/ r \in unread'[m] \cup found'[m]
      OBVIOUS
    <3>1. Reading(r) /\ Reading(m)
      BY <1>t, <2>1
    <3>2. m \in unread[r] \cup found[r] \/ r \in unread[m] \cup found[m]
      BY <3>1 DEF ScanInv
    <3> QED
      BY <2>1, <2>2, <3>2
  <2> QED
    BY <2>3, <2>4 DEF ScanInv
<1>2. ASSUME NEW n \in Node, End(n) PROVE ScanInv'
  <2>1. phase' = [phase EXCEPT ![n] = "dead"] /\ UNCHANGED <<files, unread, found>>
    BY <1>2 DEF End, links
  <2> QED
    BY <1>t, <2>1 DEF ScanInv
<1>3. ASSUME NEW n \in Node, OpenDir(n) PROVE ScanInv'
  <2>1. /\ phase[n] = "bound" /\ phase' = [phase EXCEPT ![n] = "scanning"]
        /\ unread' = [unread EXCEPT ![n] = files \ {n}]
        /\ UNCHANGED <<files, found>>
    BY <1>3 DEF OpenDir, links
  <2> QED
    BY <1>t, <2>1 DEF ScanInv
<1>4. ASSUME NEW n \in Node, ScanEnds(n) PROVE ScanInv'
  <2>1. /\ phase[n] = "scanning" /\ unread[n] = {} /\ phase' = [phase EXCEPT ![n] = "up"]
        /\ UNCHANGED <<files, unread, found>>
    BY <1>4 DEF ScanEnds, links
  <2> QED
    BY <1>t, <2>1 DEF ScanInv
<1>5. ASSUME NEW n \in Node, NEW f \in Node, Scan(n, f) PROVE ScanInv'
  <2>1. /\ phase[n] = "scanning" /\ UNCHANGED phase
        /\ unread' = [unread EXCEPT ![n] = unread[n] \ {f}]
    BY <1>5 DEF Scan
  <2>2. CASE IsOrphan(f)
    <3>1. files' = files \ {f} /\ UNCHANGED found /\ ~Alive(f)
      BY <1>5, <2>2 DEF Scan, IsOrphan, links
    <3> QED
      BY <1>t, <2>1, <3>1 DEF ScanInv
  <2>3. CASE ~IsOrphan(f)
    <3>1. found' = [found EXCEPT ![n] = found[n] \cup {f}] /\ UNCHANGED files
      BY <1>5, <2>3 DEF Scan
    <3> QED
      BY <1>t, <2>1, <3>1 DEF ScanInv
  <2> QED
    BY <2>2, <2>3
<1>6. CASE UNCHANGED <<phase, files, unread, found>>
  BY <1>6 DEF ScanInv
<1> QED
  <2>1. ASSUME NEW n \in Node, HandleSubscription(n) PROVE UNCHANGED <<phase, files, unread, found>>
    BY <2>1 DEF HandleSubscription, links
  <2>2. ASSUME NEW n \in Node, NEW m \in Node, HandlePub(n, m) PROVE UNCHANGED <<phase, files, unread, found>>
    BY <2>2 DEF HandlePub
  <2>3. ASSUME NEW n \in Node, NEW m \in Node, ConnectionBreaks(n, m)
        PROVE  UNCHANGED <<phase, files, unread, found>>
    BY <2>3 DEF ConnectionBreaks, links
  <2>4. ASSUME NEW n \in Node, NEW m \in Node, HandleInvitation(n, m)
        PROVE  UNCHANGED <<phase, files, unread, found>>
    BY <2>4 DEF HandleInvitation
  <2>5. ASSUME NEW n \in Node, NEW r \in replies[n], HandleConfirmation(n, r)
        PROVE  UNCHANGED <<phase, files, unread, found>>
    BY <2>5 DEF HandleConfirmation, links
  <2>6. UNCHANGED vars => UNCHANGED <<phase, files, unread, found>>
    BY DEF vars, links
  <2> QED
    BY <1>1, <1>2, <1>3, <1>4, <1>5, <1>6, <2>1, <2>2, <2>3, <2>4, <2>5, <2>6 DEF Next, Thread

\* Of any two nodes that have read the directory of sockets, one has found the
\* other, whenever they were started, and whoever else came and went.
THEOREM NodesFindEachOther == Spec => []ScansMeet
<1>1. Init => ScanInv
  BY DEF Init, ScanInv, FilesAreThere, AllIsRead, OneSeesTheOther, Alive, Reading
<1>2. ScanInv => ScansMeet
  BY DEF ScanInv, ScansMeet, AllIsRead, OneSeesTheOther, Reading, Monitoring
<1> QED
  BY <1>1, <1>2, ScanInvIsKept, TypeCorrect, PTL DEF Spec

-----------------------------------------------------------------------------
(* Where two connections come from *)

FilesAreBound == \A f \in files : phase[f] # "none"
SeenAreBound == \A n \in Node : \A f \in found[n] \cup unread[n] : phase[f] # "none"
SeenOnce == \A n \in Node : unread[n] \cap found[n] = {}
NothingFoundYet == \A n \in Node : phase[n] \in {"none", "bound"} => found[n] = {}

\* The connect messages that m has sent to n.
Sent(n, m) == invited[n][m] + accepted[n][m]
SentToFound == \A n, m \in Node : Sent(n, m) > 0 => n \in found[m] /\ n \notin toInvite[m]
SentTwiceIfBothFound == \A n, m \in Node : Sent(n, m) > 1 => m \in found[n]
LinkInv == FilesAreBound /\ SeenAreBound /\ SeenOnce /\ NothingFoundYet
           /\ SentToFound /\ SentTwiceIfBothFound

LEMMA DoubledFollows == TypeOK /\ LinkInv => DoubledOnlyIfBothFound
<1> SUFFICES ASSUME TypeOK, LinkInv, NEW n \in Node, NEW m \in Node, Connections(n, m) > 1
             PROVE  n \in found[m] /\ m \in found[n]
  BY DEF DoubledOnlyIfBothFound
<1>1. invited[n][m] \in Nat /\ accepted[n][m] \in Nat
  BY DEF TypeOK
<1>2. accepted[n][m] > 0 /\ (m \notin found[n] => accepted[n][m] > 1)
  BY <1>1 DEF Connections
<1>3. Sent(n, m) > 0 /\ (m \notin found[n] => Sent(n, m) > 1)
  BY <1>1, <1>2 DEF Sent
<1> QED
  BY <1>3 DEF LinkInv, SentToFound, SentTwiceIfBothFound

LEMMA LinkInvIsKept == TypeOK /\ LinkInv /\ [Next]_vars => LinkInv'
<1> SUFFICES ASSUME TypeOK, LinkInv, [Next]_vars PROVE LinkInv'
  OBVIOUS
<1>t. /\ phase \in [Node -> Phases] /\ files \subseteq Node
      /\ unread \in [Node -> SUBSET Node] /\ found \in [Node -> SUBSET Node]
      /\ toInvite \in [Node -> SUBSET Node]
      /\ \A n \in Node : toInvite[n] \subseteq found[n]
  BY DEF TypeOK
<1>u. /\ invited \in [Node -> [Node -> Nat]] /\ accepted \in [Node -> [Node -> Nat]]
  BY DEF TypeOK
<1>s. /\ FilesAreBound /\ SeenAreBound /\ SeenOnce /\ NothingFoundYet
      /\ SentToFound /\ SentTwiceIfBothFound
  BY DEF LinkInv
<1> DEFINE Scanned == FilesAreBound /\ SeenAreBound /\ SeenOnce /\ NothingFoundYet
           Invited == SentToFound /\ SentTwiceIfBothFound
<1>a. UNCHANGED <<phase, files, unread, found>> => Scanned'
  BY <1>s DEF FilesAreBound, SeenAreBound, SeenOnce, NothingFoundYet
<1>b. UNCHANGED <<found, toInvite, invited, accepted>> => Invited'
  BY <1>s DEF SentToFound, SentTwiceIfBothFound, Sent
<1> SUFFICES Scanned' /\ Invited'
  BY DEF LinkInv
<1> HIDE DEF Scanned, Invited
<1>1. ASSUME NEW n \in Node, Bind(n) PROVE Scanned' /\ Invited'
  <2>1. /\ phase[n] = "none" /\ phase' = [phase EXCEPT ![n] = "bound"] /\ files' = files \cup {n}
        /\ UNCHANGED <<found, toInvite, invited, accepted>>
    BY <1>1 DEF Bind, links
  <2>2. unread' \in [Node -> SUBSET Node] /\ \A r \in Node : unread'[r] \subseteq unread[r] \cup {n}
    BY <1>1, <1>t DEF Bind
  <2>3. \A r \in Node : n \notin found[r]
    BY <1>s, <2>1 DEF SeenAreBound
  <2> QED
    BY <1>b, <1>s, <1>t, <2>1, <2>2, <2>3
       DEF Scanned, FilesAreBound, SeenAreBound, SeenOnce, NothingFoundYet
<1>2. ASSUME NEW n \in Node, End(n) PROVE Scanned' /\ Invited'
  <2>1. /\ phase' = [phase EXCEPT ![n] = "dead"]
        /\ UNCHANGED <<files, unread, found, toInvite, invited, accepted>>
    BY <1>2 DEF End, links
  <2> QED
    BY <1>b, <1>s, <1>t, <2>1 DEF Scanned, FilesAreBound, SeenAreBound, SeenOnce, NothingFoundYet
<1>3. ASSUME NEW n \in Node, OpenDir(n) PROVE Scanned' /\ Invited'
  <2>1. /\ phase[n] = "bound" /\ phase' = [phase EXCEPT ![n] = "scanning"]
        /\ unread' = [unread EXCEPT ![n] = files \ {n}]
        /\ UNCHANGED <<files, found, toInvite, invited, accepted>>
    BY <1>3 DEF OpenDir, links
  <2>2. found[n] = {}
    BY <1>s, <2>1 DEF NothingFoundYet
  <2> QED
    BY <1>b, <1>s, <1>t, <2>1, <2>2 DEF Scanned, FilesAreBound, SeenAreBound, SeenOnce, NothingFoundYet
<1>4. ASSUME NEW n \in Node, ScanEnds(n) PROVE Scanned' /\ Invited'
  <2>1. /\ phase[n] = "scanning" /\ phase' = [phase EXCEPT ![n] = "up"]
        /\ UNCHANGED <<files, unread, found, toInvite, invited, accepted>>
    BY <1>4 DEF ScanEnds, links
  <2> QED
    BY <1>b, <1>s, <1>t, <2>1 DEF Scanned, FilesAreBound, SeenAreBound, SeenOnce, NothingFoundYet
<1>5. ASSUME NEW n \in Node, NEW f \in Node, Scan(n, f) PROVE Scanned' /\ Invited'
  <2>1. /\ phase[n] = "scanning" /\ f \in unread[n] /\ UNCHANGED phase
        /\ unread' = [unread EXCEPT ![n] = unread[n] \ {f}]
    BY <1>5 DEF Scan
  <2>2. CASE IsOrphan(f)
    <3>1. files' = files \ {f} /\ UNCHANGED <<found, toInvite, invited, accepted>>
      BY <1>5, <2>2 DEF Scan, links
    <3> QED
      BY <1>b, <1>s, <1>t, <2>1, <3>1 DEF Scanned, FilesAreBound, SeenAreBound, SeenOnce, NothingFoundYet
  <2>3. CASE ~IsOrphan(f)
    <3>1. /\ found' = [found EXCEPT ![n] = found[n] \cup {f}]
          /\ toInvite' = [toInvite EXCEPT ![n] = toInvite[n] \cup {f}]
          /\ UNCHANGED <<files, invited, accepted>>
      BY <1>5, <2>3 DEF Scan
    <3>2. Scanned'
      BY <1>s, <1>t, <2>1, <3>1 DEF Scanned, FilesAreBound, SeenAreBound, SeenOnce, NothingFoundYet
    <3>3. ~(Sent(f, n) > 0)
      <4>1. f \notin found[n]
        BY <1>s, <2>1 DEF SeenOnce
      <4> QED
        BY <1>s, <4>1 DEF SentToFound
    <3>4. \A k, l \in Node : Sent(k, l)' = Sent(k, l)
      BY <3>1 DEF Sent
    <3>5. Invited'
      BY <1>s, <1>t, <3>1, <3>3, <3>4 DEF Invited, SentToFound, SentTwiceIfBothFound
    <3> QED
      BY <3>2, <3>5
  <2> QED
    BY <2>2, <2>3
<1>6. ASSUME NEW n \in Node, NEW m \in Node, HandlePub(n, m) PROVE Scanned' /\ Invited'
  <2>1. UNCHANGED <<phase, files, unread, found, accepted>>
    BY <1>6 DEF HandlePub
  <2>2. CASE UNCHANGED <<toInvite, invited>>
    BY <1>a, <1>b, <2>1, <2>2
  <2>3. CASE Invite(n, m) /\ Invites(n, m)
    <3>1. PICK k \in 1..Connections(n, m) : invited' = [invited EXCEPT ![m][n] = invited[m][n] + k]
      BY <2>3 DEF Invite
    <3>2. m \in toInvite[n] /\ toInvite' = [toInvite EXCEPT ![n] = toInvite[n] \ {m}]
      BY <2>3 DEF Invite, Invites
    <3>3. Connections(n, m) \in Nat /\ k \in Nat
      BY <1>u DEF Connections
    <3>4. Sent(m, n) = 0
      <4>1. ~(Sent(m, n) > 0)
        BY <1>s, <3>2 DEF SentToFound
      <4>2. invited[m][n] \in Nat /\ accepted[m][n] \in Nat
        BY <1>u
      <4> QED
        BY <4>1, <4>2 DEF Sent
    <3>5. Sent(m, n)' = k /\ \A i, j \in Node : i # m \/ j # n => Sent(i, j)' = Sent(i, j)
      <4>1. invited'[m][n] = invited[m][n] + k
        BY <1>u, <3>1
      <4>2. \A i, j \in Node : i # m \/ j # n => invited'[i][j] = invited[i][j]
        BY <1>u, <3>1
      <4> QED
        BY <1>u, <2>1, <3>3, <3>4, <4>1, <4>2 DEF Sent
    <3>6. k > 1 => n \in found[m]
      <4>1. k > 1 => Connections(n, m) > 1
        BY <3>3
      <4> QED
        BY <4>1, DoubledFollows DEF DoubledOnlyIfBothFound
    <3>7. SentToFound'
      <4> SUFFICES ASSUME NEW i \in Node, NEW j \in Node, Sent(i, j)' > 0
                   PROVE  i \in found[j] /\ i \notin toInvite'[j]
        BY <2>1 DEF SentToFound
      <4>1. CASE i = m /\ j = n
        BY <1>t, <3>2, <4>1
      <4>2. CASE ~(i = m /\ j = n)
        BY <1>s, <1>t, <3>2, <3>5, <4>2 DEF SentToFound
      <4> QED
        BY <4>1, <4>2
    <3>8. SentTwiceIfBothFound'
      BY <1>s, <2>1, <3>5, <3>6 DEF SentTwiceIfBothFound
    <3> QED
      BY <1>a, <2>1, <3>7, <3>8 DEF Invited
  <2> QED
    BY <1>6, <2>2, <2>3 DEF HandlePub, Invite
<1>7. ASSUME NEW n \in Node, NEW m \in Node, HandleInvitation(n, m) PROVE Scanned' /\ Invited'
  <2>1. /\ invited' = [invited EXCEPT ![n][m] = invited[n][m] - 1]
        /\ accepted' = [accepted EXCEPT ![n][m] = accepted[n][m] + 1]
        /\ UNCHANGED <<phase, files, unread, found, toInvite>>
    BY <1>7 DEF HandleInvitation
  <2>2. \A i, j \in Node : Sent(i, j)' = Sent(i, j)
    BY <1>u, <2>1 DEF Sent
  <2> QED
    BY <1>a, <1>s, <2>1, <2>2 DEF Invited, SentToFound, SentTwiceIfBothFound
<1>8. CASE UNCHANGED <<phase, files, unread, found, toInvite, invited, accepted>>
  BY <1>a, <1>b, <1>8
<1> QED
  <2>1. ASSUME NEW n \in Node, HandleSubscription(n)
        PROVE  UNCHANGED <<phase, files, unread, found, toInvite, invited, accepted>>
    BY <2>1 DEF HandleSubscription, links
  <2>2. ASSUME NEW n \in Node, NEW m \in Node, ConnectionBreaks(n, m)
        PROVE  UNCHANGED <<phase, files, unread, found, toInvite, invited, accepted>>
    BY <2>2 DEF ConnectionBreaks, links
  <2>3. ASSUME NEW n \in Node, NEW r \in replies[n], HandleConfirmation(n, r)
        PROVE  UNCHANGED <<phase, files, unread, found, toInvite, invited, accepted>>
    BY <2>3 DEF HandleConfirmation, links
  <2>4. UNCHANGED vars => UNCHANGED <<phase, files, unread, found, toInvite, invited, accepted>>
    BY DEF vars, links
  <2> QED
    BY <1>1, <1>2, <1>3, <1>4, <1>5, <1>6, <1>7, <1>8, <2>1, <2>2, <2>3, <2>4 DEF Next, Thread

\* A node connects to another twice only if each found the other when it read
\* the directory.
THEOREM TwiceOnlyIfBothFound == Spec => []DoubledOnlyIfBothFound
<1>1. Init => LinkInv
  BY DEF Init, LinkInv, FilesAreBound, SeenAreBound, SeenOnce, NothingFoundYet, SentToFound,
         SentTwiceIfBothFound, Sent
<1> QED
  BY <1>1, LinkInvIsKept, DoubledFollows, TypeCorrect, PTL DEF Spec

-----------------------------------------------------------------------------
(* Confirmations come in order *)

SubOf(t) == [op |-> "sub", t |-> t]
ConfirmOf(t) == [op |-> "confirm", t |-> t]
Topics(m) == {Calls[m][j].t : j \in 1..called[m]}
At(m, p) == filters[m][p]
Places(m) == 1..Len(filters[m])

\* The filters of a node that never unsubscribes are those of its calls, and
\* the confirmation of a topic comes behind all topics of the calls before.
NoneCancelled(m) == \A p \in Places(m) : At(m, p).op # "unsub"
CallsAreSet(m) == \A t \in Topics(m) : subscriptions[m][t] > 0 /\ \E q \in Places(m) : At(m, q) = SubOf(t)
CountedAreCalled(m) == \A t \in Topic : subscriptions[m][t] > 0 => t \in Topics(m)
AskedAreCalled(m) == \A t \in Topic, p \in Places(m) : At(m, p) = ConfirmOf(t) => t \in Topics(m)
SetInOrder(m) ==
    \A p \in Places(m), i \in 1..called[m] : FirstCall(m, i) /\ At(m, p) = ConfirmOf(Calls[m][i].t)
        => \A j \in 1..i : \E q \in 1..(p - 1) : At(m, q) = SubOf(Calls[m][j].t)
FilterInv ==
    \A m \in Node : /\ called[m] <= Len(Calls[m])
                    /\ Stays(m) => /\ NoneCancelled(m) /\ CallsAreSet(m) /\ CountedAreCalled(m)
                                   /\ AskedAreCalled(m) /\ SetInOrder(m)

\* What has come of them to the other nodes.
ConfirmedWasHeard ==
    \A n, m \in Node, t \in Topic : phase[m] # "dead" /\ <<n, t>> \in replies[m] \cup confirmed[m]
        => \E p \in 1..heard[n][m] : At(m, p) = ConfirmOf(t)
HeardIsPublished ==
    \A n, m \in Node, t \in Topic : Stays(m) /\ phase[m] # "dead"
        => \A p \in 1..heard[n][m] : At(m, p) = SubOf(t) => t \in publications[n]

LEMMA CallsAreTyped ==
    ASSUME TypeOK, NEW n \in Node, NEW i \in Nat, 1 <= i, i <= Len(Calls[n])
    PROVE  Calls[n][i].t \in Topic /\ Calls[n][i].op \in {"sub", "unsub"}
<1> DEFINE C == [op : {"sub", "unsub"}, t : Topic]
<1>1. Calls[n] \in Seq(C)
  BY MailboxAssumption
<1> HIDE DEF C
<1>2. Calls[n][i] \in C
  BY <1>1
<1> QED
  BY <1>2 DEF C

LEMMA FilterInvIsKept == TypeOK /\ FilterInv /\ [Next]_vars => FilterInv'
<1> SUFFICES ASSUME TypeOK, FilterInv, [Next]_vars PROVE FilterInv'
  OBVIOUS
<1>t. /\ filters \in [Node -> Seq(Filter)]
      /\ called \in [Node -> Nat]
      /\ subscriptions \in [Node -> [Topic -> Nat]]
  BY DEF TypeOK
<1> DEFINE Kept(m) == /\ called[m] <= Len(Calls[m])
                      /\ Stays(m) => /\ NoneCancelled(m) /\ CallsAreSet(m) /\ CountedAreCalled(m)
                                     /\ AskedAreCalled(m) /\ SetInOrder(m)
<1>a. \A m \in Node : Kept(m)
  BY DEF FilterInv
<1>b. ASSUME NEW m \in Node, filters'[m] = filters[m], called'[m] = called[m],
             subscriptions'[m] = subscriptions[m]
      PROVE  Kept(m)'
  <2>1. Kept(m) /\ Topics(m)' = Topics(m) /\ Places(m)' = Places(m) /\ \A p : At(m, p)' = At(m, p)
    BY <1>a, <1>b DEF Topics, Places, At
  <2>2. ASSUME Stays(m) PROVE NoneCancelled(m)' /\ AskedAreCalled(m)'
    BY <2>1, <2>2 DEF NoneCancelled, AskedAreCalled
  <2>3. ASSUME Stays(m) PROVE CallsAreSet(m)' /\ CountedAreCalled(m)'
    BY <1>b, <2>1, <2>3 DEF CallsAreSet, CountedAreCalled
  <2>4. ASSUME Stays(m) PROVE SetInOrder(m)'
    BY <1>b, <2>1, <2>4 DEF SetInOrder, FirstCall
  <2> QED
    BY <1>b, <2>1, <2>2, <2>3, <2>4 DEF Stays
<1> SUFFICES ASSUME NEW m \in Node PROVE Kept(m)'
  BY DEF FilterInv
<1> HIDE DEF Kept
<1>1. ASSUME NEW n \in Node, Bind(n) PROVE Kept(m)'
  <2>1. filters' = [filters EXCEPT ![n] = Append(filters[n], [op |-> "node"])] /\ UNCHANGED <<called, subscriptions>>
    BY <1>1 DEF Bind
  <2>2. CASE m # n
    BY <1>b, <1>t, <2>1, <2>2
  <2>3. CASE m = n
    <3>1. /\ filters[m] \in Seq(Filter) /\ Len(filters'[m]) = Len(filters[m]) + 1
          /\ filters'[m][Len(filters[m]) + 1] = [op |-> "node"]
          /\ \A i \in Places(m) : filters'[m][i] = filters[m][i]
      BY <1>t, <2>1, <2>3 DEF Places
    <3>2. Kept(m) /\ Len(filters[m]) \in Nat
      BY <1>a, <3>1
    <3>3. Topics(m)' = Topics(m)
      BY <2>1 DEF Topics
    <3>4. ASSUME Stays(m) PROVE NoneCancelled(m)'
      BY <3>1, <3>2, <3>4 DEF Kept, NoneCancelled, Places, At
    <3>5. ASSUME Stays(m) PROVE CallsAreSet(m)'
      BY <2>1, <3>1, <3>2, <3>3, <3>5 DEF Kept, CallsAreSet, Places, At
    <3>6. ASSUME Stays(m) PROVE CountedAreCalled(m)'
      BY <2>1, <3>2, <3>3, <3>6 DEF Kept, CountedAreCalled
    <3>7. \A p \in Places(m)', t \in Topic : At(m, p)' = ConfirmOf(t) => p \in Places(m) /\ At(m, p) = ConfirmOf(t)
      <4>1. \A t \in Topic : [op |-> "node"] # ConfirmOf(t)
        BY DEF ConfirmOf
      <4> QED
        BY <3>1, <3>2, <4>1 DEF Places, At
    <3>8. ASSUME Stays(m) PROVE AskedAreCalled(m)'
      BY <3>2, <3>3, <3>7, <3>8 DEF Kept, AskedAreCalled
    <3>9. ASSUME Stays(m) PROVE SetInOrder(m)'
      <4> SUFFICES ASSUME NEW p \in Places(m)', NEW i \in 1..called[m],
                          FirstCall(m, i), At(m, p)' = ConfirmOf(Calls[m][i].t), NEW j \in 1..i
                   PROVE  \E q \in 1..(p - 1) : At(m, q)' = SubOf(Calls[m][j].t)
        BY <2>1 DEF SetInOrder, FirstCall
      <4>1. Calls[m][i].t \in Topic
        BY <1>t, <3>2, CallsAreTyped DEF Kept
      <4>2. p \in Places(m) /\ At(m, p) = ConfirmOf(Calls[m][i].t)
        BY <3>7, <4>1
      <4>3. PICK q \in 1..(p - 1) : At(m, q) = SubOf(Calls[m][j].t)
        BY <3>2, <3>9, <4>2 DEF Kept, SetInOrder
      <4> QED
        BY <3>1, <3>2, <4>2, <4>3 DEF At, Places
    <3> QED
      BY <2>1, <3>2, <3>4, <3>5, <3>6, <3>8, <3>9 DEF Kept, Stays
  <2> QED
    BY <2>2, <2>3
<1>2. ASSUME NEW n \in Node, HandleSubscription(n) PROVE Kept(m)'
  <2> DEFINE i0 == called[n] + 1
             t0 == Calls[n][i0].t
  <2>1. /\ called[n] < Len(Calls[n]) /\ called' = [called EXCEPT ![n] = i0]
        /\ \/ Calls[n][i0].op = "sub" /\ Subscribe(n, t0)
           \/ Calls[n][i0].op = "unsub" /\ Unsubscribe(n, t0)
    BY <1>2 DEF HandleSubscription
  <2>2. i0 \in Nat /\ 1 <= i0 /\ i0 <= Len(Calls[n]) /\ t0 \in Topic
    <3>1. called[n] \in Nat /\ Len(Calls[n]) \in Nat
      BY <1>t, MailboxAssumption
    <3> QED
      BY <2>1, <3>1, CallsAreTyped
  <2>3. CASE m # n
    <3>1. filters'[m] = filters[m] /\ subscriptions'[m] = subscriptions[m]
      BY <1>t, <2>1, <2>3 DEF Subscribe, Unsubscribe
    <3> QED
      BY <1>b, <1>t, <2>1, <2>3, <3>1
  <2>4. CASE m = n /\ ~Stays(n)
    BY <1>t, <2>1, <2>2, <2>4 DEF Kept, Stays
  <2>5. CASE m = n /\ Stays(n)
    <3>1. Subscribe(n, t0) /\ called'[n] = i0 /\ called[n] \in Nat
      BY <1>t, <2>1, <2>2, <2>5 DEF Stays
    <3>2. Kept(n) /\ filters[n] \in Seq(Filter) /\ Len(filters[n]) \in Nat
      BY <1>a, <1>t
    <3>3. Topics(n)' = Topics(n) \cup {t0}
      BY <2>2, <3>1 DEF Topics
    <3>4. /\ subscriptions'[n][t0] = subscriptions[n][t0] + 1
          /\ subscriptions[n][t0] \in Nat
          /\ \A u \in Topic \ {t0} : subscriptions'[n][u] = subscriptions[n][u]
      BY <1>t, <2>2, <3>1 DEF Subscribe
    <3>5. CountedAreCalled(n)'
      BY <2>5, <3>2, <3>3, <3>4 DEF Kept, CountedAreCalled
    <3>6. \A u \in Topics(n) : u \in Topic
      BY <2>2, <3>1, CallsAreTyped DEF Topics
    <3> HIDE DEF t0
    <3>7. CASE subscriptions[n][t0] > 0
      <4>1. filters'[n] = filters[n]
        BY <1>t, <3>1, <3>7 DEF Subscribe
      <4>2. t0 \in Topics(n) /\ Topics(n)' = Topics(n)
        BY <2>2, <2>5, <3>2, <3>3, <3>7 DEF Kept, CountedAreCalled
      <4>3. NoneCancelled(n)' /\ AskedAreCalled(n)'
        BY <2>5, <3>2, <4>1, <4>2 DEF Kept, NoneCancelled, AskedAreCalled, Places, At
      <4>4. CallsAreSet(n)'
        BY <2>5, <3>2, <3>4, <3>6, <4>1, <4>2 DEF Kept, CallsAreSet, Places, At
      <4>5. ~FirstCall(n, i0)
        BY <3>1, <4>2 DEF Topics, FirstCall, t0
      <4>6. SetInOrder(n)'
        <5> SUFFICES ASSUME NEW p \in Places(n)', NEW i \in 1..i0, FirstCall(n, i),
                            At(n, p)' = ConfirmOf(Calls[n][i].t), NEW j \in 1..i
                     PROVE  \E q \in 1..(p - 1) : At(n, q)' = SubOf(Calls[n][j].t)
          BY <3>1 DEF SetInOrder, FirstCall
        <5>1. i \in 1..called[n]
          BY <3>1, <4>5
        <5>2. p \in Places(n) /\ At(n, p) = ConfirmOf(Calls[n][i].t)
          BY <4>1 DEF Places, At
        <5>3. PICK q \in 1..(p - 1) : At(n, q) = SubOf(Calls[n][j].t)
          BY <2>5, <3>2, <5>1, <5>2 DEF Kept, SetInOrder
        <5> QED
          BY <4>1, <5>3 DEF At
      <4> QED
        BY <2>2, <2>5, <3>1, <3>5, <4>3, <4>4, <4>6 DEF Kept, Stays
    <3>8. CASE subscriptions[n][t0] = 0
      <4>1. t0 \notin Topics(n)
        BY <2>5, <3>2, <3>8 DEF Kept, CallsAreSet
      <4>2. ~Asked(n, t0)
        BY <2>2, <2>5, <3>2, <4>1 DEF Asked, Kept, AskedAreCalled, Places, At, ConfirmOf
      <4>L. PICK L \in Nat : L = Len(filters[n])
        BY <3>2
      <4>3. filters'[n] = NewFilters(filters[n], t0)
        BY <1>t, <3>1, <3>8, <4>2 DEF Subscribe
      <4>4. /\ Len(filters'[n]) = L + 2 
            /\ filters'[n][L + 1] = SubOf(t0) /\ filters'[n][L + 2] = ConfirmOf(t0)
            /\ \A p \in 1..L : filters'[n][p] = filters[n][p]
        <5>1. /\ Extends(NewFilters(filters[n], t0), filters[n])
              /\ Len(NewFilters(filters[n], t0)) = Len(filters[n]) + 2
              /\ NewFilters(filters[n], t0)[Len(filters[n]) + 1] = SubOf(t0)
              /\ NewFilters(filters[n], t0)[Len(filters[n]) + 2] = ConfirmOf(t0)
          BY <2>2, <3>2, NewFiltersExtend DEF SubOf, ConfirmOf
        <5> QED
          BY <4>3, <4>L, <5>1 DEF Extends
      <4>5. \A p \in Places(n)' :
               \/ p \in Places(n) /\ At(n, p)' = At(n, p)
               \/ p = L + 1 /\ At(n, p)' = SubOf(t0)
               \/ p = L + 2 /\ At(n, p)' = ConfirmOf(t0)
        BY <4>4, <4>L DEF Places, At
      <4>6. \A p \in Places(n) : p \in Places(n)' /\ At(n, p)' = At(n, p)
        BY <4>4, <4>L DEF Places, At
      <4>7. L + 1 \in Places(n)' /\ At(n, L + 1)' = SubOf(t0)
        <5>1. Len(filters[n])' = L + 2 /\ filters[n]'[L + 1] = SubOf(t0)
          BY <4>4
        <5> QED
          BY <4>4, <5>1 DEF Places, At
      <4>8. NoneCancelled(n)'
        BY <2>5, <3>2, <4>5 DEF Kept, NoneCancelled, SubOf, ConfirmOf
      <4>9. \A t \in Topic : SubOf(t0) # ConfirmOf(t) /\ (ConfirmOf(t0) = ConfirmOf(t) => t = t0)
        BY DEF SubOf, ConfirmOf
      <4>10. AskedAreCalled(n)'
        BY <2>5, <3>2, <3>3, <4>5, <4>9 DEF Kept, AskedAreCalled
      <4>11. CallsAreSet(n)'
        BY <2>5, <3>2, <3>3, <3>4, <3>6, <3>8, <4>1, <4>6, <4>7 DEF Kept, CallsAreSet
      <4>12. SetInOrder(n)'
        <5> SUFFICES ASSUME NEW p \in Places(n)', NEW i \in 1..i0, FirstCall(n, i),
                            At(n, p)' = ConfirmOf(Calls[n][i].t), NEW j \in 1..i
                     PROVE  \E q \in 1..(p - 1) : At(n, q)' = SubOf(Calls[n][j].t)
          BY <3>1 DEF SetInOrder, FirstCall
        <5>1. Calls[n][i].t \in Topic
          BY <2>2, CallsAreTyped
        <5>2. CASE p \in Places(n)
          <6>1. At(n, p) = ConfirmOf(Calls[n][i].t)
            BY <4>6, <5>2
          <6>2. Calls[n][i].t \in Topics(n)
            BY <2>5, <3>2, <5>1, <5>2, <6>1 DEF Kept, AskedAreCalled
          <6>3. i # i0
            BY <4>1, <6>2 DEF t0
          <6>4. i \in 1..called[n]
            BY <3>1, <6>3
          <6>5. PICK q \in 1..(p - 1) : At(n, q) = SubOf(Calls[n][j].t)
            BY <2>5, <3>2, <5>2, <6>1, <6>4 DEF Kept, SetInOrder
          <6>6. q \in Places(n)
            BY <3>2, <5>2, <6>5 DEF Places
          <6> QED
            BY <4>6, <6>5, <6>6
        <5>3. CASE p \notin Places(n)
          <6>1. p = L + 2 /\ Calls[n][i].t = t0
            BY <4>5, <4>9, <5>1, <5>3
          <6>2. CASE j \in 1..called[n]
            <7>1. Calls[n][j].t \in Topics(n)
              BY <6>2 DEF Topics
            <7>2. PICK q \in Places(n) : At(n, q) = SubOf(Calls[n][j].t)
              BY <2>5, <3>2, <7>1 DEF Kept, CallsAreSet
            <7>3. q \in 1..(p - 1)
              BY <4>4, <4>L, <6>1, <7>2 DEF Places
            <7> QED
              BY <4>6, <7>2, <7>3
          <6>3. CASE j = i0
            <7>1. Calls[n][j].t = t0
              BY <6>3 DEF t0
            <7>2. L + 1 \in 1..(p - 1)
              BY <4>4, <6>1
            <7> QED
              BY <4>7, <7>1, <7>2
          <6> QED
            BY <3>1, <6>2, <6>3
        <5> QED
          BY <5>2, <5>3
      <4> QED
        BY <2>2, <2>5, <3>1, <3>5, <4>8, <4>10, <4>11, <4>12 DEF Kept, Stays
    <3> QED
      BY <3>4, <3>7, <3>8
  <2> QED
    BY <2>3, <2>4, <2>5
<1>3. CASE UNCHANGED <<called, subscriptions, filters>>
  BY <1>b, <1>3
<1> QED
  <2>1. ASSUME NEW n \in Node, NEW k \in Node,
               End(n) \/ OpenDir(n) \/ ScanEnds(n) \/ Scan(n, k) \/ HandlePub(n, k)
               \/ ConnectionBreaks(n, k) \/ HandleInvitation(n, k)
        PROVE  UNCHANGED <<called, subscriptions, filters>>
    BY <2>1 DEF End, OpenDir, ScanEnds, Scan, HandlePub, ConnectionBreaks, HandleInvitation, topics
  <2>2. ASSUME NEW n \in Node, NEW r \in replies[n], HandleConfirmation(n, r)
        PROVE  UNCHANGED <<called, subscriptions, filters>>
    BY <2>2 DEF HandleConfirmation, topics
  <2>3. UNCHANGED vars => UNCHANGED <<called, subscriptions, filters>>
    BY DEF vars, topics
  <2> QED
    BY <1>1, <1>2, <1>3, <2>1, <2>2, <2>3 DEF Next, Thread

LEMMA StayingIsWanted ==
    ASSUME TypeOK, FilterInv, NEW n \in Node, NEW m \in Node, NEW t \in Topic, Stays(m),
           NEW p \in 1..heard[n][m], At(m, p) = SubOf(t)
    PROVE  Wants(n, m, t)
<1>1. heard[n][m] \in Nat /\ heard[n][m] <= Len(filters[m]) /\ Len(filters[m]) \in Nat
  BY DEF TypeOK
<1>2. NoneCancelled(m)
  BY DEF FilterInv
<1>3. \A j \in (p + 1)..heard[n][m] : filters[m][j] # [op |-> "unsub", t |-> t]
  BY <1>1, <1>2 DEF NoneCancelled, Places, At
<1> QED
  BY <1>3 DEF Wants, At, SubOf

LEMMA FiltersOnlyGrow == TypeOK /\ [Next]_vars => FiltersGrow
<1> SUFFICES ASSUME TypeOK, [Next]_vars PROVE FiltersGrow
  OBVIOUS
<1>1. filters \in [Node -> Seq(Filter)]
  BY DEF TypeOK
<1>2. UNCHANGED filters => FiltersGrow
  BY <1>1 DEF FiltersGrow, Extends
<1>3. ASSUME NEW n \in Node, HandleSubscription(n) PROVE FiltersGrow
  <2>1. called[n] \in Nat /\ called[n] < Len(Calls[n]) /\ Len(Calls[n]) \in Nat
    BY <1>3, MailboxAssumption DEF HandleSubscription, TypeOK
  <2>2. Calls[n][called[n] + 1].t \in Topic
    BY <2>1, CallsAreTyped
  <2> QED
    BY <1>1, <1>3, <2>2, CallsGrow DEF HandleSubscription
<1>4. ASSUME NEW n \in Node, NEW k \in Node,
             End(n) \/ OpenDir(n) \/ ScanEnds(n) \/ Scan(n, k) \/ HandlePub(n, k)
             \/ ConnectionBreaks(n, k) \/ HandleInvitation(n, k)
      PROVE  UNCHANGED filters
  BY <1>4 DEF End, OpenDir, ScanEnds, Scan, HandlePub, ConnectionBreaks, HandleInvitation, topics
<1>5. ASSUME NEW n \in Node, NEW r \in replies[n], HandleConfirmation(n, r) PROVE UNCHANGED filters
  BY <1>5 DEF HandleConfirmation, topics
<1>6. UNCHANGED vars => UNCHANGED filters
  BY DEF vars, topics
<1> QED
  BY <1>1, <1>2, <1>3, <1>4, <1>5, <1>6, BindGrows DEF Next, Thread

HeardInv == ConfirmedWasHeard /\ HeardIsPublished

LEMMA HeardInvIsKept == TypeOK /\ FilterInv /\ HeardInv /\ [Next]_vars => HeardInv'
<1> SUFFICES ASSUME TypeOK, FilterInv, HeardInv, [Next]_vars PROVE HeardInv'
  OBVIOUS
<1>t. /\ phase \in [Node -> Phases]
      /\ filters \in [Node -> Seq(Filter)]
      /\ heard \in [Node -> [Node -> Nat]]
      /\ publications \in [Node -> SUBSET Topic]
      /\ replies \in [Node -> SUBSET (Node \X Topic)]
      /\ confirmed \in [Node -> SUBSET (Node \X Topic)]
      /\ \A n, m \in Node : heard[n][m] <= Len(filters[m])
  BY DEF TypeOK
<1>h. ConfirmedWasHeard /\ HeardIsPublished
  BY DEF HeardInv
\* What was heard of is where it was.
<1>g. \A n, m \in Node : \A p \in 1..heard[n][m] : At(m, p)' = At(m, p)
  <2>1. \A m \in Node : Extends(filters'[m], filters[m]) /\ Len(filters[m]) \in Nat
    BY <1>t, FiltersOnlyGrow DEF FiltersGrow
  <2> QED
    BY <1>t, <2>1 DEF Extends, At
\* Steps that no one hears anything in.
<1>1. ASSUME UNCHANGED <<heard, publications>>,
             \A m \in Node : phase'[m] # "dead" => phase[m] # "dead",
             \A m \in Node : replies'[m] \cup confirmed'[m] \subseteq replies[m] \cup confirmed[m]
      PROVE  HeardInv'
  <2>1. ConfirmedWasHeard'
    <3> SUFFICES ASSUME NEW n \in Node, NEW m \in Node, NEW t \in Topic, phase'[m] # "dead",
                        <<n, t>> \in replies'[m] \cup confirmed'[m]
                 PROVE  \E p \in 1..heard'[n][m] : At(m, p)' = ConfirmOf(t)
      BY DEF ConfirmedWasHeard
    <3>1. PICK p \in 1..heard[n][m] : At(m, p) = ConfirmOf(t)
      BY <1>1, <1>h DEF ConfirmedWasHeard
    <3> QED
      BY <1>1, <1>g, <3>1
  <2>2. HeardIsPublished'
    <3> SUFFICES ASSUME NEW n \in Node, NEW m \in Node, NEW t \in Topic, Stays(m), phase'[m] # "dead",
                        NEW p \in 1..heard'[n][m], At(m, p)' = SubOf(t)
                 PROVE  t \in publications'[n]
      BY DEF HeardIsPublished, Stays
    <3>1. p \in 1..heard[n][m] /\ At(m, p) = SubOf(t)
      BY <1>1, <1>g
    <3> QED
      BY <1>1, <1>h, <3>1 DEF HeardIsPublished
  <2> QED
    BY <2>1, <2>2 DEF HeardInv
<1>2. ASSUME NEW n \in Node, NEW k \in Node, HandlePub(n, k) PROVE HeardInv'
  <2> DEFINE h == heard[n][k]
             e == filters[k][h + 1]
  <2>1. /\ UNCHANGED <<phase, filters, confirmed>>
        /\ heard' = [heard EXCEPT ![n][k] = heard[n][k] + 1]
        /\ h \in Nat /\ h < Len(filters[k]) /\ Len(filters[k]) \in Nat
    BY <1>2, <1>t DEF HandlePub, topics
  <2>2. e \in Filter
    BY <1>t, <2>1
  <2>3. /\ heard'[n][k] = h + 1
        /\ \A i, j \in Node : i # n \/ j # k => heard'[i][j] = heard[i][j]
    BY <1>t, <2>1
  <2>4. \A i, j \in Node : heard[i][j] \in Nat /\ \A p : At(j, p)' = At(j, p)
    BY <1>t, <2>1 DEF At
  <2>5. \/ UNCHANGED publications
        \/ e.op = "sub" /\ publications' = [publications EXCEPT ![n] = publications[n] \cup {e.t}]
        \/ /\ e.op = "unsub"
           /\ publications' = [publications EXCEPT
                 ![n] = IF WantedByOther(n, k, e.t) THEN publications[n] ELSE publications[n] \ {e.t}]
    BY <1>2 DEF HandlePub
  <2>6. e.op = "sub" => publications' = [publications EXCEPT ![n] = publications[n] \cup {e.t}]
    BY <1>2 DEF HandlePub
  <2>7. \/ UNCHANGED replies
        \/ e.op = "confirm" /\ replies' = [replies EXCEPT ![k] = replies[k] \cup {<<n, e.t>>}]
    BY <1>2 DEF HandlePub, Confirm
  <2> HIDE DEF h, e
  <2>8. ConfirmedWasHeard'
    <3> SUFFICES ASSUME NEW i \in Node, NEW j \in Node, NEW t \in Topic, phase'[j] # "dead",
                        <<i, t>> \in replies'[j] \cup confirmed'[j]
                 PROVE  \E p \in 1..heard'[i][j] : At(j, p)' = ConfirmOf(t)
      BY DEF ConfirmedWasHeard
    <3>1. CASE <<i, t>> \in replies[j] \cup confirmed[j]
      <4>1. PICK p \in 1..heard[i][j] : At(j, p) = ConfirmOf(t)
        BY <1>h, <2>1, <3>1 DEF ConfirmedWasHeard
      <4>2. p \in 1..heard'[i][j]
        BY <2>3, <2>4 DEF h
      <4> QED
        BY <2>4, <4>1, <4>2
    <3>2. CASE <<i, t>> \notin replies[j] \cup confirmed[j]
      <4>1. i = n /\ j = k /\ e.op = "confirm" /\ t = e.t
        <5>1. <<i, t>> \in replies'[j]
          BY <2>1, <3>2
        <5>2. e.op = "confirm" /\ replies' = [replies EXCEPT ![k] = replies[k] \cup {<<n, e.t>>}]
          BY <2>7, <3>2, <5>1
        <5>3. j = k
          BY <1>t, <3>2, <5>1, <5>2
        <5>4. <<i, t>> = <<n, e.t>>
          BY <1>t, <3>2, <5>1, <5>2, <5>3
        <5> QED
          BY <5>2, <5>3, <5>4
      <4>2. e = ConfirmOf(t)
        BY <2>2, <4>1 DEF Filter, ConfirmOf
      <4>3. h + 1 \in 1..heard'[i][j]
        BY <2>1, <2>3, <4>1
      <4>4. At(j, h + 1) = ConfirmOf(t)
        BY <4>1, <4>2 DEF At, e
      <4> QED
        BY <2>4, <4>3, <4>4 DEF h
    <3> QED
      BY <3>1, <3>2
  <2>9. HeardIsPublished'
    <3> SUFFICES ASSUME NEW i \in Node, NEW j \in Node, NEW t \in Topic, Stays(j), phase'[j] # "dead",
                        NEW p \in 1..heard'[i][j], At(j, p)' = SubOf(t)
                 PROVE  t \in publications'[i]
      BY DEF HeardIsPublished, Stays
    <3>1. CASE p \in 1..heard[i][j]
      <4>1. t \in publications[i] /\ Wants(i, j, t)
        BY <1>h, <2>1, <2>4, <3>1, StayingIsWanted DEF HeardIsPublished
      <4>2. CASE i # n \/ e.op # "unsub" \/ e.t # t
        BY <1>t, <2>5, <4>1, <4>2
      <4>3. CASE i = n /\ e.op = "unsub" /\ j # k
        <5>1. e.t = t => WantedByOther(n, k, e.t)
          BY <4>1, <4>3 DEF WantedByOther
        <5> QED
          BY <1>t, <2>5, <4>1, <5>1
      <4>4. CASE e.op = "unsub" /\ j = k
        <5>1. NoneCancelled(k) /\ h + 1 \in Places(k)
          BY <2>1, <4>4 DEF FilterInv, Places
        <5> QED
          BY <4>4, <5>1 DEF NoneCancelled, At, e
      <4> QED
        BY <4>2, <4>3, <4>4
    <3>2. CASE p \notin 1..heard[i][j]
      <4>1. i = n /\ j = k /\ p = h + 1
        BY <2>1, <2>3, <2>4, <3>2 DEF h
      <4>2. e = SubOf(t)
        BY <2>4, <4>1 DEF At, e
      <4>3. e.op = "sub" /\ e.t = t
        BY <4>2 DEF SubOf
      <4> QED
        BY <1>t, <2>6, <4>1, <4>3
    <3> QED
      BY <3>1, <3>2
  <2> QED
    BY <2>8, <2>9 DEF HeardInv
<1>3. ASSUME NEW n \in Node, NEW k \in Node, ConnectionBreaks(n, k) PROVE HeardInv'
  <2>1. /\ UNCHANGED <<phase, filters, replies, confirmed>> /\ phase[k] = "dead"
        /\ heard' = [heard EXCEPT ![n][k] = 0]
        /\ publications' = [publications EXCEPT
              ![n] = {t \in publications[n] : Wants(n, k, t) => WantedByOther(n, k, t)}]
    BY <1>3 DEF ConnectionBreaks, topics
  <2>2. \A i, j \in Node : j # k => heard'[i][j] = heard[i][j]
    BY <1>t, <2>1
  <2>3. ConfirmedWasHeard'
    BY <1>h, <2>1, <2>2 DEF ConfirmedWasHeard, At
  <2>4. HeardIsPublished'
    <3> SUFFICES ASSUME NEW i \in Node, NEW j \in Node, NEW t \in Topic, Stays(j), phase'[j] # "dead",
                        NEW p \in 1..heard'[i][j], At(j, p)' = SubOf(t)
                 PROVE  t \in publications'[i]
      BY DEF HeardIsPublished, Stays
    <3>1. j # k /\ p \in 1..heard[i][j] /\ At(j, p) = SubOf(t)
      BY <2>1, <2>2 DEF At
    <3>2. t \in publications[i] /\ Wants(i, j, t)
      BY <1>h, <2>1, <3>1, StayingIsWanted DEF HeardIsPublished
    <3>3. i = n => WantedByOther(n, k, t)
      BY <3>1, <3>2 DEF WantedByOther
    <3> QED
      BY <1>t, <2>1, <3>2, <3>3
  <2> QED
    BY <2>3, <2>4 DEF HeardInv
<1> QED
  <2>1. ASSUME NEW n \in Node, OpenDir(n) \/ ScanEnds(n) \/ Bind(n) \/ End(n) PROVE HeardInv'
    <3>1. \A m \in Node : phase'[m] # "dead" => phase[m] # "dead"
      BY <1>t, <2>1 DEF OpenDir, ScanEnds, Bind, End
    <3> QED
      BY <1>1, <2>1, <3>1 DEF OpenDir, ScanEnds, Bind, End
  <2>2. ASSUME NEW n \in Node, NEW k \in Node, Scan(n, k) \/ HandleInvitation(n, k) \/ HandleSubscription(n)
        PROVE HeardInv'
    BY <1>1, <2>2 DEF Scan, HandleInvitation, HandleSubscription
  <2>3. ASSUME NEW n \in Node, NEW r \in replies[n], HandleConfirmation(n, r) PROVE HeardInv'
    <3>1. \A m \in Node : replies'[m] \cup confirmed'[m] \subseteq replies[m] \cup confirmed[m]
      BY <1>t, <2>3 DEF HandleConfirmation
    <3> QED
      BY <1>1, <2>3, <3>1 DEF HandleConfirmation
  <2>4. UNCHANGED vars => HeardInv'
    BY <1>1 DEF vars
  <2> QED
    BY <1>2, <1>3, <2>1, <2>2, <2>3, <2>4 DEF Next, Thread

LEMMA HeardIsOrdered == TypeOK /\ FilterInv /\ HeardInv => ConfirmedInOrder
<1> SUFFICES ASSUME TypeOK, FilterInv, HeardInv, NEW n \in Node, NEW m \in Node, NEW i \in 1..called[m],
                    Stays(m), FirstCall(m, i), Alive(m), <<n, Calls[m][i].t>> \in confirmed[m],
                    NEW j \in 1..i
             PROVE  Calls[m][j].t \in publications[n]
  BY DEF ConfirmedInOrder
<1>1. called[m] \in Nat /\ heard[n][m] \in Nat /\ heard[n][m] <= Len(filters[m]) /\ Len(filters[m]) \in Nat
  BY DEF TypeOK
<1>2. called[m] <= Len(Calls[m]) /\ SetInOrder(m) /\ Len(Calls[m]) \in Nat
  BY MailboxAssumption DEF FilterInv
<1>3. Calls[m][i].t \in Topic /\ Calls[m][j].t \in Topic
  BY <1>1, <1>2, CallsAreTyped
<1>4. PICK p \in 1..heard[n][m] : At(m, p) = ConfirmOf(Calls[m][i].t)
  BY <1>3 DEF HeardInv, ConfirmedWasHeard, Alive
<1>5. PICK q \in 1..(p - 1) : At(m, q) = SubOf(Calls[m][j].t)
  BY <1>1, <1>2, <1>4 DEF SetInOrder, Places
<1>6. q \in 1..heard[n][m]
  BY <1>1
<1> QED
  BY <1>3, <1>5, <1>6 DEF HeardInv, HeardIsPublished, Alive

\* A node that was told that another knows of a subscription of its own also
\* gets what the other sends on all topics it subscribed to before.
THEOREM ConfirmationsKeepTheOrder == Spec => []ConfirmedInOrder
<1>1. Init => FilterInv /\ HeardInv
  <2> SUFFICES ASSUME Init PROVE FilterInv /\ HeardInv
    OBVIOUS
  <2>1. \A m \in Node : filters[m] = <<>> /\ called[m] = 0 /\ replies[m] = {} /\ confirmed[m] = {}
    BY DEF Init
  <2>2. ASSUME NEW m \in Node PROVE Places(m) = {} /\ Topics(m) = {} /\ 0 <= Len(Calls[m])
    <3>1. Calls[m] \in Seq([op : {"sub", "unsub"}, t : Topic])
      BY MailboxAssumption
    <3>2. Len(Calls[m]) \in Nat
      BY <3>1
    <3>3. filters[m] = <<>> /\ called[m] = 0
      BY <2>1
    <3>4. Len(filters[m]) = 0
      BY <3>3
    <3>5. 1..0 = {}
      OBVIOUS
    <3>6. Places(m) = {} /\ Topics(m) = {}
      BY <3>3, <3>4, <3>5 DEF Places, Topics
    <3> QED
      BY <3>2, <3>6
  <2>3. \A m \in Node, t \in Topic : subscriptions[m][t] = 0
    BY DEF Init
  <2>4. \A n, m \in Node : heard[n][m] = 0
    BY DEF Init
  <2> QED
    BY <2>1, <2>2, <2>3, <2>4 DEF FilterInv, NoneCancelled, CallsAreSet, CountedAreCalled, AskedAreCalled,
                                  SetInOrder, HeardInv, ConfirmedWasHeard, HeardIsPublished
<1> QED
  BY <1>1, FilterInvIsKept, HeardInvIsKept, HeardIsOrdered, TypeCorrect, PTL DEF Spec
=============================================================================
