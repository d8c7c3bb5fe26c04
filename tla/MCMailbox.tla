----------------------------- MODULE MCMailbox -----------------------------
(***************************************************************************)
(* Nodes for TLC: a GUI that subscribes to two topics, and a node that     *)
(* cancels, may be killed at any time, and is then started again.          *)
(***************************************************************************)
EXTENDS Mailbox

CONSTANTS gui, ai, again, first, last

Sub(t) == [op |-> "sub", t |-> t]
Unsub(t) == [op |-> "unsub", t |-> t]
Programs == [n \in Node |-> CASE n = gui -> <<Sub(first), Sub(last)>>
                              [] n = ai -> <<Sub(last), Unsub(last)>>
                              [] n = again -> <<>>]
Restart == [n \in Node |-> IF n = again THEN {ai} ELSE {}]
=============================================================================
