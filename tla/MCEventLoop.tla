---------------------------- MODULE MCEventLoop ----------------------------
(***************************************************************************)
(* Three repeating functions of one priority, so that equals can pass over  *)
(* another, one of them with a longer delay; and two handlers of messages   *)
(* of which one is urgent.                                                 *)
(***************************************************************************)
EXTENDS EventLoop

MCFunction == {"periodic", "watchdog", "later", "message", "alarm"}
MCRepeating == {"periodic", "watchdog", "later"}
MCDelay == [periodic |-> 1, watchdog |-> 1, later |-> 2, message |-> 0, alarm |-> 0]
MCPriority == [f \in MCFunction |-> IF f = "alarm" THEN 0 ELSE 1]
=============================================================================
