------------------------------ MODULE MCWatch ------------------------------
(***************************************************************************)
(* Processes for TLC: a service, and a script that depends on it.          *)
(***************************************************************************)
EXTENDS Watch

CONSTANTS svc, script

NeedsService == [p \in Process |-> IF p = script THEN {svc} \cap Process ELSE {}]
TakesAlong == [p \in Process |-> IF p = svc THEN {script} ELSE {}]
ReportsOrRestarts == [p \in Process |-> IF p = script THEN "report" ELSE "restart"]
JustKill == <<"kill">>
=============================================================================
