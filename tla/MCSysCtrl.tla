------------------------------ MODULE MCSysCtrl ------------------------------
(* Two observers, one of a key, one of every key; two keys; one client.     *)
EXTENDS SysCtrl

CONSTANTS obsKey, obsAll

MCObs == {obsKey, obsAll}
MCEvent == {"key1", "key2", "keys"}
MCObsEvent == [o \in MCObs |-> IF o = obsKey THEN "key1" ELSE "keys"]

\* sys_ctrl.c compare, for events of one type.
MCMatches(e, f) == f = "keys" \/ e = f
=============================================================================
