--------------------------- MODULE MC_StatusMonitor ---------------------------
(***************************************************************************)
(* Three pids: 1 is a wine program with a window (desktop file d1), 2 a    *)
(* wineserver.real launched for d1, 3 another windowed program. Any of     *)
(* them may be started under any live parent, so 2 and 3 can be           *)
(* descendants of 1 and of each other, and a pid can be reused.           *)
(***************************************************************************)
EXTENDS StatusMonitor

MCMem          == [p \in Pids |-> 1]
MCServerMarker == [p \in Pids |-> IF p = 2 THEN "d1" ELSE NoDesktop]
MCWineApp      == [p \in Pids |-> IF p = 1 THEN "d1" ELSE NoDesktop]
====
