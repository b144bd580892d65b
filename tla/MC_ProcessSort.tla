---------------------------- MODULE MC_ProcessSort ----------------------------
(***************************************************************************)
(* Three names; the collator ranks them apart in MCCollate and puts two of *)
(* them level in MCCollateTie.                                             *)
(***************************************************************************)
EXTENDS ProcessSort

MCCollate    == [n \in Names |-> IF n = "a" THEN 0 ELSE IF n = "b" THEN 1 ELSE 2]
MCCollateTie == [n \in Names |-> IF n = "c" THEN 1 ELSE 0]
====
