---------------------------- MODULE MC_Dashboard ----------------------------
(* Dashboard with two sparkline points of height 2 and tick totals that    *)
(* truncate to 0, 1, 2 or 3 units, so that both the scaled and the         *)
(* unscaled branch of updateStatus are taken.                              *)
EXTENDS Dashboard

MCReadTotals  == {0, 1500, 3000}
MCWriteTotals == {0, 2999}
====
