---------------------------- MODULE MCSafePrune ----------------------------
(***************************************************************************)
(* Instances of SafePrune for TLC.  The thresholds are small enough for    *)
(* the storage to reach each of them, to pass it and to stay below it; a   *)
(* third of three revisions is no whole percentage.                        *)
(***************************************************************************)
EXTENDS SafePrune

MCLimit == [maxCount : {0, 1, 2, 9}, maxPercent : {0, 33, 50, 100}, minTotal : {0, 3, 4}]
=============================================================================
