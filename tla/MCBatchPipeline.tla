---------------------------- MODULE MCBatchPipeline ----------------------------
(* Instances of BatchPipeline for TLC: rows from two uploaded files. *)
EXTENDS BatchPipeline

CONSTANTS a1, a2, a3, a4

\* Two batches; gaps in the row numbers where ingest rejected a line; a2 was uploaded
\* twice and selected twice.
FiveRows == 1 .. 5
TwoBatchOf == <<1, 1, 1, 2, 2>>
TwoBatchNumber == <<1, 2, 4, 2, 3>>
FourAccounts == {a1, a2, a3, a4}
TwoBatchAccount == <<a1, a2, a3, a2, a4>>

\* One batch selected from two files: both files have a row number 2.
ThreeRows == 1 .. 3
OneBatchOf == <<1, 1, 1>>
SharedNumber == <<1, 2, 2>>
DistinctNumber == <<1, 2, 3>>
ThreeAccounts == {a1, a2, a3}
OneBatchAccount == <<a1, a2, a3>>
=============================================================================
