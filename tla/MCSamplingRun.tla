------------------------------ MODULE MCSamplingRun ------------------------------
(* Instances of SamplingRun for TLC. *)
EXTENDS SamplingRun

\* Totals below, at and above a multiple of the batch size.
MCTotals == {3, 4, 7}
MCOneSize == {3}
MCBatchSizes == {2, 3}
=============================================================================
