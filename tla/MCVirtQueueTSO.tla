---------------------------- MODULE MCVirtQueueTSO ----------------------------
(* An instance of VirtQueueTSO for TLC. *)
EXTENDS VirtQueueTSO

\* Two packets, of a single chain each.
TwoSizes == <<1, 1>>
=============================================================================
