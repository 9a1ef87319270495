----------------------------- MODULE MCVirtQueue -----------------------------
(* An instance of VirtQueue for TLC. *)
EXTENDS VirtQueue

\* A packet of two chains and one of a single chain.
Sizes == <<2, 1>>
=============================================================================
