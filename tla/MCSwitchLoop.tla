----------------------------- MODULE MCSwitchLoop -----------------------------
(* Instances of SwitchLoop for TLC; the other constants are in the .cfg files. *)
EXTENDS SwitchLoop

\* Ports with hairpin traffic get one packet outstanding, the others two.
FewPending == [p \in Ports |-> IF p \in HairpinPorts THEN 1 ELSE 2]

\* Two packets everywhere: a batch of one leaves the second one behind.
TwoPending == [p \in Ports |-> 2]
=============================================================================
