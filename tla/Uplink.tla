-------------------------------- MODULE Uplink --------------------------------
(***************************************************************************)
(* What the switch may expect of a port that keeps the packets it is given *)
(* until they are on the wire, without rings, descriptors or write-backs:  *)
(* it lends the port a packet, packets go out in the order they were lent, *)
(* and each comes back exactly once, after it went out and in that order.  *)
(***************************************************************************)
EXTENDS Naturals, Sequences

CONSTANT Packets

VARIABLES
    lent,           \* packets the port holds, oldest first
    gone            \* how many of them are on the wire

vars == <<lent, gone>>

Init == lent = <<>> /\ gone = 0

Lend(p) ==
    /\ \A i \in DOMAIN lent : lent[i] # p
    /\ lent' = Append(lent, p)
    /\ UNCHANGED gone

Transmit ==
    /\ gone < Len(lent)
    /\ gone' = gone + 1
    /\ UNCHANGED lent

Return ==
    /\ gone > 0
    /\ lent' = Tail(lent)
    /\ gone' = gone - 1

Next == (\E p \in Packets : Lend(p)) \/ Transmit \/ Return

Spec == Init /\ [][Next]_vars /\ WF_vars(Transmit) /\ WF_vars(Return)

=============================================================================
