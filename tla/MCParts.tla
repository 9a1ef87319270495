-------------------------------- MODULE MCParts --------------------------------
(* The small components for TLC, one at a time: they share no state (the two    *)
(* rings of the upstream port share an interrupt, which IntelRx has), so that   *)
(* their product would show no more.                                           *)
EXTENDS IntelTx, IntelRx, VirtioConfig, GuestMemory, Checksum, MacTable, PortsRcu

CONSTANTS p1, p2, q1, q2, q3, zero, s1, s2, group, b1, b2, v, up, none

VARIABLE part       \* the component that runs

\* listener.cc is the only caller of rcu_register_thread.
RegisteredInCode == {ListenerThread}

OneHash == {[s \in Stations |-> b1]}

Started(p, begin) == IF part = p THEN begin ELSE "off"

Init ==
    /\ part \in {"tx", "rx", "config", "memory", "checksum", "table",
                "ports"}
    /\ TxInit(Started("tx", "idle"))
    /\ RxInit(IF part = "rx" THEN RX_BUFFERS ELSE 0, Started("rx", "idle"))
    /\ ConfigInit(Started("config", "idle"))
    /\ MemoryInit(Started("memory", "idle"))
    /\ ChecksumInit(Started("checksum", "caller"))
    /\ TableInit(IF part = "table" THEN Hashes ELSE OneHash)
    /\ RcuInit

Others == <<part, configVars, memoryVars, sumVars, tableVars, rcuVars>>

Next ==
    \/ TxNext /\ UNCHANGED <<rxVars, Others>>
    \/ part = "rx" /\ RxNext /\ UNCHANGED <<txVars, Others>>
    \/ /\ \/ ConfigNext   /\ UNCHANGED <<memoryVars, sumVars, tableVars, rcuVars>>
          \/ MemoryNext   /\ UNCHANGED <<configVars, sumVars, tableVars, rcuVars>>
          \/ ChecksumNext /\ UNCHANGED <<configVars, memoryVars, tableVars, rcuVars>>
          \/ /\ part = "table" /\ TableNext
             /\ UNCHANGED <<configVars, memoryVars, sumVars, rcuVars>>
          \/ /\ part = "ports" /\ RcuNext
             /\ UNCHANGED <<configVars, memoryVars, sumVars, tableVars>>
       /\ UNCHANGED <<txVars, rxVars, part>>

vars == <<txVars, rxVars, Others>>

Spec == Init /\ [][Next]_vars /\ TxFairness /\ RxFairness

=============================================================================
