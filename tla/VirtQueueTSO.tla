----------------------------- MODULE VirtQueueTSO -----------------------------
(***************************************************************************)
(* VirtQueue on hardware with a store buffer (x86-TSO).  The store to      *)
(* used->idx in vq_flush is a release and the load of avail->flags in      *)
(* vq_irq an acquire: plain moves, and nothing between them is a full      *)
(* barrier, so that a driver may still see the old used->idx when the      *)
(* device has already looked whether it wants an interrupt.  What is       *)
(* written to the rings and buffers before used->idx becomes visible       *)
(* before it.                                                              *)
(***************************************************************************)
EXTENDS VirtQueue

VARIABLE shown      \* used->idx of the queues, as the drivers see it

tsoVars == <<vars, shown>>

TSOInit == Init /\ shown = used_idx

\* The rings as the drivers see them.
Visible == INSTANCE VirtQueue WITH used_idx <- shown

\* The hardware makes the loop's stores visible.
Drain ==
    /\ shown # used_idx
    /\ shown' = used_idx
    /\ UNCHANGED vars

\* A step of the loop leaves its stores in the buffer, but the write to the
\* event fd of an interrupt waits until they are visible.
Device ==
    /\ WorkQuantum
    /\ irq' # irq => shown = used_idx
    /\ UNCHANGED shown

\* The drivers do what they do in VirtQueue, barriers included, to what they see.
Drivers == Visible!Guests /\ UNCHANGED used_idx

TSONext == Device \/ Drain \/ Drivers

TSOSpec == TSOInit /\ [][TSONext]_tsoVars

\* virtiodevice-io.cc, where vq_flush has published a chain: "Guest may need to
\* be interrupted. Check this in poll_irq."  If the check served its purpose, no
\* driver of an attached port would sleep with entries in the used ring it sees
\* and neither an interrupt on the way nor a check to come.
InterruptsTold == Visible!NoLostInterrupt

=============================================================================
