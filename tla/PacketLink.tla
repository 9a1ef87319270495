------------------------------ MODULE PacketLink ------------------------------
(***************************************************************************)
(* What two guests may expect of the switch between them, without rings,   *)
(* indices or interrupts: a link that takes packets in the order they are  *)
(* sent, delivers each at most once, in whole or cut short, and gives the  *)
(* buffer back to the sender exactly once, after it is done with it.       *)
(***************************************************************************)
EXTENDS Naturals, Sequences

CONSTANT Size       \* packet -> how many receive buffers it fills

VARIABLES
    sent,           \* packets the sender has handed over so far
    outbox,         \* those it has not got back, oldest first
    delivered,      \* has the oldest of them reached the receiver?
    inbox,          \* what reached the receiver and it has not read yet
    cut             \* ends of the link that were cut off: "tx", "rx"

vars == <<sent, outbox, delivered, inbox, cut>>

Init ==
    /\ sent = 0
    /\ outbox = <<>>
    /\ delivered = FALSE
    /\ inbox = <<>>
    /\ cut = {}

\* What a sender that was cut off hands over is never seen.
Send ==
    /\ sent' = sent + 1
    /\ outbox' = IF "tx" \in cut THEN outbox ELSE Append(outbox, sent + 1)
    /\ UNCHANGED <<delivered, inbox, cut>>

\* The first n buffers' worth of the oldest packet arrive.
Deliver(n) ==
    /\ cut = {}
    /\ outbox # <<>>
    /\ ~delivered
    /\ n \in 1 .. Size[Head(outbox)]
    /\ inbox' = Append(inbox, [packet |-> Head(outbox), parts |-> n])
    /\ delivered' = TRUE
    /\ UNCHANGED <<sent, outbox, cut>>

\* Delivered or dropped, the buffer of the oldest packet goes back.
Return ==
    /\ "tx" \notin cut
    /\ outbox # <<>>
    /\ outbox' = Tail(outbox)
    /\ delivered' = FALSE
    /\ UNCHANGED <<sent, inbox, cut>>

Read ==
    /\ inbox # <<>>
    /\ inbox' = Tail(inbox)
    /\ UNCHANGED <<sent, outbox, delivered, cut>>

\* A sender that is cut off never gets back what it has handed over.
CutOff(end) ==
    /\ end \notin cut
    /\ cut' = cut \cup {end}
    /\ outbox' = IF end = "tx" THEN <<>> ELSE outbox
    /\ delivered' = (end # "tx" /\ delivered)
    /\ UNCHANGED <<sent, inbox>>

Next ==
    \/ Send
    \/ Return
    \/ Read
    \/ \E n \in 1 .. (IF outbox = <<>> THEN 0 ELSE Size[Head(outbox)]) : Deliver(n)
    \/ \E end \in {"tx", "rx"} : CutOff(end)

\* Buffers come back, and what arrived is read, unless that end is cut off.
Fairness ==
    /\ WF_vars(Return)
    /\ WF_vars(Read /\ "rx" \notin cut)

Spec == Init /\ [][Next]_vars /\ Fairness

=============================================================================
