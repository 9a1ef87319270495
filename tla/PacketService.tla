---------------------------- MODULE PacketService ----------------------------
(***************************************************************************)
(* What the main loop of the switch promises its ports, without polling,   *)
(* notifications or blocking.  It serves in rounds: a round begins with    *)
(* the ports that are listed at that moment, and packets are taken of      *)
(* these ports only.  Who changes the list does not wait for the round to  *)
(* end, and may lose the changes of others.  A port found broken ends the  *)
(* round and leaves the list.  Every packet of a listed port is taken,     *)
(* unless the port came into the list with packets it told nobody of       *)
(* since: such a port may be overlooked until a round gets to it.  The     *)
(* service stops when, and only when, it has been told to; but it breaks   *)
(* down when the queues of a port it serves are withdrawn.                 *)
(***************************************************************************)
EXTENDS Naturals

CONSTANTS
    Ports,
    NoPort,
    PromptPorts     \* those of them the liveness promise is made to

VARIABLES
    waiting,        \* packets handed over and not yet taken, per port
    listed,         \* the ports the next round will serve
    served,         \* the ports of this round
    overlooked,     \* listed ports no round needs to know of
    withdrawn,      \* ports without their queues
    culprit,        \* the port that was found broken in this round
    stopping,       \* the service was told to stop
    running

portVars == <<waiting, listed, overlooked, withdrawn>>
vars     == <<portVars, served, culprit, stopping, running>>

Init ==
    /\ waiting = [p \in Ports |-> 0]
    /\ listed = {}
    /\ served = {}
    /\ overlooked = {}
    /\ withdrawn = Ports
    /\ culprit = NoPort
    /\ stopping = FALSE
    /\ running = TRUE

-----------------------------------------------------------------------------
(* The ports *)

Submit(p) ==
    /\ waiting' = [waiting EXCEPT ![p] = @ + 1]
    /\ UNCHANGED <<listed, served, overlooked, withdrawn, culprit, stopping, running>>

\* The queues of p come or go, and with them, perhaps, what is in them.
Reconfigure(p) ==
    /\ waiting' \in {waiting, [waiting EXCEPT ![p] = 0]}
    /\ withdrawn' \in {withdrawn \cup {p}, withdrawn \ {p}}
    /\ UNCHANGED <<listed, served, overlooked, culprit, stopping, running>>

\* Only a port that comes into the list can be overlooked.
NewList(list) ==
    /\ listed' = list
    /\ overlooked' \subseteq list \cap (overlooked \cup (list \ listed))

Relist(list) ==
    /\ NewList(list)
    /\ UNCHANGED <<waiting, served, withdrawn, culprit, stopping, running>>

-----------------------------------------------------------------------------
(* The service *)

BeginRound ==
    /\ running
    /\ served = {}
    /\ served' = listed
    /\ UNCHANGED <<portVars, culprit, stopping, running>>

EndRound ==
    /\ culprit = NoPort
    /\ served' = {}
    /\ UNCHANGED <<portVars, culprit, stopping, running>>

Notice(p) ==
    /\ running
    /\ p \in served
    /\ overlooked' = overlooked \ {p}
    /\ UNCHANGED <<waiting, listed, served, withdrawn, culprit, stopping, running>>

Take(p) ==
    /\ running
    /\ culprit = NoPort
    /\ p \in served
    /\ waiting[p] > 0
    /\ waiting' = [waiting EXCEPT ![p] = @ - 1]
    /\ UNCHANGED <<listed, served, overlooked, withdrawn, stopping, running>>

Serve(p) == Take(p) /\ UNCHANGED culprit

\* While the packet of p is served, q turns out to be broken.
Blame(p, q) ==
    /\ Take(p)
    /\ q \in served
    /\ culprit' = q

\* The list is published without the culprit, and the round is over.
Expel(list) ==
    /\ culprit # NoPort
    /\ culprit \notin list
    /\ NewList(list)
    /\ served' = {}
    /\ culprit' = NoPort
    /\ UNCHANGED <<waiting, withdrawn, stopping, running>>

-----------------------------------------------------------------------------
RequestStop ==
    /\ stopping' = TRUE
    /\ UNCHANGED <<portVars, served, culprit, running>>

Stop ==
    /\ stopping
    /\ running
    /\ running' = FALSE
    /\ UNCHANGED <<portVars, served, culprit, stopping>>

BreakDown ==
    /\ running
    /\ served \cap withdrawn # {}
    /\ running' = FALSE
    /\ served' = {}
    /\ UNCHANGED <<portVars, culprit, stopping>>

Next ==
    \/ \E p \in Ports : Submit(p) \/ Reconfigure(p) \/ Notice(p) \/ Serve(p)
    \/ \E p, q \in Ports : Blame(p, q)
    \/ \E list \in SUBSET Ports : Relist(list) \/ Expel(list)
    \/ BeginRound
    \/ EndRound
    \/ RequestStop
    \/ Stop
    \/ BreakDown

\* The service owes it to p to take a packet.
Owed(p) ==
    /\ running
    /\ ~stopping
    /\ p \in listed \ overlooked
    /\ waiting[p] > 0

TakeFrom(p) == Serve(p) \/ \E q \in Ports : Blame(p, q)

\* It does not owe it for ever.
Fairness ==
    /\ \A p \in PromptPorts : []<>~Owed(p) \/ []<><<TakeFrom(p)>>_vars
    /\ WF_vars(Stop)

SafeSpec == Init /\ [][Next]_vars
Spec     == SafeSpec /\ Fairness

=============================================================================
