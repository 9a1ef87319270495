---------------------------- MODULE SwitchLoopTSO ----------------------------
(***************************************************************************)
(* SwitchLoop on hardware with a store buffer (x86-TSO).  The plain store  *)
(* to used->flags in VirtioDevice::poll may become visible to the guest    *)
(* only after the load of avail->idx that follows it: nothing between the  *)
(* two is a full barrier.  rcu_thread_offline is one, so the loop never    *)
(* sleeps with the store still buffered, so are the mutex and the exchange *)
(* of modify_ports, and so is the or in disable_notification, which needs  *)
(* no buffer of its own.                                                   *)
(***************************************************************************)
EXTENDS SwitchLoop, Sequences

VARIABLE storeBuffer    \* stores to used->flags on their way: <<port, value>>

tsoVars == <<vars, storeBuffer>>

TSOInit == Init /\ storeBuffer = <<>>

\* Bound on the stores on their way.
StoreBufferSize == 2

\* The store of PollNotify, into the buffer.
BufferNotify ==
    /\ pc = "notify"
    /\ rings[cur] # "none"
    /\ Len(storeBuffer) < StoreBufferSize
    /\ pc' = "pop"
    /\ storeBuffer' = Append(storeBuffer, <<cur, ~EnabledNotifications>>)
    /\ overlooked' = overlooked \ {cur}
    /\ UNCHANGED <<state, ports, left, cur, quota, work_done, culprit, shutdown_called,
                   event, attached, copied, deviceVars, threadVars>>

\* The hardware makes the oldest store visible.
Drain ==
    /\ storeBuffer # <<>>
    /\ LET store == Head(storeBuffer)
       IN  no_notify' = [no_notify EXCEPT ![store[1]] = store[2]]
    /\ storeBuffer' = Tail(storeBuffer)
    /\ UNCHANGED <<loopVars, shutdown_called, event, listVars, rings, ready, pending,
                   guest, threadVars>>

\* Every other step of the loop leaves the buffer alone; the barriers in
\* rcu_quiescent_state, modify_ports and rcu_thread_offline wait until it has
\* drained.
BufferedLoop ==
    /\ Loop
    /\ pc = "notify" => rings[cur] = "none"
    /\ pc \in {"top", "publish"} \/ pc' = "read" => storeBuffer = <<>>
    /\ UNCHANGED storeBuffer

TSONext ==
    \/ BufferNotify
    \/ Drain
    \/ BufferedLoop
    \/ (Stopper \/ Listener \/ \E p \in Ports : Guest(p)) /\ UNCHANGED storeBuffer

TSOSpec == TSOInit /\ [][TSONext]_tsoVars

\* switch.hh, of Port::poll: "This method has to enable or disable notifications
\* according to the given parameter, BEFORE polling the guest."  If it did, no
\* packet of an attached port would be left behind while the loop sleeps.
NotifiesBeforePolling == NoLostWakeup

=============================================================================
