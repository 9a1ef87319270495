------------------------------ MODULE MCPortsRcu ------------------------------
(* Instances of PortsRcu for TLC. *)
EXTENDS PortsRcu

\* listener.cc is the only caller of rcu_register_thread.
RegisteredInCode == {ListenerThread}

\* Only the listener changes the list: what goes wrong is not for want of a
\* mutex around the copy.
OneWriter == stage[Main] = "idle"
=============================================================================
