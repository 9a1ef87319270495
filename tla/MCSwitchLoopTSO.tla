---------------------------- MODULE MCSwitchLoopTSO ----------------------------
(* Instance of SwitchLoopTSO for TLC. *)
EXTENDS SwitchLoopTSO

TwoPending == [p \in Ports |-> 2]
=============================================================================
