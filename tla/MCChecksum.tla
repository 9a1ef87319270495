------------------------------- MODULE MCChecksum -------------------------------
(* Checksums for TLC, with as many words to a long as in the code. *)
EXTENDS Checksum

Init == ChecksumInit("caller")
Spec == Init /\ [][ChecksumNext]_sumVars

=============================================================================
