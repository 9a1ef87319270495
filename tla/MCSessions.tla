------------------------------ MODULE MCSessions ------------------------------
(* Instances of Sessions for TLC. *)
EXTENDS Sessions

CONSTANTS c1, c2, c3

\* As many numbers as two or three sessions with a file each need, so that
\* numbers are used again and run out.
Numbers == 1 .. 4
=============================================================================
