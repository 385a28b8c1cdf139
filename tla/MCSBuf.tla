------------------------------- MODULE MCSBuf -------------------------------
(* Instances of SBuf for TLC. *)
EXTENDS SBuf
CONSTANTS p1, p2, r1, r2
=============================================================================
