------------------------------- MODULE MCLink -------------------------------
(* Instances of Link for TLC.                                              *)
EXTENDS Link

\* A checksum that is 0 for one of the payloads.
MCCRC == [d \in Contents |-> d * 7 % 3]
=============================================================================
