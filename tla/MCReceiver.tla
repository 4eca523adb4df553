----------------------------- MODULE MCReceiver -----------------------------
(* Instances of Receiver for TLC.                                          *)
EXTENDS Receiver, TLC

CONSTANTS h1, h2

\* A checksum that is 0 for one of the payloads (R22).
MCCRC == [d \in Contents |-> d * 7 % 3]

Symmetry == Permutations(Handlers)
=============================================================================
