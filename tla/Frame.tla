------------------------------- MODULE Frame -------------------------------
(***************************************************************************)
(* The frames of the protocol (internal/protocol) as the receiver sees     *)
(* them after Decode, and the two ACK bytes.                               *)
(***************************************************************************)
EXTENDS Naturals

CONSTANTS
    Seqs,       \* sequence numbers of data frames
    Contents,   \* payloads of data frames
    CRC         \* payload -> checksum in the frame header

\* Two payloads that share a sequence number differ in their checksum.
ASSUME FrameAssumption ==
    /\ Seqs \subseteq Nat \ {0}
    /\ Contents \subseteq Nat
    /\ CRC \in [Contents -> Nat]
    /\ \A a, b \in Contents : CRC[a] = CRC[b] => a = b

DataFrames == [typ : {"data"}, seq : Seqs, data : Contents]

\* A heartbeat uses seq 0, which no data frame has.
Heartbeat == [typ |-> "heartbeat", seq |-> 0, data |-> 0]

\* A frame that Decode rejects: its payload does not match its checksum.
Damaged == [typ |-> "damaged", seq |-> 0, data |-> 0]

Frames == DataFrames \cup {Heartbeat, Damaged}

AckSuccess == 255
AckFail == 0
=============================================================================
