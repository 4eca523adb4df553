---------------------------- MODULE FrameHandler ----------------------------
(***************************************************************************)
(* What the TCP server is promised by the function it calls for every      *)
(* frame (transport.FrameHandler): the calls run concurrently, each ends   *)
(* with one ACK byte, and AckSuccess for a data frame means the frame is   *)
(* stored, in the target database or in the dead letter queue.  A call     *)
(* that ends with AckFail, or that a restart cuts off, may have stored its *)
(* frame or not.                                                           *)
(***************************************************************************)
EXTENDS Frame

CONSTANT Calls      \* identifiers of the calls that run at the same time

VARIABLES
    call,       \* Calls -> [pc, frame, ack]
    stored,     \* data frames in the target database or in the DLQ
    acked       \* history: data frames that were answered AckSuccess

handlerVars == <<call, stored, acked>>

Ready == [pc |-> "idle", frame |-> Heartbeat, ack |-> AckFail]

Invoke(c, f) ==
    /\ call[c].pc = "idle"
    /\ call' = [call EXCEPT ![c] = [pc |-> "busy", frame |-> f, ack |-> AckFail]]
    /\ UNCHANGED <<stored, acked>>

Store(c) ==
    /\ call[c].pc = "busy"
    /\ call[c].frame \in DataFrames
    /\ stored' = stored \cup {call[c].frame}
    /\ UNCHANGED <<call, acked>>

Reply(c) ==
    /\ call[c].pc = "busy"
    /\ \E ack \in {AckSuccess, AckFail} :
          /\ ack = AckSuccess => call[c].frame \in stored \cup {Heartbeat}
          /\ call' = [call EXCEPT ![c].pc = "replied", ![c].ack = ack]
          /\ acked' = IF ack = AckSuccess /\ call[c].frame \in DataFrames
                      THEN acked \cup {call[c].frame} ELSE acked
    /\ UNCHANGED stored

\* The server has taken the result.
Release(c) ==
    /\ call[c].pc = "replied"
    /\ call' = [call EXCEPT ![c] = Ready]
    /\ UNCHANGED <<stored, acked>>

\* The process dies and starts again; nothing that is stored is lost.
Restart ==
    /\ call' = [c \in Calls |-> Ready]
    /\ UNCHANGED <<stored, acked>>

Init ==
    /\ call = [c \in Calls |-> Ready]
    /\ stored = {}
    /\ acked = {}

Next ==
    \/ \E c \in Calls : \/ \E f \in Frames : Invoke(c, f)
                        \/ Store(c) \/ Reply(c) \/ Release(c)
    \/ Restart

Spec == Init /\ [][Next]_handlerVars
=============================================================================
