----------------------------- MODULE LinkProofs -----------------------------
(***************************************************************************)
(* Proofs about Link, for any window of the sender, any number of          *)
(* concurrent calls, connections, frames, heartbeats, faults and rebuilt   *)
(* WALs.  The invariant, and its proof for the sender's steps, are in      *)
(* LinkSenderProofs.                                                       *)
(***************************************************************************)
EXTENDS LinkSenderProofs

-----------------------------------------------------------------------------
(***************************************************************************)
(* One lemma for each action of the server.                                *)
(***************************************************************************)

\* What a step of the server leaves to the client.
LEMMA ClientKept ==
    ASSUME LinkInv, UNCHANGED <<walVars, client, wire, got>>, stored \subseteq stored',
           read' \in [Conns -> Nat], next' \in [Conns -> Nat],
           acks' \in [Conns -> Seq({AckSuccess, AckFail})],
           srv' \in [Conns -> {"open", "closing", "closed"}]
    PROVE  TypeOK' /\ WalInv' /\ WindowInv' /\ SentInv' /\ CommittedMeansStored'
<1>1. TypeOK'
  BY Zenon DEF LinkInv, TypeOK, walVars, client
<1>2. WalInv' /\ WindowInv' /\ SentInv'
  BY Zenon DEF LinkInv, WalInv, WalFrame, WindowInv, SentInv, walVars, client
<1>3. CommittedMeansStored'
  BY Zenon DEF LinkInv, CommittedMeansStored, walVars
<1> QED
  BY <1>1, <1>2, <1>3, Zenon

\* The ACK bytes stay true when those of each connection do.
LEMMA AckInvStep ==
    ASSUME LinkInv, conn' = conn, got' = got,
           \A d \in Conns : \A start \in 1..(got[d] + 1) : AcksTrue(d, start) => AcksTrue(d, start)'
    PROVE  AckInv'
<1>1. \A d \in Conns : got[d] \in Nat /\ 1 \in 1..(got[d] + 1) /\ got[d] + 1 \in 1..(got[d] + 1)
  BY DEF LinkInv, TypeOK
<1>2. \A d \in Conns : AcksTrue(d, 1)'
  BY <1>1, Zenon DEF LinkInv, AckInv
<1>3. conn # 0 => conn \in Conns
  BY LinkAssumption DEF LinkInv, TypeOK, Conns
<1>4. conn # 0 => AcksTrue(conn, got[conn] + 1)'
  BY <1>1, <1>3, Zenon DEF LinkInv, AckInv
<1> QED
  BY <1>2, <1>4, Zenon DEF AckInv

\* Reading one more frame of connection c.
LEMMA ReadGrows ==
    ASSUME TypeOK, NEW c \in Conns, read' = [read EXCEPT ![c] = @ + 1]
    PROVE  /\ read' \in [Conns -> Nat] /\ read'[c] = read[c] + 1
           /\ \A d \in Conns : d # c => read'[d] = read[d]
           /\ \A d \in Conns : read[d] \in Nat /\ read'[d] \in Nat /\ read[d] <= read'[d]
<1>1. \A d \in Conns : read[d] \in Nat
  BY Zenon DEF TypeOK
<1>2. read'[c] = read[c] + 1 /\ \A d \in Conns : d # c => read'[d] = read[d]
  BY Zenon DEF TypeOK
<1>3. \A d \in Conns : read'[d] \in Nat /\ read[d] <= read'[d]
  BY <1>1, <1>2
<1> QED
  BY <1>1, <1>2, <1>3, SMTT(60) DEF TypeOK

\* A call that did not move keeps its frame.
LEMMA CallKept ==
    ASSUME CallInv, UNCHANGED <<wire, call>>, stored \subseteq stored',
           \A d \in Conns : read[d] \in Nat /\ read'[d] \in Nat /\ read[d] <= read'[d]
    PROVE  CallInv'
<1> SUFFICES ASSUME NEW c \in Conns, NEW n \in 1..MaxWire
             PROVE  LET k == call[<<c, n>>]
                    IN  /\ k.pc # "idle" => n <= read'[c] /\ k.frame = wire[c][n]
                        /\ k.pc = "replied" /\ k.ack = AckSuccess => k.frame \in stored' \cup {Heartbeat}
  BY Zenon DEF CallInv
<1>1. n <= read[c] => n <= read'[c]
  BY LinkAssumption
<1> QED
  BY <1>1, Zenon DEF CallInv

\* The receiver reads a damaged header and drops the connection.
LEMMA BadHeaderStep ==
    ASSUME LinkInv, NEW c \in Conns, ReadFrame(c), wire[c][read[c] + 1] = BadHeader
    PROVE  LinkInv'
<1> DEFINE r == read[c]
<1>1. /\ srv[c] = "open" /\ r < Len(wire[c])
      /\ read' = [read EXCEPT ![c] = @ + 1]
      /\ acks' = [acks EXCEPT ![c] = Append(@, AckFail)]
      /\ srv' = [srv EXCEPT ![c] = "closing"]
      /\ UNCHANGED <<walVars, client, wire, got, next, handlerVars>>
  BY Zenon DEF ReadFrame
<1>2. r \in Nat /\ Len(wire[c]) \in Nat /\ next[c] \in Nat /\ got[c] \in Nat /\ Len(acks[c]) \in Nat
  BY SMTT(60) DEF LinkInv, TypeOK
<1>3. /\ read' \in [Conns -> Nat] /\ read'[c] = r + 1 /\ \A d \in Conns : d # c => read'[d] = read[d]
      /\ srv' \in [Conns -> {"open", "closing", "closed"}]
      /\ srv'[c] = "closing" /\ \A d \in Conns : d # c => srv'[d] = srv[d]
  BY <1>1, <1>2, SMTT(60) DEF LinkInv, TypeOK
<1>4. /\ acks' \in [Conns -> Seq({AckSuccess, AckFail})]
      /\ Len(acks'[c]) = Len(acks[c]) + 1 /\ acks'[c][Len(acks[c]) + 1] = AckFail
      /\ \A k \in 1..Len(acks[c]) : acks'[c][k] = acks[c][k]
      /\ \A d \in Conns : d # c => acks'[d] = acks[d]
  <2>1. acks \in [Conns -> Seq({AckSuccess, AckFail})]
    BY ConnTypes, Zenon DEF LinkInv
  <2>2. acks' = [acks EXCEPT ![c] = Append(@, AckFail)]
    BY <1>1, Zenon
  <2> QED
    BY <2>1, <2>2, Grown
<1>5. TypeOK' /\ WalInv' /\ WindowInv' /\ SentInv' /\ CommittedMeansStored'
  BY <1>1, <1>3, <1>4, ClientKept, Zenon DEF LinkInv, TypeOK, handlerVars
<1>6. HandlerOK'
  BY <1>1, Zenon DEF LinkInv, HandlerOK, handlerVars
<1>7. ~BadRead(c) /\ BadRead(c)' /\ \A d \in Conns : d # c => (BadRead(d)' <=> BadRead(d))
  BY <1>1, <1>2, <1>3 DEF LinkInv, ConnInv, BadRead
<1>8. ConnInv'
  <2> SUFFICES ASSUME NEW d \in Conns
               PROVE  /\ next[d] <= read'[d] /\ read'[d] <= Len(wire[d]) /\ Len(wire[d]) <= MaxWire
                      /\ Len(acks'[d]) = next[d] + (IF BadRead(d)' THEN 1 ELSE 0)
                      /\ got[d] <= Len(acks'[d])
                      /\ BadRead(d)' => srv'[d] # "open" /\ next[d] < read'[d]
                      /\ d > dialed => wire[d] = <<>>
    BY <1>1, Zenon DEF ConnInv, client
  <2>1. CASE d = c
    BY <1>1, <1>2, <1>3, <1>4, <1>7, <2>1, SMTT(60) DEF LinkInv, ConnInv
  <2>2. CASE d # c
    BY <1>3, <1>4, <1>7, <2>2, Zenon DEF LinkInv, ConnInv
  <2> QED
    BY <2>1, <2>2, Zenon
<1>9. CallInv'
  BY <1>1, ReadGrows, CallKept, Zenon DEF LinkInv, handlerVars
<1>10. \A d \in Conns : \A start \in 1..(got[d] + 1) : AcksTrue(d, start) => AcksTrue(d, start)'
  <2> SUFFICES ASSUME NEW d \in Conns, NEW start \in 1..(got[d] + 1), AcksTrue(d, start)
               PROVE  AcksTrue(d, start)'
    BY Zenon
  <2>1. \A k : Answered(d, k)' <=> Answered(d, k)
    BY <1>1, Zenon DEF Answered, handlerVars
  <2>2. CASE d = c
    <3>1. start <= Len(acks[c]) + 1 /\ start \in Nat
      BY <1>2, <2>2, SMTT(60) DEF LinkInv, ConnInv
    <3>2. Len(acks[c]) + 1 \in start..Len(acks'[c])
      BY <1>2, <1>4, <3>1
    <3>3. ASSUME NEW k \in start..Len(acks'[c]), acks'[c][k] = AckSuccess
          PROVE  Answered(c, k) \/ \E j \in start..(k - 1) : acks'[c][j] = AckFail
      <4>1. k \in start..Len(acks[c]) /\ k \in 1..Len(acks[c])
        <5>1. AckSuccess # AckFail
          BY DEF AckSuccess, AckFail
        <5>2. k # Len(acks[c]) + 1
          BY <1>4, <3>3, <5>1, Zenon
        <5>3. Len(acks'[c]) = Len(acks[c]) + 1
          BY <1>4, Zenon
        <5> QED
          BY <1>2, <3>1, <5>2, <5>3
      <4>2. Answered(c, k) \/ \E j \in start..(k - 1) : acks[c][j] = AckFail
        BY <1>4, <2>2, <3>3, <4>1, Zenon DEF AcksTrue
      <4>3. \A j \in start..(k - 1) : j \in 1..Len(acks[c])
        BY <1>2, <3>1, <4>1
      <4> QED
        BY <1>4, <4>2, <4>3, Zenon
    <3> QED
      BY <1>4, <2>1, <2>2, <3>2, <3>3, Zenon DEF AcksTrue
  <2>3. CASE d # c
    BY <1>1, <1>3, <1>4, <1>7, <2>1, <2>3 DEF AcksTrue
  <2> QED
    BY <2>2, <2>3, Zenon
<1>11. AckInv'
  BY <1>1, <1>10, AckInvStep, Zenon DEF client
<1> QED
  BY <1>5, <1>6, <1>8, <1>9, <1>11, Zenon DEF LinkInv

\* The receiver reads a whole frame and calls the handler.
LEMMA InvokeStep ==
    ASSUME LinkInv, NEW c \in Conns, ReadFrame(c), wire[c][read[c] + 1] # BadHeader
    PROVE  LinkInv'
<1> DEFINE r == read[c]
           frame == wire[c][r + 1]
           k == <<c, r + 1>>
<1>1. /\ srv[c] = "open" /\ r < Len(wire[c])
      /\ read' = [read EXCEPT ![c] = @ + 1]
      /\ H!Invoke(k, frame)
      /\ UNCHANGED <<walVars, client, wire, got, next, acks, srv>>
  BY Zenon DEF ReadFrame
<1>2. /\ r \in Nat /\ Len(wire[c]) \in Nat /\ next[c] \in Nat /\ next[c] <= r
      /\ Len(wire[c]) <= MaxWire /\ wire[c] \in Seq(WireFrames)
  BY DEF LinkInv, TypeOK, ConnInv
<1>3. k \in CallIds /\ r + 1 \in 1..MaxWire /\ frame \in Frames
  <2>1. r + 1 \in 1..Len(wire[c]) /\ r + 1 \in 1..MaxWire
    BY <1>1, <1>2, LinkAssumption
  <2>2. frame \in WireFrames
    BY <1>2, <2>1
  <2> QED
    BY <2>1, <2>2, Zenon DEF CallIds, WireFrames
<1>4. /\ read' \in [Conns -> Nat] /\ read'[c] = r + 1
      /\ \A d \in Conns : d # c => read'[d] = read[d]
      /\ \A d \in Conns : read[d] \in Nat /\ read'[d] \in Nat /\ read[d] <= read'[d]
  BY <1>1, ReadGrows, Zenon DEF LinkInv
<1>5. /\ call' = [call EXCEPT ![k] = [pc |-> "busy", frame |-> frame, ack |-> AckFail]]
      /\ stored' = stored
  BY <1>1, SameNames, Zenon DEF H!Invoke
<1>6. HandlerOK'
  BY <1>3, <1>5, Zenon DEF LinkInv, HandlerOK
<1>7. TypeOK' /\ WalInv' /\ WindowInv' /\ SentInv' /\ CommittedMeansStored'
  BY <1>1, <1>4, <1>5, ClientKept, Zenon DEF LinkInv, TypeOK
<1>8. ~BadRead(c) /\ ~BadRead(c)' /\ \A d \in Conns : d # c => (BadRead(d)' <=> BadRead(d))
  BY <1>1, <1>4, Zenon DEF LinkInv, ConnInv, BadRead
<1>9. ConnInv'
  <2> SUFFICES ASSUME NEW d \in Conns
               PROVE  /\ next[d] <= read'[d] /\ read'[d] <= Len(wire[d]) /\ Len(wire[d]) <= MaxWire
                      /\ Len(acks[d]) = next[d] + (IF BadRead(d)' THEN 1 ELSE 0)
                      /\ got[d] <= Len(acks[d])
                      /\ BadRead(d)' => srv[d] # "open" /\ next[d] < read'[d]
                      /\ d > dialed => wire[d] = <<>>
    BY <1>1, Zenon DEF ConnInv, client
  <2>1. CASE d = c
    BY <1>1, <1>2, <1>4, <1>8, <2>1 DEF LinkInv, ConnInv
  <2>2. CASE d # c
    BY <1>4, <1>8, <2>2, Zenon DEF LinkInv, ConnInv
  <2> QED
    BY <2>1, <2>2, Zenon
<1>10. CallInv'
  <2>0. wire' = wire /\ stored' = stored
    BY <1>1, <1>5, Zenon
  <2> SUFFICES ASSUME NEW d \in Conns, NEW n \in 1..MaxWire
               PROVE  LET q == call'[<<d, n>>]
                      IN  /\ q.pc # "idle" => n <= read'[d] /\ q.frame = wire[d][n]
                          /\ q.pc = "replied" /\ q.ack = AckSuccess => q.frame \in stored \cup {Heartbeat}
    BY <2>0, Zenon DEF CallInv
  <2>1. <<d, n>> \in CallIds
    BY Zenon DEF CallIds
  <2>2. CASE <<d, n>> = k
    <3>1. call'[<<d, n>>] = [pc |-> "busy", frame |-> frame, ack |-> AckFail] /\ d = c /\ n = r + 1
      BY <1>3, <1>5, <2>1, <2>2, Zenon DEF LinkInv, HandlerOK
    <3> QED
      BY <1>2, <1>4, <3>1
  <2>3. CASE <<d, n>> # k
    <3>1. call'[<<d, n>>] = call[<<d, n>>]
      BY <1>3, <1>5, <2>1, <2>3, Zenon DEF LinkInv, HandlerOK
    <3>2. n <= read[d] => n <= read'[d]
      BY <1>4, LinkAssumption
    <3> QED
      BY <3>1, <3>2 DEF LinkInv, CallInv
  <2> QED
    BY <2>2, <2>3, Zenon
<1>11. \A d \in Conns : \A start \in 1..(got[d] + 1) : AcksTrue(d, start) => AcksTrue(d, start)'
  <2>1. \A d \in Conns : \A j : Answered(d, j)' <=> Answered(d, j)
    BY <1>1, <1>5, Zenon DEF Answered
  <2>2. \A d \in Conns : BadRead(d)' => BadRead(d) /\ read'[d] = read[d]
    BY <1>4, <1>8, Zenon
  <2> QED
    BY <1>1, <2>1, <2>2, Zenon DEF AcksTrue
<1>12. AckInv'
  BY <1>1, <1>11, AckInvStep, Zenon DEF client
<1> QED
  BY <1>6, <1>7, <1>9, <1>10, <1>12, Zenon DEF LinkInv

\* Whatever the receiver reads from a connection.
LEMMA ReadFrameStep == ASSUME LinkInv, NEW c \in Conns, ReadFrame(c) PROVE LinkInv'
BY BadHeaderStep, InvokeStep, Zenon

\* The server closes its end of a connection.
LEMMA CloseConnStep == ASSUME LinkInv, NEW c \in Conns, CloseConn(c) PROVE LinkInv'
<1>1. /\ srv' = [srv EXCEPT ![c] = "closed"]
      /\ UNCHANGED <<walVars, client, wire, got, read, next, acks, handlerVars>>
  BY Zenon DEF CloseConn
<1>2. /\ srv' \in [Conns -> {"open", "closing", "closed"}]
      /\ \A d \in Conns : srv'[d] = srv[d] \/ srv'[d] = "closed"
  BY <1>1, Zenon DEF LinkInv, TypeOK
<1>3. TypeOK' /\ WalInv' /\ WindowInv' /\ SentInv' /\ CommittedMeansStored'
  BY <1>1, <1>2, ClientKept, Zenon DEF LinkInv, TypeOK, handlerVars
<1>4. HandlerOK' /\ CallInv'
  BY <1>1, Zenon DEF LinkInv, HandlerOK, CallInv, handlerVars
<1>5. ConnInv'
  BY <1>1, <1>2, Zenon DEF LinkInv, ConnInv, BadRead, client
<1>6. AckInv'
  BY <1>1, Zenon DEF LinkInv, AckInv, AcksTrue, BadRead, Answered, client, handlerVars
<1> QED
  BY <1>3, <1>4, <1>5, <1>6, Zenon DEF LinkInv

\* The receiver writes the answer of a call to the connection.
LEMMA writeAckStep == ASSUME LinkInv, NEW c \in Conns, writeAck(c) PROVE LinkInv'
<1> DEFINE m == next[c] + 1
           k == <<c, m>>
           ack == call[k].ack
<1>1. /\ next[c] < read[c] /\ call[k].pc = "replied"
      /\ acks' = [acks EXCEPT ![c] = Append(@, ack)]
      /\ next' = [next EXCEPT ![c] = @ + 1]
      /\ H!Release(k)
      /\ UNCHANGED <<walVars, client, wire, got, read, srv>>
  BY Zenon DEF writeAck
<1>2. /\ next[c] \in Nat /\ read[c] \in Nat /\ Len(wire[c]) \in Nat /\ Len(acks[c]) \in Nat
      /\ got[c] \in Nat /\ read[c] <= Len(wire[c]) /\ Len(wire[c]) <= MaxWire
      /\ Len(acks[c]) = next[c] + (IF BadRead(c) THEN 1 ELSE 0)
      /\ got[c] <= Len(acks[c])
  BY DEF LinkInv, TypeOK, ConnInv
<1>3. m \in 1..MaxWire /\ k \in CallIds /\ m \in 1..Len(wire[c])
  BY <1>1, <1>2, LinkAssumption, SMTT(60) DEF CallIds
<1>4. /\ ack \in {AckSuccess, AckFail} /\ call[k].frame \in Frames /\ call[k].frame = wire[c][m]
      /\ ack = AckSuccess => call[k].frame \in stored \cup {Heartbeat}
  <2>1. call[k] \in [pc : {"idle", "busy", "replied"}, frame : Frames, ack : {AckSuccess, AckFail}]
    BY <1>3, Zenon DEF LinkInv, HandlerOK
  <2> QED
    BY <1>1, <1>3, <2>1, Zenon DEF LinkInv, CallInv
<1>5. BadRead(c) => m # read[c]
  BY <1>4, FrameKinds, Zenon DEF BadRead
<1>6. ack = AckSuccess => Answered(c, m)
  BY <1>3, <1>4 DEF Answered
<1>7. call' = [call EXCEPT ![k] = [pc |-> "idle", frame |-> Heartbeat, ack |-> AckFail]] /\ stored' = stored
  BY <1>1, SameNames, Zenon DEF H!Release, H!Ready
<1>8. HandlerOK'
  BY <1>3, <1>7, Zenon DEF LinkInv, HandlerOK, Frames
<1>9. /\ next' \in [Conns -> Nat] /\ next'[c] = m /\ \A d \in Conns : d # c => next'[d] = next[d]
  BY <1>1, <1>2, SMTT(60) DEF LinkInv, TypeOK
<1>10. /\ acks' \in [Conns -> Seq({AckSuccess, AckFail})]
       /\ Len(acks'[c]) = Len(acks[c]) + 1 /\ acks'[c][Len(acks[c]) + 1] = ack
       /\ \A j \in 1..Len(acks[c]) : acks'[c][j] = acks[c][j]
       /\ \A d \in Conns : d # c => acks'[d] = acks[d]
  <2>1. acks \in [Conns -> Seq({AckSuccess, AckFail})]
    BY Zenon DEF LinkInv, TypeOK
  <2>2. ack \in {AckSuccess, AckFail} /\ acks' = [acks EXCEPT ![c] = Append(@, ack)]
    BY <1>1, <1>4, Zenon
  <2> HIDE DEF ack
  <2> QED
    BY <2>1, <2>2, Grown
<1>11. TypeOK' /\ WalInv' /\ WindowInv' /\ SentInv' /\ CommittedMeansStored'
  BY <1>1, <1>7, <1>9, <1>10, ClientKept, Zenon DEF LinkInv, TypeOK
<1>12. wire' = wire /\ stored' = stored /\ read' = read /\ srv' = srv /\ dialed' = dialed /\ conn' = conn /\ got' = got
  BY <1>1, <1>7, Zenon DEF client
<1>13. \A d \in Conns : (BadRead(d)' <=> BadRead(d)) /\ \A j : Answered(d, j)' <=> Answered(d, j)
  BY <1>12, Zenon DEF BadRead, Answered
<1>14. ConnInv'
  <2> SUFFICES ASSUME NEW d \in Conns
               PROVE  /\ next'[d] <= read[d] /\ read[d] <= Len(wire[d]) /\ Len(wire[d]) <= MaxWire
                      /\ Len(acks'[d]) = next'[d] + (IF BadRead(d) THEN 1 ELSE 0)
                      /\ got[d] <= Len(acks'[d])
                      /\ BadRead(d) => srv[d] # "open" /\ next'[d] < read[d]
                      /\ d > dialed => wire[d] = <<>>
    BY <1>12, <1>13 DEF ConnInv
  <2>1. CASE d = c
    BY <1>1, <1>2, <1>5, <1>9, <1>10, <2>1, SMTT(60) DEF LinkInv, ConnInv
  <2>2. CASE d # c
    BY <1>9, <1>10, <2>2, Zenon DEF LinkInv, ConnInv
  <2> QED
    BY <2>1, <2>2, Zenon
<1>15. CallInv'
  <2> SUFFICES ASSUME NEW d \in Conns, NEW n \in 1..MaxWire
               PROVE  LET q == call'[<<d, n>>]
                      IN  /\ q.pc # "idle" => n <= read[d] /\ q.frame = wire[d][n]
                          /\ q.pc = "replied" /\ q.ack = AckSuccess => q.frame \in stored \cup {Heartbeat}
    BY <1>12, Zenon DEF CallInv
  <2>1. <<d, n>> \in CallIds
    BY Zenon DEF CallIds
  <2>2. CASE <<d, n>> = k
    BY <1>3, <1>7, <2>1, <2>2, Zenon DEF LinkInv, HandlerOK
  <2>3. CASE <<d, n>> # k
    <3>1. call'[<<d, n>>] = call[<<d, n>>]
      BY <1>3, <1>7, <2>1, <2>3, Zenon DEF LinkInv, HandlerOK
    <3> QED
      BY <3>1 DEF LinkInv, CallInv
  <2> QED
    BY <2>2, <2>3, Zenon
<1>16. \A d \in Conns : \A start \in 1..(got[d] + 1) : AcksTrue(d, start) => AcksTrue(d, start)'
  <2> SUFFICES ASSUME NEW d \in Conns, NEW start \in 1..(got[d] + 1), AcksTrue(d, start)
               PROVE  AcksTrue(d, start)'
    BY Zenon
  <2>1. CASE d = c
    <3> DEFINE len == Len(acks[c])
    <3>1. start <= len + 1 /\ start \in Nat /\ start > 0 /\ len \in Nat
      BY <1>2, <2>1
    <3>2. BadRead(c) => \E j \in start..len : acks[c][j] = AckFail
      BY <1>5, <2>1, Zenon DEF AcksTrue
    <3>3. BadRead(c) => \E j \in start..len : acks'[c][j] = AckFail
      <4>1. \A j \in start..len : acks'[c][j] = acks[c][j]
        BY <1>10, <3>1
      <4> QED
        BY <3>2, <4>1, Zenon
    <3>4. ASSUME NEW j \in start..(len + 1), acks'[c][j] = AckSuccess
          PROVE  Answered(c, j) \/ \E i \in start..(j - 1) : acks'[c][i] = AckFail
      <4>1. CASE j = len + 1
        <5>1. CASE BadRead(c)
          BY <3>1, <3>3, <4>1, <5>1
        <5>2. CASE ~BadRead(c)
          BY SMTT(60), <1>2, <1>6, <1>10, <3>4, <4>1, <5>2
        <5> QED
          BY <5>1, <5>2, Zenon
      <4>2. CASE j # len + 1
        <5>1. j \in start..len /\ j \in 1..len /\ \A i \in start..(j - 1) : i \in 1..len
          BY <3>1, <4>2
        <5>2. Answered(c, j) \/ \E i \in start..(j - 1) : acks[c][i] = AckFail
          BY <1>10, <2>1, <3>4, <5>1, Zenon DEF AcksTrue
        <5> QED
          BY <1>10, <5>1, <5>2, Zenon
      <4> QED
        BY <4>1, <4>2, Zenon
    <3>5. \A j \in start..len : j \in start..(len + 1)
      BY <3>1
    <3> QED
      BY <1>10, <1>13, <2>1, <3>3, <3>4, <3>5, Zenon DEF AcksTrue
  <2>2. CASE d # c
    BY <1>9, <1>10, <1>12, <1>13, <2>2, ZenonT(60) DEF AcksTrue
  <2> QED
    BY <2>1, <2>2, Zenon
<1>17. AckInv'
  BY <1>12, <1>16, AckInvStep, Zenon
<1> QED
  BY <1>8, <1>11, <1>14, <1>15, <1>17, Zenon DEF LinkInv

\* The handler takes one step of a call.
LEMMA HandleStep == ASSUME LinkInv, NEW k \in CallIds, Handle(k) PROVE LinkInv'
<1>1. UNCHANGED <<walVars, client, wire, got, server>> /\ (H!Store(k) \/ H!Reply(k))
  BY Zenon DEF Handle
<1>2. call[k] \in [pc : {"idle", "busy", "replied"}, frame : Frames, ack : {AckSuccess, AckFail}]
  BY Zenon DEF LinkInv, HandlerOK
<1>3. stored \subseteq stored' /\ HandlerOK'
  <2>1. CASE H!Store(k)
    BY <2>1, SameNames, Zenon DEF H!Store, LinkInv, HandlerOK
  <2>2. CASE H!Reply(k)
    <3>1. PICK ack \in {AckSuccess, AckFail} : call' = [call EXCEPT ![k].pc = "replied", ![k].ack = ack]
      BY <2>2, SameNames, Zenon DEF H!Reply
    <3>2. stored' = stored
      BY <2>2, Zenon DEF H!Reply
    <3>3. call' \in [CallIds -> [pc : {"idle", "busy", "replied"}, frame : Frames,
                                 ack : {AckSuccess, AckFail}]]
      BY <1>2, <3>1, Zenon DEF LinkInv, HandlerOK
    <3> QED
      BY <3>2, <3>3, Zenon DEF LinkInv, HandlerOK
  <2> QED
    BY <1>1, <2>1, <2>2, Zenon
<1>4. TypeOK' /\ WalInv' /\ WindowInv' /\ SentInv' /\ CommittedMeansStored'
  BY <1>1, <1>3, ClientKept, Zenon DEF LinkInv, TypeOK, server
<1>5. ConnInv'
  BY <1>1, Zenon DEF LinkInv, ConnInv, BadRead, server, client
<1>6. CallInv'
  <2>1. CASE H!Store(k)
    <3>1. call' = call
      BY <2>1, Zenon DEF H!Store
    <3>2. \A d \in Conns : read[d] \in Nat /\ read'[d] \in Nat /\ read[d] <= read'[d]
      BY <1>1 DEF LinkInv, TypeOK, server
    <3> QED
      BY <1>1, <1>3, <3>1, <3>2, CallKept, Zenon DEF LinkInv
  <2>2. CASE H!Reply(k)
    <3>1. PICK ack \in {AckSuccess, AckFail} :
              /\ call' = [call EXCEPT ![k].pc = "replied", ![k].ack = ack]
              /\ ack = AckSuccess => call[k].frame \in stored \cup {Heartbeat}
      BY <2>2, SameNames, Zenon DEF H!Reply
    <3>2. stored' = stored /\ call[k].pc = "busy" /\ wire' = wire /\ read' = read
      BY <1>1, <2>2, Zenon DEF H!Reply, server
    <3> SUFFICES ASSUME NEW d \in Conns, NEW n \in 1..MaxWire
                 PROVE  LET q == call'[<<d, n>>]
                        IN  /\ q.pc # "idle" => n <= read[d] /\ q.frame = wire[d][n]
                            /\ q.pc = "replied" /\ q.ack = AckSuccess => q.frame \in stored \cup {Heartbeat}
      BY <3>2, Zenon DEF CallInv
    <3>3. <<d, n>> \in CallIds
      BY Zenon DEF CallIds
    <3>4. CASE <<d, n>> = k
      <4>1. call'[<<d, n>>].frame = call[k].frame /\ call'[<<d, n>>].ack = ack
        BY <1>2, <3>1, <3>3, <3>4, Zenon DEF LinkInv, HandlerOK
      <4>2. n <= read[d] /\ call[k].frame = wire[d][n]
        BY <3>2, <3>4, Zenon DEF LinkInv, CallInv
      <4> QED
        BY <3>1, <4>1, <4>2, Zenon
    <3>5. CASE <<d, n>> # k
      <4>1. call'[<<d, n>>] = call[<<d, n>>]
        BY <3>1, <3>3, <3>5, Zenon DEF LinkInv, HandlerOK
      <4> QED
        BY <4>1, Zenon DEF LinkInv, CallInv
    <3> QED
      BY <3>4, <3>5, Zenon
  <2> QED
    BY <1>1, <2>1, <2>2, Zenon
<1>7. \A d \in Conns : \A start \in 1..(got[d] + 1) : AcksTrue(d, start) => AcksTrue(d, start)'
  <2> SUFFICES ASSUME NEW d \in Conns, NEW start \in 1..(got[d] + 1), AcksTrue(d, start)
               PROVE  AcksTrue(d, start)'
    BY Zenon
  <2>1. /\ start \in Nat \ {0} /\ acks' = acks /\ read' = read /\ next' = next /\ wire' = wire
        /\ Len(wire[d]) \in Nat /\ Len(wire[d]) <= Len(wire[d])
    BY <1>1, SMTT(60) DEF LinkInv, TypeOK, server
  <2> QED
    BY <1>3, <2>1, AcksTrueKept, Zenon DEF LinkInv
<1>8. AckInv'
  BY <1>1, <1>7, AckInvStep, Zenon DEF client
<1> QED
  BY <1>3, <1>4, <1>5, <1>6, <1>8, Zenon DEF LinkInv

\* The receiver is killed and starts again.
LEMMA ReceiverRestartStep == ASSUME LinkInv, ReceiverRestart PROVE LinkInv'
<1>1. /\ call' = [k \in CallIds |-> [pc |-> "idle", frame |-> Heartbeat, ack |-> AckFail]]
      /\ stored' = stored
      /\ srv' = [c \in Conns |-> IF c <= dialed THEN "closed" ELSE srv[c]]
      /\ UNCHANGED <<walVars, client, wire, got, read, next, acks>>
  BY SameNames, Zenon DEF ReceiverRestart, H!Restart, H!Ready, CallIds
<1>2. /\ srv' \in [Conns -> {"open", "closing", "closed"}]
      /\ \A c \in Conns : srv'[c] = srv[c] \/ srv'[c] = "closed"
  BY <1>1, Zenon DEF LinkInv, TypeOK
<1>3. HandlerOK'
  BY <1>1, Zenon DEF LinkInv, HandlerOK, Frames
<1>4. CallInv'
  BY <1>1, Zenon DEF CallInv, CallIds
<1>5. TypeOK' /\ WalInv' /\ WindowInv' /\ SentInv' /\ CommittedMeansStored'
  BY <1>1, <1>2, ClientKept, Zenon DEF LinkInv, TypeOK
<1>6. ConnInv'
  BY <1>1, <1>2, Zenon DEF LinkInv, ConnInv, BadRead, client
<1>7. AckInv'
  BY <1>1, Zenon DEF LinkInv, AckInv, AcksTrue, BadRead, Answered, client
<1> QED
  BY <1>3, <1>4, <1>5, <1>6, <1>7, Zenon DEF LinkInv

-----------------------------------------------------------------------------
(***************************************************************************)
(* The theorems.                                                           *)
(***************************************************************************)

\* Every step keeps the invariant.
LEMMA NextLink == LinkInv /\ [Next]_vars => LinkInv'
<1> SUFFICES ASSUME LinkInv, [Next]_vars PROVE LinkInv'
  BY Zenon
<1>1. CASE SenderStep
  BY <1>1, PeekStep, SendFrameStep, SendFailsStep, RedialStep, WaitAckSuccessStep, WaitAckFailStep,
     WaitAckErrorStep, sendHeartbeatStep, HeartbeatAckStep, Zenon DEF SenderStep
<1>2. CASE \E c \in Conns : ReadFrame(c) \/ writeAck(c) \/ CloseConn(c)
  BY <1>2, ReadFrameStep, writeAckStep, CloseConnStep, Zenon
<1>3. CASE \E k \in Conns \X (1..MaxWire) : Handle(k)
  BY <1>3, HandleStep, Zenon DEF CallIds
<1>4. CASE UNCHANGED vars
  <2> USE <1>4 DEF vars, walVars, client, server, handlerVars
  <2>1. TypeOK' /\ HandlerOK'
    BY SMTT(60) DEF LinkInv, TypeOK, HandlerOK
  <2>2. WalInv' /\ WindowInv' /\ SentInv' /\ CommittedMeansStored'
    BY ZenonT(60) DEF LinkInv, WalInv, WalFrame, WindowInv, SentInv, CommittedMeansStored
  <2>3. ConnInv' /\ CallInv' /\ AckInv'
    BY DEF LinkInv, ConnInv, CallInv, BadRead, AckInv, AcksTrue, Answered
  <2> QED
    BY <2>1, <2>2, <2>3, Zenon DEF LinkInv
<1> QED
  BY <1>1, <1>2, <1>3, <1>4, AppendStep, SenderRestartStep, WalRebuiltStep, ReceiverRestartStep, Zenon
     DEF Next, Wait

\* The invariant of the link always holds.
THEOREM LinkInvariant == Spec => []LinkInv
BY InitLink, NextLink, PTL DEF Spec

\* The variables of the link keep their types.
THEOREM LinkTypes == Spec => []TypeOK
BY LinkInvariant, PTL DEF LinkInv

\* A frame that the sender commits, and so lets go of, is stored on the other side:
\* for every window and number of concurrent calls, whatever connections, calls
\* and processes fail, and when sequence numbers are used again.
THEOREM CommitSafety == Spec => []CommittedMeansStored
BY LinkInvariant, PTL DEF LinkInv

\* The loop never calls Commit with nothing pending, where its error path panics.
THEOREM NoCommitPanic == Spec => []CommitNeverPanics
<1>1. LinkInv => CommitNeverPanics
  BY Zenon DEF LinkInv, WindowInv, CommitNeverPanics
<1> QED
  BY <1>1, LinkInvariant, PTL

\* As long as no 0x00 came before, the k-th ACK byte answers the k-th frame.
THEOREM AckOrder == Spec => []AcksInOrder
<1>1. LinkInv => AcksInOrder
  <2> SUFFICES ASSUME LinkInv, NEW c \in Conns, NEW k \in DOMAIN acks[c],
                      \A j \in 1..k : acks[c][j] = AckSuccess
               PROVE  k <= Len(wire[c]) /\ wire[c][k] \in stored \cup {Heartbeat}
    BY Zenon DEF AcksInOrder
  <2>1. k \in 1..Len(acks[c]) /\ Len(acks[c]) \in Nat
    BY DEF LinkInv, TypeOK
  <2>2. Answered(c, k) \/ \E j \in 1..(k - 1) : acks[c][j] = AckFail
    BY <2>1, SMTT(60) DEF LinkInv, AckInv, AcksTrue
  <2>3. \A j \in 1..(k - 1) : acks[c][j] # AckFail
    BY <2>1 DEF AckSuccess, AckFail
  <2> QED
    BY <2>2, <2>3, Zenon DEF Answered
<1> QED
  BY <1>1, LinkInvariant, PTL

-----------------------------------------------------------------------------
(***************************************************************************)
(* Stop-and-wait: the first data frame of a connection is the head of the  *)
(* WAL.  With a window this is false: one that is sent again after a       *)
(* failed send may start behind the head.                                  *)
(***************************************************************************)

\* The frame at hand is the head of the WAL.
HeadInv ==
    /\ FirstFrameIsHead
    /\ snd.pc # "redial"
    /\ snd.pc = "send" => snd.i = 1 /\ snd.frames[1].seq = committed + 1

\* Steps that write no frame keep it, as nothing confirmed is forgotten.
LEMMA HeadKept ==
    ASSUME FirstFrameIsHead, wire' = wire, confirmed \subseteq confirmed'
    PROVE  FirstFrameIsHead'
BY Zenon DEF FirstFrameIsHead

\* A frame on the wire keeps it if it is a head or no data frame.
LEMMA HeadSent ==
    ASSUME LinkInv, FirstFrameIsHead, NEW c \in Conns, NEW x \in WireFrames, confirmed' = confirmed,
           wire' = [wire EXCEPT ![c] = Append(@, x)],
           x \in DataFrames => \A s \in 1..(x.seq - 1) : [x EXCEPT !.seq = s] \in confirmed
    PROVE  FirstFrameIsHead'
<1> DEFINE len == Len(wire[c])
<1>1. /\ len \in Nat /\ Len(wire'[c]) = len + 1 /\ wire'[c][len + 1] = x
      /\ \A k \in 1..len : wire'[c][k] = wire[c][k]
      /\ \A d \in Conns : d # c => wire'[d] = wire[d]
      /\ wire' \in [Conns -> Seq(WireFrames)]
  BY Grown, SMTT(60) DEF LinkInv, TypeOK
<1>2. DOMAIN wire'[c] = 1..(len + 1) /\ DOMAIN wire[c] = 1..len
  BY <1>1 DEF LinkInv, TypeOK
<1> SUFFICES ASSUME NEW d \in Conns, NEW k \in DOMAIN wire'[d], wire'[d][k] \in DataFrames,
                    \A j \in 1..(k - 1) : wire'[d][j] = Heartbeat
             PROVE  \A s \in 1..(wire'[d][k].seq - 1) : [wire'[d][k] EXCEPT !.seq = s] \in confirmed
  BY SMTT(60) DEF FirstFrameIsHead
<1>3. CASE d = c /\ k = len + 1
  BY <1>1, <1>3, Zenon
<1>4. CASE ~(d = c /\ k = len + 1)
  <2>1. k \in DOMAIN wire[d] /\ wire'[d][k] = wire[d][k]
    BY <1>1, <1>2, <1>4
  <2>2. \A j \in 1..(k - 1) : wire[d][j] = Heartbeat
    <3>1. CASE d = c
      <4>1. \A j \in 1..(k - 1) : j \in 1..len
        BY <1>1, <1>2, <2>1, <3>1
      <4> QED
        BY <1>1, <3>1, <4>1, Zenon
    <3>2. CASE d # c
      BY <1>1, <3>2, Zenon
    <3> QED
      BY <3>1, <3>2, Zenon
  <2> QED
    BY <2>1, <2>2, Zenon DEF FirstFrameIsHead
<1> QED
  BY <1>3, <1>4, Zenon

\* Every step of a stop-and-wait sender keeps it.
LEMMA HeadStep ==
    ASSUME Pipelines = {1}, LinkInv, HeadInv, [Next]_vars
    PROVE  HeadInv'
<1> pipeline = 1
  BY Zenon DEF LinkInv, TypeOK
<1>1. CASE SendFrame
  <2>1. /\ snd.pc = "send" /\ conn # 0 /\ UNCHANGED <<walVars, conn>>
        /\ snd.i = 1 /\ snd.frames[1].seq = committed + 1
    BY <1>1, Zenon DEF SendFrame, HeadInv
  <2>2. conn \in Conns
    BY <2>1, LinkAssumption DEF LinkInv, TypeOK, Conns
  <2>3. /\ Len(snd.frames) = 1 /\ snd.frames[1] \in DataFrames
        /\ snd.frames[1].data = gen /\ committed \in Nat
    <3>1. Len(snd.frames) \in Nat /\ Len(snd.frames) <= 1 /\ 1 \in 1..Len(snd.frames) /\ committed \in Nat
      BY <2>1, WindowData DEF LinkInv, WindowInv, TypeOK
    <3>2. \A n \in Nat : n <= 1 /\ 1 \in 1..n => n = 1
      OBVIOUS
    <3>3. snd.frames[1] \in DataFrames
      BY <3>1, WindowData, Zenon DEF LinkInv
    <3>4. snd.frames[1].data = gen
      BY <3>1, Zenon DEF LinkInv, WindowInv
    <3> QED
      BY <3>1, <3>2, <3>3, <3>4, Zenon
  <2>4. snd'.pc = "ack"
    BY <1>1, <2>1, <2>3, Zenon DEF SendFrame, LinkInv, TypeOK
  <2>5. \A s \in 1..(snd.frames[1].seq - 1) : [snd.frames[1] EXCEPT !.seq = s] \in confirmed
    <3>1. \A s \in 1..committed : [snd.frames[1] EXCEPT !.seq = s] = WalFrame(s)
      BY <2>3 DEF WalFrame, DataFrames
    <3> QED
      BY <2>1, <2>3, <3>1 DEF LinkInv, WalInv
  <2>6. PICK x \in {snd.frames[1], Damaged, BadHeader} : wire' = [wire EXCEPT ![conn] = Append(@, x)]
    BY <1>1, <2>1, Zenon DEF SendFrame
  <2>7. x \in WireFrames /\ (x \in DataFrames => x = snd.frames[1])
    BY <2>3, <2>6, FrameKinds, Zenon DEF WireFrames, Frames
  <2>8. FirstFrameIsHead'
    BY <2>1, <2>2, <2>5, <2>6, <2>7, HeadSent, Zenon DEF HeadInv, walVars
  <2> QED
    BY <2>4, <2>8, Zenon DEF HeadInv
<1>2. CASE sendHeartbeat
  <2>1. confirmed' = confirmed /\ snd'.pc \in {"peek", "beat"}
    BY <1>2, Zenon DEF sendHeartbeat, walVars, LinkInv, TypeOK
  <2>2. CASE wire' = wire
    BY <2>1, <2>2, HeadKept, Zenon DEF HeadInv
  <2>3. CASE EnsureConnected /\ wire' = [wire EXCEPT ![conn'] = Append(@, Heartbeat)]
    <3>1. conn' \in Conns
      BY <1>2, <2>3, Connected, Zenon DEF sendHeartbeat
    <3>2. Heartbeat \in WireFrames /\ Heartbeat \notin DataFrames
      BY FrameKinds, Zenon DEF WireFrames, Frames
    <3>3. FirstFrameIsHead'
      BY <2>1, <2>3, <3>1, <3>2, HeadSent, Zenon DEF HeadInv
    <3> QED
      BY <2>1, <3>3, Zenon DEF HeadInv
  <2> QED
    BY <1>2, <2>2, <2>3, Zenon DEF sendHeartbeat
<1>3. CASE Peek
  <2>1. UNCHANGED <<walVars, wire>> /\ committed < appended /\ committed \in Nat /\ appended \in Nat
    BY <1>3 DEF Peek, LinkInv, TypeOK
  <2>2. FirstFrameIsHead'
    BY <2>1, HeadKept, Zenon DEF HeadInv, walVars
  <2>3. PeekBatch(pipeline)[1] = WalFrame(committed + 1)
    BY <2>1 DEF PeekBatch
  <2>4. snd' = snd \/ (snd'.pc = "send" /\ snd'.i = 1 /\ snd'.frames[1] = WalFrame(committed + 1))
    <3>1. <<WalFrame(committed + 1)>>[1] = WalFrame(committed + 1)
      BY Zenon
    <3>2. \A fs : snd' = [Start EXCEPT !.pc = "send", !.frames = fs]
                    => snd'.pc = "send" /\ snd'.i = 1 /\ snd'.frames = fs
      BY Zenon DEF Start
    <3> QED
      BY <1>3, <2>3, <3>1, <3>2, Zenon DEF Peek
  <2> QED
    BY <2>1, <2>2, <2>4 DEF HeadInv, WalFrame, walVars
<1>4. CASE SendFails \/ WaitAckError \/ WaitAckFail \/ HeartbeatAck \/ SenderRestart \/ WalRebuilt
  <2>1. snd' = Start /\ wire' = wire /\ confirmed' = confirmed
    BY <1>4, Zenon DEF SendFails, WaitAckError, WaitAckFail, HeartbeatAck, SenderRestart, WalRebuilt, GoBack, walVars
  <2> QED
    BY <2>1, HeadKept, Zenon DEF HeadInv, Start
<1>5. CASE WaitAckSuccess
  <2>1. wire' = wire /\ confirmed \subseteq confirmed' /\ snd'.pc \in {"ack", "panic", "peek"}
    BY <1>5, Zenon DEF WaitAckSuccess, Commit, Start, LinkInv, TypeOK
  <2> QED
    BY <2>1, HeadKept, Zenon DEF HeadInv
<1>6. CASE Redial
  BY <1>6, Zenon DEF Redial, HeadInv
<1>7. CASE UNCHANGED <<committed, confirmed, client, wire>>
  BY <1>7, HeadKept, Zenon DEF HeadInv, client
<1> QED
  BY <1>1, <1>2, <1>3, <1>4, <1>5, <1>6, <1>7, Zenon
     DEF Next, SenderStep, AppendFrame, ReadFrame, writeAck, CloseConn, Handle, ReceiverRestart,
         Wait, vars, walVars

\* As long as the sender is never configured with a window, the first data frame
\* of every connection is the head of its WAL, which is what the receiver assumes
\* when it closes a gap.  (MCLink_first shows that a window of two breaks it.)
THEOREM HeadFirst == Pipelines = {1} => (Spec => []FirstFrameIsHead)
<1> SUFFICES ASSUME Pipelines = {1} PROVE Spec => []FirstFrameIsHead
  BY Zenon
<1>1. Init => HeadInv
  BY DEF Init, HeadInv, FirstFrameIsHead, Start
<1>2. HeadInv => FirstFrameIsHead
  BY Zenon DEF HeadInv
<1> QED
  BY <1>1, <1>2, HeadStep, LinkInvariant, PTL DEF Spec

=============================================================================
