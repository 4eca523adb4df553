-------------------------- MODULE LinkSenderProofs --------------------------
(***************************************************************************)
(* The invariant that the theorems of LinkProofs rest on, and the proof    *)
(* that every step of the sender keeps it.                                 *)
(*                                                                         *)
(* "Committed means stored" needs three things: that an ACK byte answers   *)
(* the frame the server believes it does, that the sender believes the     *)
(* same, and that what the sender commits is what it sent.                 *)
(***************************************************************************)
EXTENDS Link, TLAPS

CallIds == Conns \X (1..MaxWire)

\* The frame handler has its shape; only data frames are stored.
HandlerOK ==
    /\ call \in [CallIds -> [pc : {"idle", "busy", "replied"}, frame : Frames,
                             ack : {AckSuccess, AckFail}]]
    /\ stored \subseteq DataFrames

\* The sender goroutine has its shape.
SndOK ==
    snd \in [pc : {"peek", "send", "redial", "ack", "beat", "panic"}, frames : Seq(DataFrames), i : Nat]

\* The frames of the WAL are frames, and the committed ones were confirmed.
WalInv ==
    /\ 1..appended \subseteq Seqs
    /\ \A s \in 1..committed : WalFrame(s) \in confirmed

\* The window: frames of this WAL in ascending order, of which the ones not
\* yet answered are not committed.
WindowInv ==
    /\ snd.pc # "panic"
    /\ snd.pc \in {"peek", "beat"} => snd.frames = <<>>
    /\ snd.pc \in {"send", "redial", "ack"} => snd.i \in 1..Len(snd.frames)
    /\ snd.pc = "redial" => snd.i = 1
    /\ Len(snd.frames) <= pipeline
    /\ \A j \in 1..Len(snd.frames) :
          /\ snd.frames[j].data = gen /\ snd.frames[j].seq <= appended
          /\ (snd.pc = "ack" => j >= snd.i) => committed < snd.frames[j].seq
    /\ \A j, k \in 1..Len(snd.frames) : j < k => snd.frames[j].seq < snd.frames[k].seq

\* What a frame may look like on the wire.
OnWire(f) == {f, Damaged, BadHeader}

\* The frames of the connection that are not answered are those of the window.
SentInv ==
    conn # 0 =>
        LET sent == wire[conn]
            read1 == got[conn]
            n == Len(snd.frames)
        IN  /\ snd.pc \in {"peek", "redial"} => Len(sent) = read1
            /\ snd.pc = "beat" => Len(sent) = read1 + 1
            /\ snd.pc = "send" => Len(sent) = read1 + (snd.i - 1)
            /\ snd.pc = "ack" => Len(sent) = read1 + (n - snd.i) + 1
            /\ snd.pc = "send" =>
                  \A j \in 1..(snd.i - 1) : sent[read1 + j] \in OnWire(snd.frames[j])
            /\ snd.pc = "ack" =>
                  \A j \in snd.i..n : sent[read1 + (j - snd.i) + 1] \in OnWire(snd.frames[j])

\* The read loop met a bad header; it has read nothing after it.
BadRead(c) == read[c] > 0 /\ wire[c][read[c]] = BadHeader

\* Frame k of the connection deserves AckSuccess.
Answered(c, k) == k <= Len(wire[c]) /\ wire[c][k] \in stored \cup {Heartbeat}

\* How far the ends of a connection are.
ConnInv ==
    \A c \in Conns :
        /\ next[c] <= read[c] /\ read[c] <= Len(wire[c]) /\ Len(wire[c]) <= MaxWire
        /\ Len(acks[c]) = next[c] + (IF BadRead(c) THEN 1 ELSE 0)
        /\ got[c] <= Len(acks[c])
        /\ BadRead(c) => srv[c] # "open" /\ next[c] < read[c]
        /\ c > dialed => wire[c] = <<>>

\* A call that was started has the frame at its place in the connection.
CallInv ==
    \A c \in Conns, n \in 1..MaxWire :
        LET k == call[<<c, n>>]
        IN  /\ k.pc # "idle" => n <= read[c] /\ k.frame = wire[c][n]
            /\ k.pc = "replied" /\ k.ack = AckSuccess => k.frame \in stored \cup {Heartbeat}

\* Until a 0x00 that was not read yet, the ACK bytes from number start on
\* answer the frames in their order.
AcksTrue(c, start) ==
    /\ \A k \in start..Len(acks[c]) :
          acks[c][k] = AckSuccess =>
              Answered(c, k) \/ \E j \in start..(k - 1) : acks[c][j] = AckFail
    /\ BadRead(c) =>
          next[c] + 1 = read[c] \/ \E j \in start..Len(acks[c]) : acks[c][j] = AckFail

\* From the first byte on for every connection; for the sender's connection
\* also from the byte it reads next.
AckInv ==
    /\ \A c \in Conns : AcksTrue(c, 1)
    /\ conn # 0 => AcksTrue(conn, got[conn] + 1)

LinkInv ==
    /\ TypeOK /\ HandlerOK /\ WalInv /\ WindowInv /\ SentInv
    /\ ConnInv /\ CallInv /\ AckInv /\ CommittedMeansStored

-----------------------------------------------------------------------------
(***************************************************************************)
(* Facts about frames and sequences that the steps share.                  *)
(***************************************************************************)

\* The kinds of frames are told apart.
LEMMA FrameKinds ==
    /\ Heartbeat \notin DataFrames /\ Damaged \notin DataFrames /\ BadHeader \notin DataFrames
    /\ Damaged # Heartbeat /\ BadHeader # Heartbeat /\ BadHeader \notin Frames
BY Zenon DEF Heartbeat, Damaged, BadHeader, DataFrames, Frames

\* FrameHandler's frames and ACK bytes are the ones of this module.
LEMMA SameNames ==
    /\ H!Heartbeat = Heartbeat /\ H!DataFrames = DataFrames
    /\ H!AckSuccess = AckSuccess /\ H!AckFail = AckFail
BY Zenon DEF H!Heartbeat, Heartbeat, H!DataFrames, DataFrames, H!AckSuccess, AckSuccess, H!AckFail, AckFail

\* A frame of the WAL is a data frame.
LEMMA WalFrameData ==
    ASSUME TypeOK, WalInv, NEW s \in 1..appended
    PROVE  WalFrame(s) \in DataFrames
BY LinkAssumption, Zenon DEF TypeOK, WalInv, WalFrame, DataFrames

\* A data frame of this generation is the frame of the WAL with its seq.
LEMMA DataIsWalFrame ==
    ASSUME NEW f \in DataFrames, f.data = gen
    PROVE  WalFrame(f.seq) = f
BY Zenon DEF DataFrames, WalFrame

\* The frames of the window are data frames.
LEMMA WindowData ==
    ASSUME TypeOK
    PROVE  /\ Len(snd.frames) \in Nat
           /\ \A j \in 1..Len(snd.frames) :
                 snd.frames[j] \in DataFrames /\ snd.frames[j].seq \in Nat
<1>1. snd.frames \in Seq(DataFrames) /\ Len(snd.frames) \in Nat
  BY DEF TypeOK
<1>2. \A j \in 1..Len(snd.frames) : snd.frames[j] \in DataFrames
  BY <1>1
<1>3. \A f \in DataFrames : f.seq \in Nat
  BY FrameAssumption, Zenon DEF DataFrames
<1> QED
  BY <1>1, <1>2, <1>3, Zenon

\* The two directions of every connection, and how far each end is in them.
LEMMA ConnTypes ==
    ASSUME TypeOK
    PROVE  /\ wire \in [Conns -> Seq(WireFrames)]
           /\ acks \in [Conns -> Seq({AckSuccess, AckFail})]
           /\ \A d \in Conns : Len(wire[d]) \in Nat /\ Len(acks[d]) \in Nat
           /\ \A d \in Conns : read[d] \in Nat /\ next[d] \in Nat /\ got[d] \in Nat
<1>1. wire \in [Conns -> Seq(WireFrames)] /\ acks \in [Conns -> Seq({AckSuccess, AckFail})]
  BY Zenon DEF TypeOK
<1>2. read \in [Conns -> Nat] /\ next \in [Conns -> Nat] /\ got \in [Conns -> Nat]
  BY Zenon DEF TypeOK
<1>3. \A d \in Conns : Len(wire[d]) \in Nat /\ Len(acks[d]) \in Nat
  BY <1>1
<1>4. \A d \in Conns : read[d] \in Nat /\ next[d] \in Nat /\ got[d] \in Nat
  BY <1>2, Zenon
<1> QED
  BY <1>1, <1>3, <1>4, Zenon

\* One more frame or byte at the end of a connection's sequence.
LEMMA Grown ==
    ASSUME NEW S, NEW f \in [Conns -> Seq(S)], NEW c \in Conns, NEW x \in S,
           NEW g, g = [f EXCEPT ![c] = Append(@, x)]
    PROVE  /\ g \in [Conns -> Seq(S)]
           /\ Len(f[c]) \in Nat
           /\ Len(g[c]) = Len(f[c]) + 1
           /\ g[c][Len(f[c]) + 1] = x
           /\ \A k \in 1..Len(f[c]) : g[c][k] = f[c][k]
           /\ \A d \in Conns : d # c => g[d] = f[d]
<1>1. f[c] \in Seq(S)
  BY Zenon
<1>2. /\ Append(f[c], x) \in Seq(S) /\ Len(f[c]) \in Nat
      /\ Len(Append(f[c], x)) = Len(f[c]) + 1
      /\ Append(f[c], x)[Len(f[c]) + 1] = x
      /\ \A k \in 1..Len(f[c]) : Append(f[c], x)[k] = f[c][k]
  BY <1>1
<1>3. g[c] = Append(f[c], x) /\ \A d \in Conns : d # c => g[d] = f[d]
  BY Zenon
<1>4. g \in [Conns -> Seq(S)]
  BY <1>2, Zenon
<1> QED
  BY <1>2, <1>3, <1>4, Zenon

\* What is on a connection stays there, and so does what its ACK bytes deserve.
LEMMA AcksTrueKept ==
    ASSUME ConnInv, TypeOK, NEW c \in Conns, NEW start \in Nat \ {0}, AcksTrue(c, start),
           acks' = acks, read' = read, next' = next, stored \subseteq stored',
           Len(wire[c]) <= Len(wire'[c]), Len(wire'[c]) \in Nat,
           \A k \in 1..Len(wire[c]) : wire'[c][k] = wire[c][k]
    PROVE  AcksTrue(c, start)'
<1>1. Len(wire[c]) \in Nat /\ Len(acks[c]) \in Nat /\ read[c] \in Nat /\ read[c] <= Len(wire[c])
  BY ConnTypes, Zenon DEF ConnInv
<1>2. BadRead(c)' => BadRead(c)
  BY <1>1 DEF BadRead
<1>3. \A k \in Nat \ {0} : Answered(c, k) => Answered(c, k)'
  BY <1>1 DEF Answered
<1>4. \A k \in start..Len(acks[c]) : k \in Nat \ {0}
  BY <1>1
<1>5. \A k \in start..Len(acks[c]) :
          acks[c][k] = AckSuccess =>
              Answered(c, k)' \/ \E j \in start..(k - 1) : acks[c][j] = AckFail
  BY <1>3, <1>4, Zenon DEF AcksTrue
<1> QED
  BY <1>2, <1>5, Zenon DEF AcksTrue

\* A connection that was not dialled yet is untouched.
LEMMA FreshConn ==
    ASSUME TypeOK, ConnInv, NEW c \in Conns, c > dialed
    PROVE  /\ Len(wire[c]) = 0 /\ got[c] = 0
           /\ AcksTrue(c, got[c] + 1)
<1>1. wire[c] = <<>> /\ Len(wire[c]) = 0
  BY DEF ConnInv
<1>2. read[c] = 0 /\ next[c] = 0
  BY <1>1 DEF ConnInv, TypeOK
<1>3. ~BadRead(c)
  BY <1>2 DEF BadRead
<1>4. Len(acks[c]) = 0 /\ got[c] = 0
  BY <1>2, <1>3 DEF ConnInv, TypeOK
<1> QED
  BY <1>1, <1>3, <1>4 DEF AcksTrue

\* A window has room for a frame.
LEMMA Width == ASSUME pipeline \in Pipelines PROVE pipeline \in Nat /\ 1 <= pipeline
BY LinkAssumption

\* With nothing outstanding, EnsureConnected yields a connection on which
\* nothing is outstanding.
LEMMA Connected ==
    ASSUME LinkInv, EnsureConnected, snd.pc \in {"peek", "redial"}
    PROVE  /\ dialed' \in 0..MaxConns /\ dialed <= dialed' /\ conn' \in 1..dialed' /\ conn' \in Conns
           /\ Len(wire[conn']) = got[conn']
           /\ AcksTrue(conn', got[conn'] + 1)
<1>1. CASE conn # 0 /\ UNCHANGED <<conn, dialed>>
  BY <1>1, LinkAssumption DEF LinkInv, TypeOK, SentInv, AckInv, AcksTrue, BadRead, Answered, Conns
<1>2. CASE conn = 0 /\ dialed < MaxConns /\ dialed' = dialed + 1 /\ conn' = dialed'
  <2>1. dialed' \in 0..MaxConns /\ conn' \in 1..dialed' /\ conn' \in Conns /\ conn' > dialed
    BY <1>2, LinkAssumption DEF LinkInv, TypeOK, Conns
  <2>2. /\ Len(wire[conn']) = 0 /\ got[conn'] = 0
        /\ AcksTrue(conn', got[conn'] + 1)
    BY <2>1, FreshConn, Zenon DEF LinkInv
  <2> QED
    BY <1>2, <2>1, <2>2 DEF LinkInv, TypeOK
<1> QED
  BY <1>1, <1>2, Zenon DEF EnsureConnected

\* A step of the sender that writes and reads nothing keeps what is known of
\* the connections.
LEMMA SenderKeeps ==
    ASSUME LinkInv, UNCHANGED <<wire, got, server, handlerVars>>,
           dialed' \in 0..MaxConns, dialed <= dialed',
           conn' # 0 => conn' \in Conns /\ AcksTrue(conn', got[conn'] + 1)
    PROVE  HandlerOK' /\ ConnInv' /\ CallInv' /\ AckInv'
<1>1. HandlerOK'
  BY Zenon DEF LinkInv, HandlerOK, handlerVars
<1>2. ConnInv'
  BY DEF LinkInv, ConnInv, BadRead, server, TypeOK, Conns
<1>3. CallInv'
  BY Zenon DEF LinkInv, CallInv, server, handlerVars
<1>4. AckInv'
  BY ZenonT(60) DEF LinkInv, AckInv, AcksTrue, BadRead, Answered, server, handlerVars
<1> QED
  BY <1>1, <1>2, <1>3, <1>4, Zenon

\* Such a step keeps the types if it keeps those of the client.
LEMMA TypeKept ==
    ASSUME TypeOK, UNCHANGED <<walVars, wire, server, got>>, SndOK',
           dialed' \in 0..MaxConns, conn' \in 0..dialed'
    PROVE  TypeOK'
BY Zenon DEF TypeOK, SndOK, walVars, server

\* The same for a step that keeps the connection or gives it up.
LEMMA SenderKeepsConn ==
    ASSUME LinkInv, UNCHANGED <<wire, got, server, handlerVars, dialed>>, conn' \in {0, conn}
    PROVE  HandlerOK' /\ ConnInv' /\ CallInv' /\ AckInv'
<1>1. conn' # 0 => conn' \in Conns /\ AcksTrue(conn', got[conn'] + 1)
  <2> SUFFICES ASSUME conn # 0 PROVE conn \in Conns /\ AcksTrue(conn, got[conn] + 1)
    BY Zenon
  <2> QED
    BY LinkAssumption DEF LinkInv, AckInv, TypeOK, Conns
<1>2. dialed' \in 0..MaxConns /\ dialed <= dialed'
  BY DEF LinkInv, TypeOK
<1> QED
  BY <1>1, <1>2, SenderKeeps, Zenon

-----------------------------------------------------------------------------
(***************************************************************************)
(* One lemma for each action of the sender.                                *)
(***************************************************************************)

\* The invariant holds when both sides are first started.
LEMMA InitLink == Init => LinkInv
<1> SUFFICES ASSUME Init PROVE LinkInv
  BY Zenon
<1> USE DEF Init, Start
<1>1. TypeOK
  BY LinkAssumption DEF TypeOK
<1>2. HandlerOK
  BY SameNames, Zenon DEF HandlerOK, H!Init, H!Ready, CallIds, Frames
<1>3. WalInv /\ WindowInv /\ SentInv
  BY Width DEF WalInv, WindowInv, SentInv
<1>4. ConnInv /\ AckInv
  BY LinkAssumption DEF ConnInv, BadRead, AckInv, AcksTrue
<1>5. CallInv
  BY Zenon DEF CallInv, H!Init, H!Ready
<1>6. CommittedMeansStored
  BY Zenon DEF CommittedMeansStored
<1> QED
  BY <1>1, <1>2, <1>3, <1>4, <1>5, <1>6, Zenon DEF LinkInv

\* The poller appends a frame to the WAL.
LEMMA AppendStep == ASSUME LinkInv, AppendFrame PROVE LinkInv'
<1> USE DEF AppendFrame, client, server, LinkInv
<1>1. TypeOK'
  BY SMTT(60) DEF TypeOK
<1>2. WalInv'
  <2>1. appended \in Nat /\ appended' = appended + 1 /\ appended + 1 \in Seqs
    BY Zenon DEF TypeOK
  <2>2. \A s \in 1..(appended + 1) : s \in 1..appended \/ s = appended + 1
    BY <2>1
  <2>3. 1..appended' \subseteq Seqs
    BY <2>1, <2>2, Zenon DEF WalInv
  <2>4. committed' = committed /\ gen' = gen /\ confirmed' = confirmed
    BY Zenon
  <2> QED
    BY <2>3, <2>4, Zenon DEF WalInv, WalFrame
<1>3. WindowInv'
  <2>1. appended \in Nat /\ appended' = appended + 1
    BY Zenon DEF TypeOK
  <2>2. \A j \in 1..Len(snd.frames) : snd.frames[j].seq <= appended => snd.frames[j].seq <= appended'
    BY <2>1, WindowData
  <2>3. snd' = snd /\ committed' = committed /\ gen' = gen /\ pipeline' = pipeline
    BY Zenon
  <2> QED
    BY <2>2, <2>3, Zenon DEF WindowInv
<1>4. SentInv'
  BY Zenon DEF SentInv
<1>5. HandlerOK' /\ ConnInv' /\ CallInv' /\ AckInv'
  BY SenderKeepsConn, Zenon
<1>6. CommittedMeansStored'
  BY Zenon DEF CommittedMeansStored, handlerVars
<1> QED
  BY <1>1, <1>2, <1>3, <1>4, <1>5, <1>6, Zenon

\* The sender connects and takes a window of frames from the WAL.
LEMMA PeekStep == ASSUME LinkInv, Peek PROVE LinkInv'
<1> USE DEF LinkInv
<1>1. CASE DialFails /\ UNCHANGED snd
  <2> USE <1>1 DEF Peek, DialFails, walVars
  <2>1. TypeOK'
    BY Zenon DEF TypeOK, server
  <2>2. WalInv' /\ WindowInv' /\ SentInv'
    BY DEF WalInv, WalFrame, WindowInv, SentInv
  <2>3. HandlerOK' /\ ConnInv' /\ CallInv' /\ AckInv'
    BY SenderKeepsConn, Zenon
  <2>4. CommittedMeansStored'
    BY Zenon DEF CommittedMeansStored, handlerVars
  <2> QED
    BY <2>1, <2>2, <2>3, <2>4, Zenon
<1>2. ASSUME EnsureConnected, NEW n \in Nat, n > 0, n <= pipeline, committed + n <= appended,
             snd' = [Start EXCEPT !.pc = "send", !.frames = [k \in 1..n |-> WalFrame(committed + k)]]
      PROVE  LinkInv'
  <2> DEFINE fs == [k \in 1..n |-> WalFrame(committed + k)]
  <2>1. snd' = [pc |-> "send", frames |-> fs, i |-> 1]
    BY <1>2, Zenon DEF Start
  <2>2. snd.pc = "peek" /\ UNCHANGED <<walVars, wire, got, server, handlerVars>>
    BY Zenon DEF Peek
  <2>3. /\ dialed' \in 0..MaxConns /\ dialed <= dialed' /\ conn' \in 1..dialed' /\ conn' \in Conns
        /\ Len(wire[conn']) = got[conn'] /\ AcksTrue(conn', got[conn'] + 1)
    BY <1>2, <2>2, Connected, Zenon
  <2>4. \A k \in 1..n : committed + k \in 1..appended
    BY <1>2, SMTT(60) DEF TypeOK
  <2>5. fs \in Seq(DataFrames) /\ Len(fs) = n
    <3>1. \A k \in 1..n : WalFrame(committed + k) \in DataFrames
      BY <2>4, WalFrameData, Zenon
    <3> QED
      BY <1>2, <3>1
  <2>6. \A k \in 1..n : fs[k].data = gen /\ fs[k].seq = committed + k
    BY Zenon DEF WalFrame
  <2> HIDE DEF fs
  <2>7. TypeOK'
    <3>1. SndOK'
      BY <2>1, <2>5, Zenon DEF SndOK
    <3>2. dialed' \in 0..MaxConns /\ conn' \in 0..dialed'
      BY <2>3
    <3> QED
      BY <2>2, <3>1, <3>2, TypeKept, Zenon
  <2>8. WindowInv'
    <3>1. snd'.pc = "send" /\ snd'.frames = fs /\ snd'.i = 1 /\ Len(snd'.frames) = n
      BY <2>1, <2>5, Zenon
    <3>2. gen' = gen /\ appended' = appended /\ committed' = committed /\ pipeline' = pipeline
      BY <2>2, Zenon DEF walVars
    <3>3. appended \in Nat /\ committed \in Nat
      BY DEF TypeOK
    <3> QED
      BY <1>2, <2>6, <3>1, <3>2, <3>3 DEF WindowInv
  <2>9. SentInv'
    BY <2>1, <2>2, <2>3 DEF SentInv, TypeOK
  <2>10. HandlerOK' /\ ConnInv' /\ CallInv' /\ AckInv'
    BY <2>2, <2>3, SenderKeeps, Zenon
  <2>11. WalInv' /\ CommittedMeansStored'
    BY <2>2, Zenon DEF WalInv, WalFrame, CommittedMeansStored, walVars, handlerVars
  <2> QED
    BY <2>7, <2>8, <2>9, <2>10, <2>11, Zenon
<1>3. CASE EnsureConnected /\ snd' = [Start EXCEPT !.pc = "send", !.frames = PeekBatch(pipeline)]
  <2> DEFINE n == IF appended - committed < pipeline THEN appended - committed ELSE pipeline
  <2>1. n \in Nat /\ n > 0 /\ n <= pipeline /\ committed + n <= appended
    <3>1. committed < appended /\ committed \in Nat /\ appended \in Nat
      BY DEF Peek, TypeOK
    <3>2. pipeline \in Nat /\ 1 <= pipeline
      BY Width, Zenon DEF TypeOK
    <3> QED
      BY <3>1, <3>2
  <2>2. PeekBatch(pipeline) = [k \in 1..n |-> WalFrame(committed + k)]
    BY Zenon DEF PeekBatch
  <2> QED
    BY <1>2, <1>3, <2>1, <2>2, Zenon
<1>4. CASE EnsureConnected /\ snd' = [Start EXCEPT !.pc = "send", !.frames = <<WalFrame(committed + 1)>>]
  <2>1. <<WalFrame(committed + 1)>> = [k \in 1..1 |-> WalFrame(committed + k)]
    OBVIOUS
  <2>2. 1 \in Nat /\ 1 > 0 /\ 1 <= pipeline /\ committed + 1 <= appended
    <3>1. committed < appended /\ committed \in 0..appended /\ appended \in Nat
      BY Zenon DEF Peek, TypeOK
    <3>2. pipeline \in Nat /\ 1 <= pipeline
      BY Width, Zenon DEF TypeOK
    <3> QED
      BY <3>1, <3>2
  <2> QED
    BY <1>2, <1>4, <2>1, <2>2, Zenon
<1> QED
  BY <1>1, <1>3, <1>4, Zenon DEF Peek

\* Going back leaves a window that starts at the frame that failed.
LEMMA GoBackWindow ==
    ASSUME LinkInv, GoBack, snd.pc \in {"send", "ack"}, UNCHANGED walVars
    PROVE  SndOK' /\ WindowInv'
<1>1. /\ gen' = gen /\ appended' = appended /\ committed' = committed /\ pipeline' = pipeline
      /\ committed \in Nat /\ appended \in Nat
  BY DEF walVars, LinkInv, TypeOK
<1>2. CASE pipeline = 1
  <2>1. snd' = [pc |-> "peek", frames |-> <<>>, i |-> 1]
    BY <1>2, Zenon DEF GoBack, Start
  <2> QED
    BY <1>1, <1>2, <2>1 DEF SndOK, WindowInv
<1>3. CASE pipeline # 1
  <2> DEFINE i == snd.i
             n == Len(snd.frames)
             rest == SubSeq(snd.frames, i, n)
  <2>1. i \in 1..n /\ n \in Nat
    BY WindowData, Zenon DEF LinkInv, WindowInv
  <2>2. snd' = [pc |-> "redial", frames |-> rest, i |-> 1]
    BY <1>3, Zenon DEF GoBack
  <2>3. /\ rest \in Seq(DataFrames) /\ Len(rest) = n - i + 1
        /\ \A j \in 1..(n - i + 1) : rest[j] = snd.frames[i + j - 1]
    <3>1. snd.frames \in Seq(DataFrames)
      BY Zenon DEF LinkInv, TypeOK
    <3> QED
      BY SMTT(60), <2>1, <3>1
  <2>4. \A j \in 1..n : /\ snd.frames[j].data = gen /\ snd.frames[j].seq <= appended
                        /\ j >= i => committed < snd.frames[j].seq
    BY Zenon DEF LinkInv, WindowInv
  <2>5. \A j, k \in 1..n : j < k => snd.frames[j].seq < snd.frames[k].seq
    BY Zenon DEF LinkInv, WindowInv
  <2> HIDE DEF i, n, rest
  <2>6. \A j \in 1..(n - i + 1) : i + j - 1 \in 1..n /\ i + j - 1 >= i
    BY <2>1
  <2>7. SndOK'
    BY <2>2, <2>3, Zenon DEF SndOK
  <2>8. /\ snd'.pc = "redial" /\ snd'.i = 1 /\ snd'.frames = rest
        /\ 1 \in 1..Len(rest) /\ Len(rest) <= pipeline
    <3>1. n <= pipeline /\ pipeline \in Nat
      BY Width, Zenon DEF n, LinkInv, WindowInv, TypeOK
    <3> QED
      BY <2>1, <2>2, <2>3, <3>1
  <2>9. \A j \in 1..Len(rest) : /\ rest[j].data = gen /\ rest[j].seq <= appended
                                /\ committed < rest[j].seq
    BY <2>3, <2>4, <2>6
  <2>10. \A j, k \in 1..Len(rest) : j < k => rest[j].seq < rest[k].seq
    <3> SUFFICES ASSUME NEW j \in 1..Len(rest), NEW k \in 1..Len(rest), j < k
                 PROVE  rest[j].seq < rest[k].seq
      BY Zenon
    <3>1. i + j - 1 < i + k - 1
      BY <2>1, <2>3
    <3> QED
      BY <2>3, <2>5, <2>6, <3>1, Zenon
  <2> QED
    BY <1>1, <2>7, <2>8, <2>9, <2>10, Zenon DEF WindowInv
<1> QED
  BY <1>2, <1>3, Zenon

\* A step that goes back and reads no ACK byte.
LEMMA GoBackStep ==
    ASSUME LinkInv, GoBack, snd.pc \in {"send", "ack"},
           UNCHANGED <<walVars, dialed, wire, got, server, handlerVars>>
    PROVE  LinkInv'
<1>1. SndOK' /\ WindowInv'
  BY GoBackWindow, Zenon
<1>2. conn' = 0
  BY Zenon DEF GoBack
<1>3. TypeOK'
  <2>1. dialed' \in 0..MaxConns /\ conn' \in 0..dialed'
    BY <1>2 DEF LinkInv, TypeOK
  <2> QED
    BY <1>1, <2>1, TypeKept, Zenon DEF LinkInv
<1>4. SentInv'
  BY <1>2, Zenon DEF SentInv
<1>5. HandlerOK' /\ ConnInv' /\ CallInv' /\ AckInv'
  BY <1>2, SenderKeepsConn, Zenon
<1>6. WalInv' /\ CommittedMeansStored'
  BY Zenon DEF LinkInv, WalInv, WalFrame, CommittedMeansStored, walVars, handlerVars
<1> QED
  BY <1>1, <1>3, <1>4, <1>5, <1>6, Zenon DEF LinkInv

\* Send fails and the window goes back to its first frame.
LEMMA SendFailsStep == ASSUME LinkInv, SendFails PROVE LinkInv'
BY GoBackStep, Zenon DEF SendFails

\* No answer comes any more, or WaitAck times out.
LEMMA WaitAckErrorStep == ASSUME LinkInv, WaitAckError PROVE LinkInv'
BY GoBackStep, Zenon DEF WaitAckError

\* The window is sent again from its first frame, connected or not.
LEMMA RedialStep == ASSUME LinkInv, Redial PROVE LinkInv'
<1>1. snd.pc = "redial" /\ snd' = [snd EXCEPT !.pc = "send"]
      /\ UNCHANGED <<walVars, wire, got, server, handlerVars>>
  BY Zenon DEF Redial
<1>2. SndOK' /\ snd'.pc = "send" /\ snd'.frames = snd.frames /\ snd'.i = snd.i /\ snd.i = 1
  BY <1>1, Zenon DEF LinkInv, TypeOK, SndOK, WindowInv
<1>3. WindowInv'
  BY <1>1, <1>2, Zenon DEF LinkInv, WindowInv, walVars
<1>4. /\ dialed' \in 0..MaxConns /\ dialed <= dialed' /\ conn' \in 0..dialed'
      /\ conn' # 0 => /\ conn' \in Conns /\ AcksTrue(conn', got[conn'] + 1)
                      /\ Len(wire[conn']) = got[conn']
  <2>1. CASE EnsureConnected
    BY <1>1, <2>1, Connected
  <2>2. CASE DialFails
    BY <2>2 DEF DialFails, LinkInv, TypeOK
  <2> QED
    BY <2>1, <2>2, Zenon DEF Redial
<1>5. TypeOK'
  BY <1>1, <1>2, <1>4, TypeKept, Zenon DEF LinkInv
<1>6. SentInv'
  <2>1. conn' # 0 => /\ Len(wire'[conn']) = got'[conn'] /\ got'[conn'] \in Nat
                      /\ got'[conn'] + (snd'.i - 1) = got'[conn']
    BY <1>1, <1>2, <1>4, ConnTypes DEF LinkInv
  <2>2. \A j : j \notin 1..(snd'.i - 1)
    BY <1>2
  <2> QED
    BY <1>2, <2>1, <2>2, Zenon DEF SentInv
<1>7. HandlerOK' /\ ConnInv' /\ CallInv' /\ AckInv'
  BY <1>1, <1>4, SenderKeeps, Zenon
<1>8. WalInv' /\ CommittedMeansStored'
  BY <1>1, Zenon DEF LinkInv, WalInv, WalFrame, CommittedMeansStored, walVars, handlerVars
<1> QED
  BY <1>3, <1>5, <1>6, <1>7, <1>8, Zenon DEF LinkInv

\* The client writes a frame to its connection.
LEMMA WireStep ==
    ASSUME LinkInv, UNCHANGED <<got, server, handlerVars>>,
           NEW c \in Conns, NEW x \in WireFrames, Len(wire[c]) < MaxWire,
           wire' = [wire EXCEPT ![c] = Append(@, x)],
           dialed' \in 0..MaxConns, dialed <= dialed', c <= dialed', conn' = c,
           AcksTrue(c, got[c] + 1)
    PROVE  HandlerOK' /\ ConnInv' /\ CallInv' /\ AckInv'
<1>1. /\ wire' \in [Conns -> Seq(WireFrames)] /\ Len(wire'[c]) = Len(wire[c]) + 1
      /\ \A k \in 1..Len(wire[c]) : wire'[c][k] = wire[c][k]
      /\ \A d \in Conns : d # c => wire'[d] = wire[d]
  BY Grown DEF LinkInv, TypeOK
<1>2. \A d \in Conns : /\ Len(wire[d]) \in Nat /\ Len(wire'[d]) \in Nat
                       /\ Len(wire[d]) <= Len(wire'[d])
                       /\ \A k \in 1..Len(wire[d]) : wire'[d][k] = wire[d][k]
  <2>1. \A d \in Conns : Len(wire[d]) \in Nat /\ Len(wire'[d]) \in Nat
    <3>1. \A d \in Conns : Len(wire'[d]) \in Nat
      BY <1>1
    <3> QED
      BY <3>1, ConnTypes, Zenon DEF LinkInv
  <2> SUFFICES ASSUME NEW d \in Conns
               PROVE  /\ Len(wire[d]) <= Len(wire'[d])
                      /\ \A k \in 1..Len(wire[d]) : wire'[d][k] = wire[d][k]
    BY <2>1, Zenon
  <2>2. CASE d = c
    BY <1>1, <2>1, <2>2
  <2>3. CASE d # c
    BY <1>1, <2>1, <2>3
  <2> QED
    BY <2>2, <2>3, Zenon
<1>3. HandlerOK'
  BY Zenon DEF LinkInv, HandlerOK, handlerVars
<1>4. ConnInv'
  <2> SUFFICES ASSUME NEW d \in Conns
               PROVE  /\ next[d] <= read[d] /\ read[d] <= Len(wire'[d]) /\ Len(wire'[d]) <= MaxWire
                      /\ Len(acks[d]) = next[d] + (IF BadRead(d)' THEN 1 ELSE 0)
                      /\ got[d] <= Len(acks[d])
                      /\ BadRead(d)' => srv[d] # "open" /\ next[d] < read[d]
                      /\ d > dialed' => wire'[d] = <<>>
    BY Zenon DEF ConnInv, server
  <2>1. read[d] \in Nat /\ read[d] <= Len(wire[d])
    BY Zenon DEF LinkInv, ConnInv, TypeOK
  <2>2. BadRead(d)' <=> BadRead(d)
    BY <1>2, <2>1 DEF BadRead, server
  <2>3. Len(wire'[d]) <= MaxWire
    BY <1>1, <1>2, LinkAssumption DEF LinkInv, ConnInv
  <2>4. d > dialed' => wire'[d] = <<>>
    BY <1>1, SMTT(60) DEF LinkInv, ConnInv, TypeOK, Conns
  <2> QED
    BY <1>2, <2>1, <2>2, <2>3, <2>4 DEF LinkInv, ConnInv
<1>5. CallInv'
  <2>1. \A d \in Conns, n \in 1..MaxWire : n <= read[d] => wire'[d][n] = wire[d][n]
    BY <1>2, LinkAssumption, SMTT(60) DEF LinkInv, ConnInv, TypeOK
  <2>2. read' = read /\ call' = call /\ stored' = stored
    BY Zenon DEF server, handlerVars
  <2> SUFFICES ASSUME NEW d \in Conns, NEW n \in 1..MaxWire
               PROVE  LET k == call[<<d, n>>]
                      IN  /\ k.pc # "idle" => n <= read[d] /\ k.frame = wire'[d][n]
                          /\ k.pc = "replied" /\ k.ack = AckSuccess => k.frame \in stored \cup {Heartbeat}
    BY <2>2, Zenon DEF CallInv
  <2>3. /\ call[<<d, n>>].pc # "idle" => n <= read[d] /\ call[<<d, n>>].frame = wire[d][n]
        /\ call[<<d, n>>].pc = "replied" /\ call[<<d, n>>].ack = AckSuccess
              => call[<<d, n>>].frame \in stored \cup {Heartbeat}
    BY Zenon DEF LinkInv, CallInv
  <2> QED
    BY <2>1, <2>3, Zenon
<1>6. \A d \in Conns : \A start \in Nat \ {0} : AcksTrue(d, start) => AcksTrue(d, start)'
  BY <1>2, AcksTrueKept, Zenon DEF LinkInv, server, handlerVars
<1>7. \A d \in Conns : AcksTrue(d, 1)'
  BY <1>6 DEF LinkInv, AckInv
<1>8. got[c] + 1 \in Nat \ {0} /\ got' = got
  BY ConnTypes DEF LinkInv
<1>9. AcksTrue(c, got[c] + 1)'
  BY <1>6, <1>8, Zenon
<1>10. AckInv'
  BY <1>7, <1>8, <1>9, Zenon DEF AckInv
<1> QED
  BY <1>3, <1>4, <1>5, <1>10, Zenon

\* Send writes a frame to the connection.
LEMMA SendFrameStep == ASSUME LinkInv, SendFrame PROVE LinkInv'
<1> DEFINE i == snd.i
           n == Len(snd.frames)
<1>1. /\ snd.pc = "send" /\ conn # 0 /\ Len(wire[conn]) < MaxWire
      /\ UNCHANGED <<walVars, conn, dialed, got, server, handlerVars>>
  BY Zenon DEF SendFrame
<1>2. conn \in Conns /\ conn <= dialed /\ dialed \in 0..MaxConns
  BY <1>1, LinkAssumption DEF LinkInv, TypeOK, Conns
<1>3. i \in 1..n /\ n \in Nat /\ snd.frames \in Seq(DataFrames) /\ snd.frames[i] \in DataFrames
  BY <1>1, WindowData, Zenon DEF LinkInv, WindowInv, TypeOK
<1>4. PICK x \in WireFrames : /\ x \in OnWire(snd.frames[i])
                              /\ wire' = [wire EXCEPT ![conn] = Append(@, x)]
  <2>1. CASE wire' = [wire EXCEPT ![conn] = Append(@, snd.frames[i])]
    BY <1>3, <2>1, Zenon DEF OnWire, WireFrames, Frames
  <2>2. CASE \E x \in {Damaged, BadHeader} : wire' = [wire EXCEPT ![conn] = Append(@, x)]
    BY <2>2, Zenon DEF OnWire, WireFrames, Frames
  <2> QED
    BY <2>1, <2>2, Zenon DEF SendFrame
<1>5. HandlerOK' /\ ConnInv' /\ CallInv' /\ AckInv'
  <2>1. AcksTrue(conn, got[conn] + 1)
    BY <1>1, Zenon DEF LinkInv, AckInv
  <2>2. conn' = conn /\ dialed' = dialed /\ dialed <= dialed
    BY <1>1, <1>2
  <2> QED
    BY <1>1, <1>2, <1>4, <2>1, <2>2, WireStep, Zenon
<1>6. /\ wire' \in [Conns -> Seq(WireFrames)] /\ Len(wire'[conn]) = Len(wire[conn]) + 1
      /\ Len(wire[conn]) \in Nat
      /\ wire'[conn][Len(wire[conn]) + 1] = x
      /\ \A k \in 1..Len(wire[conn]) : wire'[conn][k] = wire[conn][k]
  BY <1>2, <1>4, Grown, SMTT(60) DEF LinkInv, TypeOK
<1>7. /\ snd'.frames = snd.frames
      /\ i = n => snd'.pc = "ack" /\ snd'.i = 1
      /\ i # n => snd'.pc = "send" /\ snd'.i = i + 1
      /\ SndOK'
  <2>1. snd = [pc |-> "send", frames |-> snd.frames, i |-> i]
    BY <1>1, Zenon DEF LinkInv, TypeOK
  <2>2. CASE i = n
    <3>1. snd' = [pc |-> "ack", frames |-> snd.frames, i |-> 1]
      BY <2>1, <2>2, Zenon DEF SendFrame
    <3> QED
      BY <1>3, <2>2, <3>1, Zenon DEF SndOK
  <2>3. CASE i # n
    <3>1. snd' = [pc |-> "send", frames |-> snd.frames, i |-> i + 1]
      BY <2>1, <2>3, Zenon DEF SendFrame
    <3> QED
      BY <1>3, <2>3, <3>1 DEF SndOK
  <2> QED
    BY <2>2, <2>3, Zenon
<1>8. TypeOK'
  BY <1>1, <1>6, <1>7, Zenon DEF LinkInv, TypeOK, SndOK, walVars, server
<1>9. WindowInv'
  <2>1. gen' = gen /\ appended' = appended /\ committed' = committed /\ pipeline' = pipeline
    BY <1>1, Zenon DEF walVars
  <2>2. /\ \A j \in 1..n : /\ snd.frames[j].data = gen /\ snd.frames[j].seq <= appended
                           /\ committed < snd.frames[j].seq
        /\ \A j, k \in 1..n : j < k => snd.frames[j].seq < snd.frames[k].seq
        /\ n <= pipeline
    BY <1>1, Zenon DEF LinkInv, WindowInv
  <2>3. snd'.i \in 1..n /\ snd'.pc \in {"send", "ack"}
    BY <1>3, <1>7
  <2> QED
    BY <1>7, <2>1, <2>2, <2>3, Zenon DEF WindowInv
<1>10. SentInv'
  <2> DEFINE g == got[conn]
             w == wire'[conn]
  <2>1. /\ g \in Nat /\ Len(wire[conn]) = g + (i - 1)
        /\ \A j \in 1..(i - 1) : wire[conn][g + j] \in OnWire(snd.frames[j])
    BY <1>1, <1>2, Zenon DEF LinkInv, SentInv, TypeOK
  <2>2. Len(w) = g + i
    BY <1>3, <1>6, <2>1
  <2>3. \A j \in 1..i : w[g + j] \in OnWire(snd.frames[j])
    <3> SUFFICES ASSUME NEW j \in 1..i PROVE w[g + j] \in OnWire(snd.frames[j])
      BY Zenon
    <3>1. CASE j = i
      <4>1. Len(wire[conn]) + 1 = g + j
        BY <1>3, <2>1, <3>1
      <4> QED
        BY <1>4, <1>6, <3>1, <4>1, Zenon
    <3>2. CASE j # i
      <4>1. j \in 1..(i - 1) /\ g + j \in 1..Len(wire[conn])
        BY SMTT(60), <1>3, <2>1, <3>2
      <4> QED
        BY <1>6, <2>1, <4>1, Zenon
    <3> QED
      BY <3>1, <3>2, Zenon
  <2>4. conn' = conn /\ got' = got
    BY <1>1, Zenon
  <2> HIDE DEF i, n, g, w
  <2>5. CASE i = n
    <3>1. \A j \in 1..n : g + (j - 1) + 1 = g + j
      BY <1>3, <2>1
    <3> QED
      BY <1>3, <1>7, <2>1, <2>2, <2>3, <2>4, <2>5, <3>1, Zenon DEF SentInv, g, w, n
  <2>6. CASE i # n
    <3>1. (i + 1) - 1 = i
      BY <1>3
    <3> QED
      BY <1>3, <1>7, <2>1, <2>2, <2>3, <2>4, <2>6, <3>1, Zenon DEF SentInv, g, w
  <2> QED
    BY <2>5, <2>6, Zenon
<1>11. WalInv' /\ CommittedMeansStored'
  BY <1>1, Zenon DEF LinkInv, WalInv, WalFrame, CommittedMeansStored, walVars, handlerVars
<1> QED
  BY <1>5, <1>8, <1>9, <1>10, <1>11, Zenon DEF LinkInv

\* The client reads an ACK byte.  It may go on with the connection when the byte
\* is AckSuccess, and also after an AckFail when no frame was outstanding but
\* the one answered.
LEMMA GotStep ==
    ASSUME LinkInv, AckArrived, got' = [got EXCEPT ![conn] = @ + 1],
           UNCHANGED <<wire, server, handlerVars, dialed>>, conn' \in {0, conn},
           conn' # 0 => AckByte = AckSuccess \/ Len(wire[conn]) = got[conn] + 1
    PROVE  /\ HandlerOK' /\ ConnInv' /\ CallInv' /\ AckInv'
           /\ conn \in Conns /\ got' \in [Conns -> Nat] /\ got'[conn] = got[conn] + 1
<1> DEFINE g == got[conn]
<1>1. conn # 0 /\ conn \in Conns /\ conn \in Nat
  BY LinkAssumption DEF AckArrived, LinkInv, TypeOK, Conns
<1>2. /\ g \in Nat /\ g < Len(acks[conn]) /\ Len(acks[conn]) \in Nat /\ next[conn] \in Nat
      /\ read[conn] \in Nat /\ Len(wire[conn]) \in Nat
  BY <1>1, SMTT(60) DEF AckArrived, LinkInv, TypeOK
<1>3. got' \in [Conns -> Nat] /\ got'[conn] = g + 1 /\ \A d \in Conns : d # conn => got'[d] = got[d]
  BY <1>1, <1>2, SMTT(60) DEF LinkInv, TypeOK
<1>4. HandlerOK' /\ CallInv'
  BY Zenon DEF LinkInv, HandlerOK, CallInv, server, handlerVars
<1>5. \A d \in Conns : (BadRead(d)' <=> BadRead(d)) /\ \A k : Answered(d, k)' <=> Answered(d, k)
  BY Zenon DEF BadRead, Answered, server, handlerVars
<1>6. ConnInv'
  <2>1. \A d \in Conns : got'[d] <= Len(acks[d])
    BY <1>2, <1>3 DEF LinkInv, ConnInv
  <2> QED
    BY <1>5, <2>1, Zenon DEF LinkInv, ConnInv, server
<1>7. \A d \in Conns : AcksTrue(d, 1)'
  BY <1>5, Zenon DEF LinkInv, AckInv, AcksTrue, server
<1>8. conn' # 0 => AcksTrue(conn, g + 2)
  <2>1. AcksTrue(conn, g + 1)
    BY <1>1, Zenon DEF LinkInv, AckInv
  <2>2. CASE AckByte = AckSuccess
    <3>1. \A j \in (g + 1)..Len(acks[conn]) : acks[conn][j] = AckFail => j \in (g + 2)..Len(acks[conn])
      BY <1>2, <2>2, SMTT(60) DEF AckByte, AckSuccess, AckFail
    <3>2. ASSUME NEW k \in (g + 2)..Len(acks[conn]), acks[conn][k] = AckSuccess
          PROVE  Answered(conn, k) \/ \E j \in (g + 2)..(k - 1) : acks[conn][j] = AckFail
      <4>1. Answered(conn, k) \/ \E j \in (g + 1)..(k - 1) : acks[conn][j] = AckFail
        BY <1>2, <2>1, <3>2, SMTT(60) DEF AcksTrue
      <4>2. \A j \in (g + 1)..(k - 1) : acks[conn][j] = AckFail => j \in (g + 2)..(k - 1)
        BY SMTT(60), <1>2, <3>1
      <4> QED
        BY <4>1, <4>2, Zenon
    <3> QED
      BY <2>1, <3>1, <3>2, Zenon DEF AcksTrue
  <2>3. CASE Len(wire[conn]) = g + 1
    <3>1. /\ next[conn] <= read[conn] /\ read[conn] <= Len(wire[conn])
          /\ Len(acks[conn]) = next[conn] + (IF BadRead(conn) THEN 1 ELSE 0)
          /\ BadRead(conn) => next[conn] < read[conn]
      BY <1>1, Zenon DEF LinkInv, ConnInv
    <3>2. BadRead(conn) => next[conn] + 1 = read[conn]
      BY SMTT(60), <1>2, <2>3, <3>1
    <3>3. Len(acks[conn]) <= g + 1
      BY <1>2, <2>3, <3>1
    <3>4. \A k \in (g + 2)..Len(acks[conn]) : FALSE
      BY <1>2, <3>3
    <3> QED
      BY <3>2, <3>4, Zenon DEF AcksTrue
  <2> QED
    BY <2>2, <2>3, Zenon
<1>9. conn' # 0 => AcksTrue(conn, got[conn] + 1)'
  <2> SUFFICES ASSUME conn' # 0 PROVE AcksTrue(conn, got[conn] + 1)'
    BY Zenon
  <2>1. conn' = conn /\ got'[conn] + 1 = g + 2
    BY <1>2, <1>3
  <2> QED
    BY <1>1, <1>5, <1>8, <2>1, Zenon DEF AcksTrue, server
<1>10. AckInv'
  BY <1>7, <1>9, Zenon DEF AckInv
<1> QED
  BY <1>1, <1>3, <1>4, <1>6, <1>10, Zenon

\* A sender that starts over has an empty window.
LEMMA StartWindow ==
    ASSUME snd' = Start, pipeline' \in Pipelines
    PROVE  SndOK' /\ WindowInv' /\ snd'.pc = "peek"
<1>1. pipeline' \in Nat /\ 1 <= pipeline'
  BY LinkAssumption
<1> QED
  BY <1>1 DEF Start, SndOK, WindowInv

\* WaitAck returns 0x00.
LEMMA WaitAckFailStep == ASSUME LinkInv, WaitAckFail PROVE LinkInv'
<1>1. /\ snd.pc = "ack" /\ AckArrived /\ got' = [got EXCEPT ![conn] = @ + 1]
      /\ UNCHANGED <<walVars, dialed, wire, server, handlerVars>>
  BY Zenon DEF WaitAckFail
<1>2. WalInv' /\ CommittedMeansStored'
  BY <1>1, Zenon DEF LinkInv, WalInv, WalFrame, CommittedMeansStored, walVars, handlerVars
<1>3. \/ conn' = 0 /\ GoBack
      \/ pipeline = 1 /\ snd' = Start /\ conn' = conn
  BY Zenon DEF WaitAckFail, GoBack
<1>4. pipeline = 1 => Len(wire[conn]) = got[conn] + 1
  <2> SUFFICES ASSUME pipeline = 1 PROVE Len(wire[conn]) = got[conn] + 1
    BY Zenon
  <2>1. snd.i \in 1..Len(snd.frames) /\ Len(snd.frames) <= 1 /\ Len(snd.frames) \in Nat
    BY <1>1, WindowData, Zenon DEF LinkInv, WindowInv
  <2>2. Len(wire[conn]) = got[conn] + (Len(snd.frames) - snd.i) + 1 /\ got[conn] \in Nat
    BY <1>1, LinkAssumption DEF LinkInv, SentInv, AckArrived, TypeOK, Conns
  <2> QED
    BY <2>1, <2>2
<1>5. /\ HandlerOK' /\ ConnInv' /\ CallInv' /\ AckInv'
      /\ conn \in Conns /\ got' \in [Conns -> Nat] /\ got'[conn] = got[conn] + 1
  BY <1>1, <1>3, <1>4, GotStep, Zenon
<1>6. SndOK' /\ WindowInv'
  <2>1. CASE GoBack
    BY <1>1, <2>1, GoBackWindow, Zenon
  <2>2. CASE snd' = Start
    BY <1>1, <2>2, StartWindow, Zenon DEF LinkInv, TypeOK, walVars
  <2> QED
    BY <1>3, <2>1, <2>2, Zenon
<1>7. SentInv'
  <2>1. CASE conn' = 0
    BY <2>1, Zenon DEF SentInv
  <2>2. CASE pipeline = 1 /\ snd' = Start /\ conn' = conn
    <3>1. snd'.pc = "peek"
      BY <2>2, Zenon DEF Start
    <3> QED
      BY <1>1, <1>4, <1>5, <2>2, <3>1, Zenon DEF SentInv
  <2> QED
    BY <1>3, <2>1, <2>2, Zenon
<1>8. TypeOK'
  <2>1. dialed' = dialed /\ conn' \in 0..dialed'
    BY <1>1, <1>3 DEF LinkInv, TypeOK
  <2> QED
    BY <1>1, <1>5, <1>6, <2>1, Zenon DEF LinkInv, TypeOK, SndOK, walVars, server
<1> QED
  BY <1>2, <1>5, <1>6, <1>7, <1>8, Zenon DEF LinkInv

\* WaitAck returns the answer to a heartbeat, or none comes.
LEMMA HeartbeatAckStep == ASSUME LinkInv, HeartbeatAck PROVE LinkInv'
<1>1. snd.pc = "beat" /\ snd' = Start /\ UNCHANGED <<walVars, dialed, wire, server, handlerVars>>
  BY Zenon DEF HeartbeatAck
<1>2. WalInv' /\ CommittedMeansStored'
  BY <1>1, Zenon DEF LinkInv, WalInv, WalFrame, CommittedMeansStored, walVars, handlerVars
<1>3. SndOK' /\ WindowInv' /\ snd'.pc = "peek"
  BY <1>1, StartWindow, Zenon DEF LinkInv, TypeOK, walVars
<1>4. CASE conn' = 0 /\ got' = got
  <2>1. HandlerOK' /\ ConnInv' /\ CallInv' /\ AckInv'
    BY <1>1, <1>4, SenderKeepsConn, Zenon
  <2>2. SentInv'
    BY <1>4, Zenon DEF SentInv
  <2>3. dialed' \in 0..MaxConns /\ conn' \in 0..dialed'
    BY <1>1, <1>4 DEF LinkInv, TypeOK
  <2>4. TypeOK'
    BY <1>1, <1>3, <1>4, <2>3, TypeKept, Zenon DEF LinkInv
  <2> QED
    BY <1>2, <1>3, <2>1, <2>2, <2>4, Zenon DEF LinkInv
<1>5. CASE AckArrived /\ got' = [got EXCEPT ![conn] = @ + 1] /\ conn' = conn
  <2>1. Len(wire[conn]) = got[conn] + 1
    BY <1>1, <1>5, Zenon DEF LinkInv, SentInv, AckArrived
  <2>2. /\ HandlerOK' /\ ConnInv' /\ CallInv' /\ AckInv'
        /\ conn \in Conns /\ got' \in [Conns -> Nat] /\ got'[conn] = got[conn] + 1
    BY <1>1, <1>5, <2>1, GotStep, Zenon
  <2>3. SentInv'
    BY <1>1, <1>3, <1>5, <2>1, <2>2, Zenon DEF SentInv
  <2>4. TypeOK'
    BY <1>1, <1>3, <1>5, <2>2, Zenon DEF LinkInv, TypeOK, SndOK, walVars, server
  <2> QED
    BY <1>2, <1>3, <2>2, <2>3, <2>4, Zenon DEF LinkInv
<1> QED
  BY <1>4, <1>5, Zenon DEF HeartbeatAck

\* When AckSuccess arrives for frame i of the window, that frame is stored.
LEMMA AckedIsStored ==
    ASSUME LinkInv, snd.pc = "ack", AckArrived, AckByte = AckSuccess
    PROVE  snd.frames[snd.i] \in stored /\ snd.frames[snd.i] \in DataFrames
<1> DEFINE i == snd.i
           g == got[conn]
           f == snd.frames[i]
<1>1. conn # 0 /\ conn \in Conns
  BY LinkAssumption DEF AckArrived, LinkInv, TypeOK, Conns
<1>2. g \in Nat /\ g + 1 \in (g + 1)..Len(acks[conn]) /\ Len(acks[conn]) \in Nat
  BY <1>1, SMTT(60) DEF AckArrived, LinkInv, TypeOK
<1>3. i \in 1..Len(snd.frames) /\ Len(snd.frames) \in Nat /\ f \in DataFrames
  BY WindowData, Zenon DEF LinkInv, WindowInv
<1>4. Answered(conn, g + 1)
  <2>1. AcksTrue(conn, g + 1)
    BY <1>1, Zenon DEF LinkInv, AckInv
  <2>2. Answered(conn, g + 1) \/ \E j \in (g + 1)..((g + 1) - 1) : acks[conn][j] = AckFail
    BY <1>2, <2>1, Zenon DEF AcksTrue, AckByte
  <2> QED
    BY <1>2, <2>2
<1>5. wire[conn][g + 1] \in OnWire(f)
  <2>1. \A j \in i..Len(snd.frames) : wire[conn][g + (j - i) + 1] \in OnWire(snd.frames[j])
    BY <1>1, Zenon DEF LinkInv, SentInv
  <2>2. i \in i..Len(snd.frames) /\ g + (i - i) + 1 = g + 1
    BY <1>2, <1>3
  <2> QED
    BY <2>1, <2>2, Zenon
<1>6. stored \subseteq DataFrames
  BY Zenon DEF LinkInv, HandlerOK
<1> QED
  BY <1>3, <1>4, <1>5, <1>6, FrameKinds, Zenon DEF Answered, OnWire

\* WaitAck returns a success and Commit removes the frame from the WAL.
LEMMA WaitAckSuccessStep == ASSUME LinkInv, WaitAckSuccess PROVE LinkInv'
<1> DEFINE i == snd.i
           n == Len(snd.frames)
           f == snd.frames[i]
<1>1. /\ snd.pc = "ack" /\ AckArrived /\ AckByte = AckSuccess
      /\ got' = [got EXCEPT ![conn] = @ + 1]
      /\ UNCHANGED <<pipeline, gen, appended, conn, dialed, wire, server, handlerVars>>
      /\ Commit(f.seq)
  BY Zenon DEF WaitAckSuccess
<1>2. f \in stored /\ f \in DataFrames
  BY <1>1, AckedIsStored, Zenon
<1>3. /\ i \in 1..n /\ n \in Nat /\ n <= pipeline
      /\ f.seq \in Nat /\ f.data = gen /\ committed < f.seq /\ f.seq <= appended
      /\ committed \in Nat /\ appended \in Nat /\ saved \in 0..committed
  <2>1. i \in 1..n /\ n \in Nat /\ f.seq \in Nat
    BY <1>1, WindowData, Zenon DEF LinkInv, WindowInv
  <2>2. n <= pipeline /\ f.data = gen /\ committed < f.seq /\ f.seq <= appended
    BY <1>1, <2>1 DEF LinkInv, WindowInv
  <2>3. committed \in Nat /\ appended \in Nat /\ saved \in 0..committed
    BY DEF LinkInv, TypeOK
  <2> QED
    BY <2>1, <2>2, <2>3, Zenon
<1>4. \/ UNCHANGED <<committed, confirmed, saved>>
      \/ /\ committed + 1 = f.seq /\ committed' = f.seq /\ saved' \in {saved, f.seq}
         /\ confirmed' = confirmed \cup {f}
  <2>1. WalFrame(f.seq) = f
    BY <1>2, <1>3, DataIsWalFrame, SMTT(60)
  <2> QED
    BY <1>1, <2>1, Zenon DEF Commit
<1>5. /\ committed <= committed' /\ committed' <= f.seq /\ committed' \in Nat
      /\ committed' <= appended /\ saved' \in 0..committed'
      /\ confirmed' \subseteq stored /\ confirmed' \subseteq DataFrames
  BY <1>2, <1>3, <1>4, SMTT(60) DEF LinkInv, CommittedMeansStored, TypeOK
<1>6. WalInv'
  <2>1. gen' = gen /\ appended' = appended
    BY <1>1, Zenon
  <2>2. \A s \in 1..committed : WalFrame(s) \in confirmed
    BY Zenon DEF LinkInv, WalInv
  <2>3. \A s \in 1..committed' : s \in 1..committed \/ (confirmed' = confirmed \cup {f} /\ s = f.seq)
    BY SMTT(60), <1>3, <1>4
  <2>4. WalFrame(f.seq) = f /\ confirmed \subseteq confirmed'
    BY <1>2, <1>3, <1>4, DataIsWalFrame, Zenon
  <2>5. \A s \in 1..committed' : WalFrame(s) \in confirmed'
    BY <2>2, <2>3, <2>4, Zenon
  <2> QED
    BY <2>1, <2>5, Zenon DEF LinkInv, WalInv, WalFrame
<1>7. /\ HandlerOK' /\ ConnInv' /\ CallInv' /\ AckInv'
      /\ conn \in Conns /\ got' \in [Conns -> Nat] /\ got'[conn] = got[conn] + 1
  BY <1>1, GotStep, Zenon
<1>8. \/ i = n /\ snd' = Start
      \/ i # n /\ snd' = [snd EXCEPT !.i = @ + 1]
  BY <1>3 DEF WaitAckSuccess, CommitPanics
<1>9. Len(wire[conn]) = got[conn] + (n - i) + 1 /\ got[conn] \in Nat /\ conn # 0
  BY <1>1, <1>7, Zenon DEF LinkInv, SentInv, TypeOK, AckArrived
<1>10. CommittedMeansStored'
  BY <1>1, <1>5, Zenon DEF CommittedMeansStored, handlerVars
<1>11. ASSUME SndOK' PROVE TypeOK'
  <2>1. committed' \in 0..appended /\ appended' = appended
    BY <1>1, <1>3, <1>5
  <2>2. server' = server /\ UNCHANGED <<pipeline, gen, conn, dialed, wire>>
    BY <1>1, Zenon
  <2> HIDE DEF i, n, f
  <2> QED
    BY <1>5, <1>7, <1>11, <2>1, <2>2, Zenon DEF LinkInv, TypeOK, SndOK, server
<1>12. CASE i = n /\ snd' = Start
  <2>1. SndOK' /\ WindowInv' /\ snd'.pc = "peek"
    BY <1>1, <1>12, StartWindow, Zenon DEF LinkInv, TypeOK
  <2>2. SentInv'
    BY <1>1, <1>3, <1>7, <1>9, <1>12, <2>1 DEF SentInv
  <2>3. TypeOK'
    BY <1>11, <2>1, Zenon
  <2> QED
    BY <1>6, <1>7, <1>10, <2>1, <2>2, <2>3, Zenon DEF LinkInv
<1>13. CASE i # n /\ snd' = [snd EXCEPT !.i = @ + 1]
  <2>1. snd'.pc = "ack" /\ snd'.frames = snd.frames /\ snd'.i = i + 1 /\ SndOK'
    <3>1. snd = [pc |-> "ack", frames |-> snd.frames, i |-> i]
      BY <1>1, Zenon DEF LinkInv, TypeOK
    <3>2. snd' = [pc |-> "ack", frames |-> snd.frames, i |-> i + 1]
      BY <1>13, <3>1
    <3>3. snd.frames \in Seq(DataFrames) /\ i + 1 \in Nat
      BY SMTT(60) DEF LinkInv, TypeOK
    <3> QED
      BY <3>2, <3>3, Zenon DEF SndOK
  <2>2. WindowInv'
    <3>1. gen' = gen /\ appended' = appended /\ pipeline' = pipeline /\ i + 1 \in 1..n
      BY SMTT(60), <1>1, <1>3, <1>13
    <3>2. /\ \A j \in 1..n : snd.frames[j].data = gen /\ snd.frames[j].seq <= appended
          /\ \A j, k \in 1..n : j < k => snd.frames[j].seq < snd.frames[k].seq
      BY <1>1, Zenon DEF LinkInv, WindowInv
    <3>3. \A j \in 1..n : j >= i + 1 => committed' < snd.frames[j].seq
      <4> SUFFICES ASSUME NEW j \in 1..n, j >= i + 1 PROVE committed' < snd.frames[j].seq
        BY Zenon
      <4>1. f.seq < snd.frames[j].seq /\ snd.frames[j].seq \in Nat
        <5>1. i \in 1..n /\ i < j
          BY <1>3
        <5> QED
          BY <3>2, <5>1, WindowData, Zenon DEF LinkInv
      <4> HIDE DEF f
      <4> QED
        BY SMTT(60), <1>3, <1>5, <4>1
    <3> HIDE DEF f
    <3> QED
      BY <1>3, <2>1, <3>1, <3>2, <3>3, Zenon DEF WindowInv
  <2>3. SentInv'
    <3> DEFINE g == got[conn]
    <3>1. \A j \in i..n : wire[conn][g + (j - i) + 1] \in OnWire(snd.frames[j])
      BY <1>1, <1>9, Zenon DEF LinkInv, SentInv
    <3> HIDE DEF i, n, f, g
    <3>6. i \in Nat /\ n \in Nat /\ g \in Nat /\ Len(wire[conn]) = g + (n - i) + 1
      BY <1>3, <1>9 DEF g
    <3>2. \A j \in (i + 1)..n : (g + 1) + (j - (i + 1)) + 1 = g + (j - i) + 1 /\ j \in i..n
      BY <3>6
    <3>3. Len(wire[conn]) = (g + 1) + (n - (i + 1)) + 1
      BY <3>6
    <3>4. \A j \in (i + 1)..n : wire[conn][(g + 1) + (j - (i + 1)) + 1] \in OnWire(snd.frames[j])
      BY <3>1, <3>2, Zenon
    <3>5. wire' = wire /\ conn' = conn
      BY <1>1, Zenon
    <3> QED
      BY <1>7, <2>1, <3>3, <3>4, <3>5, Zenon DEF SentInv, g, i, n
  <2>4. TypeOK'
    BY <1>11, <2>1, Zenon
  <2> QED
    BY <1>6, <1>7, <1>10, <2>2, <2>3, <2>4, Zenon DEF LinkInv
<1> QED
  BY <1>8, <1>12, <1>13, Zenon

\* An idle sender writes a heartbeat.
LEMMA sendHeartbeatStep == ASSUME LinkInv, sendHeartbeat PROVE LinkInv'
<1>1. snd.pc = "peek" /\ UNCHANGED <<walVars, got, server, handlerVars>>
  BY Zenon DEF sendHeartbeat
<1>2. WalInv' /\ CommittedMeansStored'
  BY <1>1, Zenon DEF LinkInv, WalInv, WalFrame, CommittedMeansStored, walVars, handlerVars
<1>3. CASE /\ snd' = snd /\ wire' = wire /\ dialed' \in 0..MaxConns /\ dialed <= dialed'
           /\ conn' = 0 \/ UNCHANGED <<conn, dialed>>
  <2>1. SndOK' /\ WindowInv'
    BY <1>1, <1>3, Zenon DEF LinkInv, TypeOK, SndOK, WindowInv, walVars
  <2>2. SentInv'
    BY <1>1, <1>3, Zenon DEF LinkInv, SentInv
  <2>3. HandlerOK' /\ ConnInv' /\ CallInv' /\ AckInv'
    BY <1>1, <1>3, SenderKeeps, SenderKeepsConn, Zenon
  <2>4. dialed' \in 0..MaxConns /\ conn' \in 0..dialed'
    BY <1>3 DEF LinkInv, TypeOK
  <2>5. TypeOK'
    BY <1>1, <1>3, <2>1, <2>4, TypeKept, Zenon DEF LinkInv
  <2> QED
    BY <1>2, <2>1, <2>2, <2>3, <2>5, Zenon DEF LinkInv
<1>4. CASE /\ EnsureConnected /\ Len(wire[conn']) < MaxWire
           /\ wire' = [wire EXCEPT ![conn'] = Append(@, Heartbeat)]
           /\ snd' = [snd EXCEPT !.pc = "beat"]
  <2>1. /\ dialed' \in 0..MaxConns /\ dialed <= dialed' /\ conn' \in 1..dialed' /\ conn' \in Conns
        /\ Len(wire[conn']) = got[conn'] /\ AcksTrue(conn', got[conn'] + 1)
    BY <1>1, <1>4, Connected, Zenon
  <2>2. Heartbeat \in WireFrames
    BY Zenon DEF WireFrames, Frames
  <2>3. conn' <= dialed' /\ conn' \in 0..dialed' /\ conn' # 0
    BY <2>1, LinkAssumption
  <2>4. HandlerOK' /\ ConnInv' /\ CallInv' /\ AckInv'
    <3>1. \A c \in Conns : /\ Len(wire[c]) < MaxWire /\ wire' = [wire EXCEPT ![c] = Append(@, Heartbeat)]
                           /\ c <= dialed' /\ conn' = c /\ AcksTrue(c, got[c] + 1)
                           => HandlerOK' /\ ConnInv' /\ CallInv' /\ AckInv'
      BY <1>1, <2>1, <2>2, WireStep, Zenon
    <3> QED
      BY <1>4, <2>1, <2>3, <3>1, Zenon
  <2>5. wire' \in [Conns -> Seq(WireFrames)] /\ Len(wire'[conn']) = Len(wire[conn']) + 1
    <3>1. wire \in [Conns -> Seq(WireFrames)]
      BY ConnTypes, Zenon DEF LinkInv
    <3>2. \A c \in Conns : wire' = [wire EXCEPT ![c] = Append(@, Heartbeat)]
                           => wire' \in [Conns -> Seq(WireFrames)] /\ Len(wire'[c]) = Len(wire[c]) + 1
      BY <2>2, <3>1, Grown
    <3> QED
      BY <1>4, <2>1, <3>2, Zenon
  <2>6. snd'.pc = "beat" /\ snd'.frames = snd.frames /\ snd'.i = snd.i /\ SndOK'
    BY <1>4, Zenon DEF LinkInv, TypeOK, SndOK
  <2>7. WindowInv'
    BY <1>1, <2>6, Zenon DEF LinkInv, WindowInv, walVars
  <2>8. SentInv'
    BY <1>1, <2>1, <2>5, <2>6, Zenon DEF SentInv
  <2>9. TypeOK'
    BY <1>1, <2>1, <2>3, <2>5, <2>6, Zenon DEF LinkInv, TypeOK, SndOK, walVars, server
  <2> QED
    BY <1>2, <2>4, <2>7, <2>8, <2>9, Zenon DEF LinkInv
<1>5. dialed \in 0..MaxConns /\ dialed <= dialed
  BY DEF LinkInv, TypeOK
<1>6. CASE DialFails /\ UNCHANGED <<snd, wire>>
  BY <1>3, <1>5, <1>6, Zenon DEF DialFails
<1>7. CASE BeatFails /\ conn' = 0 /\ UNCHANGED <<snd, wire>>
  <2>1. dialed' \in 0..MaxConns /\ dialed <= dialed'
    BY <1>5, <1>7, LinkAssumption DEF BeatFails
  <2> QED
    BY <1>3, <1>7, <2>1, Zenon
<1> QED
  BY <1>4, <1>6, <1>7, Zenon DEF sendHeartbeat

\* The sender is killed and starts again.
LEMMA SenderRestartStep == ASSUME LinkInv, SenderRestart PROVE LinkInv'
<1>1. /\ committed' = saved /\ snd' = Start /\ conn' = 0 /\ pipeline' \in Pipelines
      /\ UNCHANGED <<gen, appended, saved, confirmed, dialed, wire, got, server, handlerVars>>
  BY Zenon DEF SenderRestart
<1>2. SndOK' /\ WindowInv'
  BY <1>1, StartWindow, Zenon
<1>3. SentInv'
  BY <1>1, Zenon DEF SentInv
<1>4. HandlerOK' /\ ConnInv' /\ CallInv' /\ AckInv'
  BY <1>1, SenderKeepsConn, Zenon
<1>5. WalInv' /\ CommittedMeansStored'
  BY <1>1 DEF LinkInv, TypeOK, WalInv, WalFrame, CommittedMeansStored, handlerVars
<1>6. TypeOK'
  <2>1. committed' \in 0..appended /\ saved \in 0..committed' /\ conn' \in 0..dialed
    BY <1>1 DEF LinkInv, TypeOK
  <2> QED
    BY <1>1, <1>2, <2>1, SMTT(60) DEF LinkInv, TypeOK, SndOK, server
<1> QED
  BY <1>2, <1>3, <1>4, <1>5, <1>6, Zenon DEF LinkInv

\* The WAL directory is lost and the frames are numbered anew.
LEMMA WalRebuiltStep == ASSUME LinkInv, WalRebuilt PROVE LinkInv'
<1>1. /\ gen < Rebuilds /\ gen' = gen + 1 /\ appended' = 0 /\ committed' = 0 /\ saved' = 0
      /\ snd' = Start /\ conn' = 0 /\ pipeline' \in Pipelines
      /\ UNCHANGED <<confirmed, dialed, wire, got, server, handlerVars>>
  BY Zenon DEF WalRebuilt
<1>2. SndOK' /\ WindowInv'
  BY <1>1, StartWindow, Zenon
<1>3. SentInv'
  BY <1>1, Zenon DEF SentInv
<1>4. HandlerOK' /\ ConnInv' /\ CallInv' /\ AckInv'
  BY <1>1, SenderKeepsConn, Zenon
<1>5. WalInv' /\ CommittedMeansStored'
  BY <1>1 DEF LinkInv, WalInv, CommittedMeansStored, handlerVars
<1>6. TypeOK'
  <2>1. gen' \in 0..Rebuilds /\ conn' \in 0..dialed
    BY <1>1, LinkAssumption DEF LinkInv, TypeOK
  <2>2. appended' \in Nat /\ committed' \in 0..appended' /\ saved' \in 0..committed'
    BY <1>1
  <2>3. server' = server /\ UNCHANGED <<confirmed, dialed, wire, got>>
    BY <1>1, Zenon
  <2> QED
    BY <1>1, <1>2, <2>1, <2>2, <2>3, Zenon DEF LinkInv, TypeOK, SndOK, server
<1> QED
  BY <1>2, <1>3, <1>4, <1>5, <1>6, Zenon DEF LinkInv

=============================================================================
