-------------------------------- MODULE Link --------------------------------
(***************************************************************************)
(* The link between the two sides: the sender's loop (internal/sender) and *)
(* the TCP client and server (internal/transport), composed with the frame *)
(* handler as FrameHandler specifies it.                                   *)
(*                                                                         *)
(* The sender takes the oldest frames of its WAL, writes them to the       *)
(* connection and reads one ACK byte for each.  With pipeline = 1 it stops *)
(* and waits after every frame; with more it sends a window and goes back  *)
(* to the first frame that was not acknowledged.  The server reads frames  *)
(* one by one, handles up to MaxInflight of a connection concurrently and  *)
(* returns the ACK bytes in the order of the frames.  A connection the     *)
(* client gave up may still deliver frames to the server.                  *)
(*                                                                         *)
(* The WAL is the abstract queue that Wal provides: frames up to appended  *)
(* of generation gen.  A WAL that is lost starts again at seq 1 with other *)
(* contents.                                                               *)
(***************************************************************************)
EXTENDS Frame, Sequences, FiniteSets

CONSTANTS
    Pipelines,      \* the values SenderConfig.Pipeline may have
    MaxInflight,    \* ServerConfig.MaxInflight
    MaxConns,       \* bound: connections dialled
    MaxWire,        \* bound: frames written to one connection
    MaxBeats,       \* bound: heartbeats
    MaxFaults,      \* bound: failed calls, damaged frames, restarts, lost WALs
    Rebuilds        \* bound: times the sender loses its WAL

ASSUME LinkAssumption ==
    /\ Pipelines \subseteq Nat \ {0}
    /\ MaxInflight \in Nat \ {0}
    /\ MaxConns \in Nat /\ MaxWire \in Nat /\ MaxBeats \in Nat /\ MaxFaults \in Nat
    /\ Rebuilds \in Nat /\ 0..Rebuilds \subseteq Contents

Conns == 1..MaxConns

VARIABLES
    pipeline,       \* SenderConfig.Pipeline, as of the last start of the sender
    gen, appended,  \* the WAL: its generation and its last frame
    committed,      \* frames of the WAL that are committed
    saved,          \* committed frames that the checkpoint file knows of
    snd,            \* the sender goroutine: [pc, frames, i]
    conn,           \* TCP client: its connection, or 0
    dialed,         \* connections so far
    wire,           \* connection -> everything the client wrote to it
    read,           \* connection -> frames the server has read
    next,           \* connection -> connPipeline.next
    acks,           \* connection -> ACK bytes the server wrote
    got,            \* connection -> ACK bytes the client has read
    srv,            \* connection -> the server's end: "open", "closing", "closed"
    confirmed,      \* history: frames the sender ever committed
    beats, faults,  \* heartbeats and faults so far
    call, stored, acked     \* the frame handler, see FrameHandler

walVars == <<pipeline, gen, appended, committed, saved, confirmed>>
client == <<snd, conn, dialed>>
server == <<read, next, acks, srv>>
handlerVars == <<call, stored, acked>>
vars == <<walVars, client, wire, got, server, beats, faults, handlerVars>>

H == INSTANCE FrameHandler WITH Calls <- Conns \X (1..MaxWire)

\* A frame whose header does not parse, as the server sees it.
BadHeader == [typ |-> "badheader", seq |-> 0, data |-> 0]

WalFrame(s) == [typ |-> "data", seq |-> s, data |-> gen]

\* PeekBatch: at most n of the oldest frames that are not committed.
PeekBatch(n) ==
    LET pending == appended - committed
    IN  [k \in 1..(IF pending < n THEN pending ELSE n) |-> WalFrame(committed + k)]

Start == [pc |-> "peek", frames |-> <<>>, i |-> 1]

Fault == faults < MaxFaults /\ faults' = faults + 1

-----------------------------------------------------------------------------
(***************************************************************************)
(* The sender.                                                             *)
(***************************************************************************)

\* The poller appends the next frame to the WAL.
AppendFrame ==
    /\ appended + 1 \in Seqs
    /\ appended' = appended + 1
    /\ UNCHANGED <<pipeline, gen, committed, saved, confirmed, client, wire, got, server, beats, faults, handlerVars>>

\* EnsureConnected succeeds: keep the connection or dial a new one.
EnsureConnected ==
    \/ conn # 0 /\ UNCHANGED <<conn, dialed>>
    \/ conn = 0 /\ dialed < MaxConns /\ dialed' = dialed + 1 /\ conn' = dialed'

DialFails == conn = 0 /\ Fault /\ UNCHANGED <<conn, dialed>>

\* Peek finds a frame; connect; take the window, which is that frame with
\* pipeline = 1, or only that frame when PeekBatch fails.
Peek ==
    /\ snd.pc = "peek" /\ committed < appended
    /\ \/ /\ EnsureConnected
          /\ \/ snd' = [Start EXCEPT !.pc = "send", !.frames = PeekBatch(pipeline)] /\ UNCHANGED faults
             \/ /\ pipeline > 1 /\ Fault
                /\ snd' = [Start EXCEPT !.pc = "send", !.frames = <<WalFrame(committed + 1)>>]
       \/ DialFails /\ UNCHANGED snd
    /\ UNCHANGED <<walVars, wire, got, server, beats, handlerVars>>

\* Mutant: the connection stays open, with the ACK bytes still on their way (N1).
GoBack_KeepsConn ==
    /\ UNCHANGED conn
    /\ snd' = IF pipeline = 1 THEN Start
              ELSE [pc |-> "redial", frames |-> SubSeq(snd.frames, snd.i, Len(snd.frames)), i |-> 1]

\* Mutant: the freed part of the window is filled with the oldest pending frames,
\* which are in the window already.
GoBack_Refills ==
    /\ conn' = 0
    /\ snd' = IF pipeline = 1 THEN Start
              ELSE [pc |-> "redial", i |-> 1,
                    frames |-> SubSeq(snd.frames, snd.i, Len(snd.frames)) \o PeekBatch(snd.i - 1)]

\* The connection is lost while frame i is sent or its ACK awaited: start
\* over, or, in a window, reconnect and resend from frame i.
GoBack ==
    /\ conn' = 0
    /\ snd' = IF pipeline = 1 THEN Start
              ELSE [pc |-> "redial", frames |-> SubSeq(snd.frames, snd.i, Len(snd.frames)), i |-> 1]

SendFrame ==
    /\ snd.pc = "send" /\ conn # 0
    /\ Len(wire[conn]) < MaxWire
    /\ \/ wire' = [wire EXCEPT ![conn] = Append(@, snd.frames[snd.i])] /\ UNCHANGED faults
       \/ \E x \in {Damaged, BadHeader} : wire' = [wire EXCEPT ![conn] = Append(@, x)] /\ Fault
    /\ snd' = IF snd.i = Len(snd.frames) THEN [snd EXCEPT !.pc = "ack", !.i = 1]
              ELSE [snd EXCEPT !.i = @ + 1]
    /\ UNCHANGED <<walVars, conn, dialed, got, server, beats, handlerVars>>

SendFails ==
    /\ snd.pc = "send"
    /\ \/ conn \in {0} \cup {c \in Conns : srv[c] = "closed"} /\ UNCHANGED faults
       \/ Fault
    /\ GoBack
    /\ UNCHANGED <<walVars, dialed, wire, got, server, beats, handlerVars>>

\* Mutant: no attempt to connect again.
Redial_NoDial ==
    /\ snd.pc = "redial"
    /\ snd' = [snd EXCEPT !.pc = "send"]
    /\ UNCHANGED <<walVars, conn, dialed, wire, got, server, beats, faults, handlerVars>>

\* The window is sent again from its first frame, connected or not.
Redial ==
    /\ snd.pc = "redial"
    /\ \/ EnsureConnected /\ UNCHANGED faults
       \/ DialFails
    /\ snd' = [snd EXCEPT !.pc = "send"]
    /\ UNCHANGED <<walVars, wire, got, server, beats, handlerVars>>

\* Mutant: the checkpoint confirms the frame after s as well.
Commit_SavesNext(s) ==
    IF committed < appended /\ committed + 1 = s
    THEN /\ committed' = s
         /\ confirmed' = confirmed \cup {WalFrame(s)}
         /\ saved' \in {saved, s + 1}
    ELSE UNCHANGED <<committed, confirmed, saved>>

\* Commit of seq s: the oldest frame, or an error.  The error text reads the
\* oldest entry, so with nothing pending it is an index out of range.
Commit(s) ==
    IF committed < appended /\ committed + 1 = s
    THEN /\ committed' = s
         /\ confirmed' = confirmed \cup {WalFrame(s)}
         /\ saved' \in {saved, s}
    ELSE UNCHANGED <<committed, confirmed, saved>>

CommitPanics == committed >= appended

AckArrived == conn # 0 /\ got[conn] < Len(acks[conn])

\* The ACK byte that WaitAck reads next.
AckByte == acks[conn][got[conn] + 1]

WaitAckSuccess ==
    /\ snd.pc = "ack" /\ AckArrived /\ AckByte = AckSuccess
    /\ got' = [got EXCEPT ![conn] = @ + 1]
    /\ Commit(snd.frames[snd.i].seq)
    /\ snd' = IF CommitPanics THEN [snd EXCEPT !.pc = "panic"]
              ELSE IF snd.i = Len(snd.frames) THEN Start
              ELSE [snd EXCEPT !.i = @ + 1]
    /\ UNCHANGED <<pipeline, gen, appended, conn, dialed, wire, server, beats, faults, handlerVars>>

\* 0x00: stop-and-wait retries on the same connection, a window closes it.
WaitAckFail ==
    /\ snd.pc = "ack" /\ AckArrived /\ AckByte = AckFail
    /\ got' = [got EXCEPT ![conn] = @ + 1]
    /\ IF pipeline = 1 THEN snd' = Start /\ UNCHANGED conn ELSE GoBack
    /\ UNCHANGED <<walVars, dialed, wire, server, beats, faults, handlerVars>>

\* No ACK can come any more, or the wait times out.
AckLost ==
    \/ srv[conn] = "closed" /\ ~AckArrived /\ UNCHANGED faults
    \/ Fault

WaitAckError ==
    /\ snd.pc = "ack"
    /\ AckLost
    /\ GoBack
    /\ UNCHANGED <<walVars, dialed, wire, got, server, beats, handlerVars>>

\* The heartbeat cannot be sent, on the connection at hand or on one just dialled.
BeatFails ==
    \/ conn # 0 /\ srv[conn] = "closed" /\ UNCHANGED <<dialed, faults>>
    \/ conn # 0 /\ Fault /\ UNCHANGED dialed
    \/ conn = 0 /\ dialed < MaxConns /\ dialed' = dialed + 1 /\ Fault

\* An idle sender sends a heartbeat and waits for its ACK, whatever it is.  It
\* gives up when it cannot connect or send.
sendHeartbeat ==
    /\ snd.pc = "peek" /\ committed = appended
    /\ beats < MaxBeats /\ beats' = beats + 1
    /\ \/ /\ EnsureConnected
          /\ Len(wire[conn']) < MaxWire
          /\ wire' = [wire EXCEPT ![conn'] = Append(@, Heartbeat)]
          /\ snd' = [snd EXCEPT !.pc = "beat"]
          /\ UNCHANGED faults
       \/ DialFails /\ UNCHANGED <<snd, wire>>
       \/ BeatFails /\ conn' = 0 /\ UNCHANGED <<snd, wire>>
    /\ UNCHANGED <<walVars, got, server, handlerVars>>

HeartbeatAck ==
    /\ snd.pc = "beat"
    /\ \/ /\ AckArrived
          /\ got' = [got EXCEPT ![conn] = @ + 1]
          /\ UNCHANGED <<conn, faults>>
       \/ AckLost /\ conn' = 0 /\ UNCHANGED got
    /\ snd' = Start
    /\ UNCHANGED <<walVars, dialed, wire, server, beats, handlerVars>>

\* The sender restarts from the checkpoint, with the configuration as it is by
\* then; commits since the checkpoint are forgotten.
SenderRestart ==
    /\ Fault
    /\ committed' = saved
    /\ pipeline' \in Pipelines
    /\ snd' = Start /\ conn' = 0
    /\ UNCHANGED <<gen, appended, saved, confirmed, dialed, wire, got, server, beats, handlerVars>>

\* The WAL directory is lost: seqs start again at 1 with other contents.
WalRebuilt ==
    /\ Fault
    /\ gen < Rebuilds /\ gen' = gen + 1
    /\ appended' = 0 /\ committed' = 0 /\ saved' = 0
    /\ pipeline' \in Pipelines
    /\ snd' = Start /\ conn' = 0
    /\ UNCHANGED <<confirmed, dialed, wire, got, server, beats, handlerVars>>

-----------------------------------------------------------------------------
(***************************************************************************)
(* The server.                                                             *)
(***************************************************************************)

\* The read loop of handleConn takes the next frame.  A bad header is answered
\* at once, past the calls that still run, and ends the connection.  Else
\* awaitInflight waits for room and the handler is started.
ReadFrame(c) ==
    /\ srv[c] = "open" /\ read[c] < Len(wire[c])
    /\ read' = [read EXCEPT ![c] = @ + 1]
    /\ LET frame == wire[c][read[c] + 1]
       IN  \/ /\ frame = BadHeader
              /\ acks' = [acks EXCEPT ![c] = Append(@, AckFail)]
              /\ srv' = [srv EXCEPT ![c] = "closing"]
              /\ UNCHANGED handlerVars
           \/ /\ frame # BadHeader
              /\ read[c] - next[c] < MaxInflight
              /\ H!Invoke(<<c, read[c] + 1>>, frame)
              /\ UNCHANGED <<acks, srv>>
    /\ UNCHANGED <<walVars, client, wire, got, next, beats, faults>>

\* Mutant: results are written back as they come.
writeAck_AnyOrder(c) ==
    /\ srv[c] # "closed" /\ next[c] < read[c]
    /\ \E k \in {c} \X (1..read[c]) :
          /\ call[k].pc = "replied"
          /\ acks' = [acks EXCEPT ![c] = Append(@, call[k].ack)]
          /\ H!Release(k)
    /\ next' = [next EXCEPT ![c] = @ + 1]
    /\ UNCHANGED <<walVars, client, wire, got, read, srv, beats, faults>>

\* The writer goroutine: nextResult in the order of the frames, writeAck,
\* advance.
writeAck(c) ==
    /\ srv[c] # "closed" /\ next[c] < read[c]
    /\ LET k == <<c, next[c] + 1>>
       IN  /\ call[k].pc = "replied"
           /\ acks' = [acks EXCEPT ![c] = Append(@, call[k].ack)]
           /\ H!Release(k)
    /\ next' = [next EXCEPT ![c] = @ + 1]
    /\ UNCHANGED <<walVars, client, wire, got, read, srv, beats, faults>>

\* The server's end closes: after a bad header, because the client is gone,
\* or by a read timeout or an error.  Running calls run on.
CloseConn(c) ==
    /\ c <= dialed /\ srv[c] # "closed"
    /\ \/ (srv[c] = "closing" \/ c # conn) /\ UNCHANGED faults
       \/ Fault
    /\ srv' = [srv EXCEPT ![c] = "closed"]
    /\ UNCHANGED <<walVars, client, wire, got, read, next, acks, beats, handlerVars>>

\* The handler's own steps.  Refusing an intact frame is a fault.
Handle(k) ==
    /\ \/ H!Store(k) /\ UNCHANGED faults
       \/ /\ H!Reply(k)
          /\ IF call'[k].ack = AckFail /\ call[k].frame # Damaged THEN Fault ELSE UNCHANGED faults
    /\ UNCHANGED <<walVars, client, wire, got, server, beats>>

\* The receiver process restarts: its connections and calls are gone.
ReceiverRestart ==
    /\ Fault
    /\ H!Restart
    /\ srv' = [c \in Conns |-> IF c <= dialed THEN "closed" ELSE srv[c]]
    /\ UNCHANGED <<walVars, client, wire, got, read, next, acks, beats>>

-----------------------------------------------------------------------------
Init ==
    /\ pipeline \in Pipelines
    /\ gen = 0 /\ appended = 0 /\ committed = 0 /\ saved = 0 /\ confirmed = {}
    /\ snd = Start /\ conn = 0 /\ dialed = 0
    /\ wire = [c \in Conns |-> <<>>]
    /\ got = [c \in Conns |-> 0]
    /\ read = [c \in Conns |-> 0]
    /\ next = [c \in Conns |-> 0]
    /\ acks = [c \in Conns |-> <<>>]
    /\ srv = [c \in Conns |-> "open"]
    /\ beats = 0 /\ faults = 0
    /\ H!Init

SenderStep ==
    \/ Peek \/ SendFrame \/ SendFails \/ Redial
    \/ WaitAckSuccess \/ WaitAckFail \/ WaitAckError
    \/ sendHeartbeat \/ HeartbeatAck

\* Everything is committed and both sides wait.
Wait ==
    /\ snd.pc = "peek" /\ committed = appended /\ appended + 1 \notin Seqs
    /\ UNCHANGED vars

Next ==
    \/ AppendFrame \/ SenderStep \/ SenderRestart \/ WalRebuilt
    \/ \E c \in Conns : ReadFrame(c) \/ writeAck(c) \/ CloseConn(c)
    \/ \E k \in Conns \X (1..MaxWire) : Handle(k)
    \/ ReceiverRestart
    \/ Wait

Spec == Init /\ [][Next]_vars

NoFault == UNCHANGED faults

\* Goroutines that can run are scheduled, a call of the handler comes to its
\* end, the poller goes on appending.  No fault is ever owed.
FairSpec ==
    /\ Spec
    /\ WF_vars(AppendFrame)
    /\ WF_vars(SenderStep /\ NoFault)
    /\ \A c \in Conns : /\ WF_vars(ReadFrame(c))
                        /\ WF_vars(writeAck(c))
                        /\ WF_vars(CloseConn(c) /\ NoFault)
    /\ \A k \in Conns \X (1..MaxWire) : WF_vars(Handle(k) /\ NoFault)

-----------------------------------------------------------------------------
(***************************************************************************)
(* Properties.                                                             *)
(***************************************************************************)
WireFrames == Frames \cup {BadHeader}

\* Every variable has the shape of the state it models.
TypeOK ==
    /\ pipeline \in Pipelines
    /\ gen \in 0..Rebuilds /\ appended \in Nat /\ committed \in 0..appended /\ saved \in 0..committed
    /\ confirmed \subseteq DataFrames
    /\ snd \in [pc : {"peek", "send", "redial", "ack", "beat", "panic"}, frames : Seq(DataFrames), i : Nat]
    /\ dialed \in 0..MaxConns /\ conn \in 0..dialed
    /\ wire \in [Conns -> Seq(WireFrames)]
    /\ acks \in [Conns -> Seq({AckSuccess, AckFail})]
    /\ read \in [Conns -> Nat] /\ next \in [Conns -> Nat] /\ got \in [Conns -> Nat]
    /\ srv \in [Conns -> {"open", "closing", "closed"}]

\* At least once: the sender commits a frame, and so lets go of it, only when
\* it is stored on the other side, in spite of stale ACK bytes, frames that
\* arrive late on a connection it gave up, reused seqs and restarts.
CommittedMeansStored == confirmed \subseteq stored

\* 0xff means stored, in order: as long as no 0x00 came before it, the k-th
\* byte of a connection answers the k-th frame written to it.
AcksInOrder ==
    \A c \in Conns : \A k \in DOMAIN acks[c] :
        (\A j \in 1..k : acks[c][j] = AckSuccess) =>
            k <= Len(wire[c]) /\ wire[c][k] \in stored \cup {Heartbeat}

\* Commit is never called with an empty WAL, where its error path panics.
CommitNeverPanics == snd.pc # "panic"

\* The first data frame of a connection is the head of the sender's WAL: all
\* frames before it were committed.  The receiver closes gaps on the
\* strength of this (N6).
FirstFrameIsHead ==
    \A c \in Conns : \A k \in DOMAIN wire[c] :
        (wire[c][k] \in DataFrames /\ \A j \in 1..(k - 1) : wire[c][j] = Heartbeat) =>
            \A s \in 1..(wire[c][k].seq - 1) : [wire[c][k] EXCEPT !.seq = s] \in confirmed

\* Once the faults are over every frame is committed.
AllCommitted == <>(committed = Cardinality(Seqs))
=============================================================================
