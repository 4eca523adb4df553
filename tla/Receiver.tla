------------------------------ MODULE Receiver ------------------------------
(***************************************************************************)
(* The frame handler of the receiving side (internal/receiver).  A call of *)
(* HandleFrame is a goroutine; every access to shared state, be it an      *)
(* atomic, a map behind a mutex or a request to the target database, is a  *)
(* step of its own, so calls for different frames, for two copies of one   *)
(* frame and for two frames under one seq interleave freely.               *)
(*                                                                         *)
(* The caller may present any frame at any time and call any frame the     *)
(* first of its connection: what holds here holds for every sender.        *)
(***************************************************************************)
EXTENDS Frame, Integers, FiniteSets, Sequences

CONSTANTS
    Handlers,           \* the calls of HandleFrame that run at the same time
    seqJumpLimit,       \* a longer jump of seq is not treated as a gap
    seqPendingLimit,    \* completed seqs kept above a gap
    dedupWindowCap,     \* size of the (seq, CRC) window
    MaxCalls,           \* bound: calls of HandleFrame
    MaxRestarts         \* bound: restarts of the process

ASSUME ReceiverAssumption ==
    /\ seqJumpLimit \in Nat \ {0}
    /\ seqPendingLimit \in Nat
    /\ dedupWindowCap \in Nat \ {0}
    /\ MaxCalls \in Nat /\ MaxRestarts \in Nat
    /\ IsFiniteSet(Handlers)

VARIABLES
    lastSeq,        \* Receiver.lastSeq (atomic)
    trkLast,        \* seqTracker.last
    trkPending,     \* seqTracker.pending
    inflightSeq,    \* Receiver.inflightSeq: seq -> reference count
    dedupSeq,       \* Receiver.dedupSeq: the window in FIFO order
    dedupCRC,       \* Receiver.dedupCRC: seq -> checksum
    fileSeq,        \* the last_seq file
    written,        \* frames imported into the target database
    dlq,            \* frames in the dead letter queue
    handler,        \* Handlers -> local state of the call
    acked,          \* history: data frames answered with AckSuccess
    calls,          \* calls so far
    restarts        \* restarts so far

tracker == <<trkLast, trkPending>>
dedup == <<dedupSeq, dedupCRC>>
stores == <<written, dlq>>
vars == <<lastSeq, tracker, inflightSeq, dedup, fileSeq, stores, handler, acked, calls, restarts>>

(***************************************************************************)
(* The local state of a call: program counter, frame, whether the frame is *)
(* the first of its connection, the value of last_seq it has in hand,      *)
(* whether it is registered in inflightSeq, and the byte it will return.   *)
(***************************************************************************)
Pcs == {"idle", "dedup", "register", "gap", "tryClose", "closeGap", "closeLoad", "closeAdvance",
        "closePersist", "import", "dlq", "done", "load", "advance", "persist", "record",
        "return", "replied"}

Local == [pc : Pcs, frame : Frames, first : BOOLEAN, last : Nat, reg : BOOLEAN,
          ack : {AckSuccess, AckFail}]

Ready == [pc |-> "idle", frame |-> Heartbeat, first |-> FALSE, last |-> 0,
          reg |-> FALSE, ack |-> AckFail]

Goto(h, pc) == handler' = [handler EXCEPT ![h].pc = pc]

GotoWith(h, pc, last) == handler' = [handler EXCEPT ![h].pc = pc, ![h].last = last]

ReturnWith(h, ack) == handler' = [handler EXCEPT ![h].pc = "return", ![h].ack = ack]

seq(h) == handler[h].frame.seq

At(h, pc) == handler[h].pc = pc

\* tryCloseGap holds inflightMu until advanceSeq has returned.
InflightMuFree == \A h \in Handlers : handler[h].pc \notin {"closeLoad", "closeAdvance", "closePersist"}

-----------------------------------------------------------------------------
(***************************************************************************)
(* HandleFrame up to the import.                                           *)
(***************************************************************************)
\* Mutant: the error of Decode is dropped.
Call_NoDecodeCheck(h, f, first) ==
    /\ At(h, "idle")
    /\ calls < MaxCalls
    /\ calls' = calls + 1
    /\ LET local == [Ready EXCEPT !.frame = f, !.first = first]
       IN  handler' = [handler EXCEPT ![h] =
              IF f = Heartbeat THEN [local EXCEPT !.pc = "return", !.ack = AckSuccess]
              ELSE [local EXCEPT !.pc = IF f.seq <= lastSeq THEN "dedup" ELSE "register"]]
    /\ UNCHANGED <<lastSeq, tracker, inflightSeq, dedup, fileSeq, stores, acked, restarts>>

\* The call starts: Decode fails, or the frame is a heartbeat, or its seq is
\* compared with last_seq.
Call(h, f, first) ==
    /\ At(h, "idle")
    /\ calls < MaxCalls
    /\ calls' = calls + 1
    /\ LET local == [Ready EXCEPT !.frame = f, !.first = first]
       IN  handler' = [handler EXCEPT ![h] =
              CASE f = Damaged   -> [local EXCEPT !.pc = "return", !.ack = AckFail]
                [] f = Heartbeat -> [local EXCEPT !.pc = "return", !.ack = AckSuccess]
                [] OTHER -> [local EXCEPT !.pc = IF f.seq <= lastSeq THEN "dedup" ELSE "register"]]
    /\ UNCHANGED <<lastSeq, tracker, inflightSeq, dedup, fileSeq, stores, acked, restarts>>

\* Mutant: a seq that is not in the window reads as checksum 0 (R22).
dedupHit_ZeroValue(f) == (IF f.seq \in DOMAIN dedupCRC THEN dedupCRC[f.seq] ELSE 0) = CRC[f.data]

dedupHit(f) == f.seq \in DOMAIN dedupCRC /\ dedupCRC[f.seq] = CRC[f.data]

Dedup(h) ==
    /\ At(h, "dedup")
    /\ IF dedupHit(handler[h].frame) THEN ReturnWith(h, AckSuccess) ELSE Goto(h, "register")
    /\ UNCHANGED <<lastSeq, tracker, inflightSeq, dedup, fileSeq, stores, acked, calls, restarts>>

\* Mutant: a flag instead of a reference count.
addInflight_Flag(h) ==
    /\ At(h, "register")
    /\ InflightMuFree
    /\ inflightSeq' = [inflightSeq EXCEPT ![seq(h)] = 1]
    /\ handler' = [handler EXCEPT ![h].pc = "gap", ![h].reg = TRUE]
    /\ UNCHANGED <<lastSeq, tracker, dedup, fileSeq, stores, acked, calls, restarts>>

addInflight(h) ==
    /\ At(h, "register")
    /\ InflightMuFree
    /\ inflightSeq' = [inflightSeq EXCEPT ![seq(h)] = @ + 1]
    /\ handler' = [handler EXCEPT ![h].pc = "gap", ![h].reg = TRUE]
    /\ UNCHANGED <<lastSeq, tracker, dedup, fileSeq, stores, acked, calls, restarts>>

\* Is there a gap before this frame that it may close?
Gap(h) ==
    /\ At(h, "gap")
    /\ Goto(h, IF /\ seq(h) > lastSeq + 1
                  /\ seq(h) <= lastSeq + seqJumpLimit
                  /\ handler[h].first
               THEN "tryClose" ELSE "import")
    /\ UNCHANGED <<lastSeq, tracker, inflightSeq, dedup, fileSeq, stores, acked, calls, restarts>>

\* tryCloseGap reads last_seq again before it takes inflightMu.
TryClose(h) ==
    /\ At(h, "tryClose")
    /\ IF seq(h) <= lastSeq + 1 THEN Goto(h, "import") ELSE GotoWith(h, "closeGap", lastSeq)
    /\ UNCHANGED <<lastSeq, tracker, inflightSeq, dedup, fileSeq, stores, acked, calls, restarts>>

GapInFlight(h) == \E s \in Seqs : s \in (handler[h].last + 1)..(seq(h) - 1) /\ inflightSeq[s] > 0

\* Mutant: the tracker moves and last_seq is not told.
CloseGap_NoAdvance(h) ==
    /\ At(h, "closeGap")
    /\ InflightMuFree
    /\ IF GapInFlight(h)
       THEN UNCHANGED tracker
       ELSE LET upTo == IF seq(h) - 1 > trkLast THEN seq(h) - 1 ELSE trkLast
            IN  /\ trkLast' = upTo
                /\ trkPending' = {s \in trkPending : s > upTo}
    /\ Goto(h, "import")
    /\ UNCHANGED <<lastSeq, inflightSeq, dedup, fileSeq, stores, acked, calls, restarts>>

\* The gap is free of calls: seqTracker.closeGap.
CloseGap(h) ==
    /\ At(h, "closeGap")
    /\ InflightMuFree
    /\ IF GapInFlight(h)
       THEN Goto(h, "import") /\ UNCHANGED tracker
       ELSE LET upTo == IF seq(h) - 1 > trkLast THEN seq(h) - 1 ELSE trkLast
            IN  /\ trkLast' = upTo
                /\ trkPending' = {s \in trkPending : s > upTo}
                /\ Goto(h, "closeLoad")
    /\ UNCHANGED <<lastSeq, inflightSeq, dedup, fileSeq, stores, acked, calls, restarts>>

-----------------------------------------------------------------------------
(***************************************************************************)
(* Import: ImportWrite to the target, and the dead letter queue for a      *)
(* frame the target refuses for good (HTTP 4xx).  A call that ends in a    *)
(* transient error may have reached the database; one whose payload does   *)
(* not decompress, or is empty, ends the same way and has not.             *)
(***************************************************************************)
\* Mutant: a transient error is answered like a success.
ImportWrite_AckAnyway(h) ==
    /\ At(h, "import")
    /\ \/ written' = written \cup {handler[h].frame} /\ Goto(h, "done")
       \/ UNCHANGED written /\ Goto(h, "dlq")
       \/ written' \in {written, written \cup {handler[h].frame}} /\ ReturnWith(h, AckSuccess)
    /\ UNCHANGED <<lastSeq, tracker, inflightSeq, dedup, fileSeq, dlq, acked, calls, restarts>>

ImportWrite(h) ==
    /\ At(h, "import")
    /\ \/ written' = written \cup {handler[h].frame} /\ Goto(h, "done")
       \/ UNCHANGED written /\ Goto(h, "dlq")
       \/ written' \in {written, written \cup {handler[h].frame}} /\ ReturnWith(h, AckFail)
    /\ UNCHANGED <<lastSeq, tracker, inflightSeq, dedup, fileSeq, dlq, acked, calls, restarts>>

\* Mutant: a failed write to the DLQ is only logged.
writeDLQJSON_ErrorIgnored(h) ==
    /\ At(h, "dlq")
    /\ dlq' \in {dlq, dlq \cup {handler[h].frame}}
    /\ Goto(h, "done")
    /\ UNCHANGED <<lastSeq, tracker, inflightSeq, dedup, fileSeq, written, acked, calls, restarts>>

writeDLQJSON(h) ==
    /\ At(h, "dlq")
    /\ \/ dlq' = dlq \cup {handler[h].frame} /\ Goto(h, "done")
       \/ UNCHANGED dlq /\ ReturnWith(h, AckFail)
    /\ UNCHANGED <<lastSeq, tracker, inflightSeq, dedup, fileSeq, written, acked, calls, restarts>>

-----------------------------------------------------------------------------
(***************************************************************************)
(* markDone: seqTracker.done, load, advanceSeq; then dedupRecord.          *)
(***************************************************************************)

\* n ends the run of completed seqs that starts above last.
EndsPrefix(n, last, completed) ==
    /\ n >= last
    /\ (last + 1)..n \subseteq completed
    /\ n + 1 \notin completed

\* seqTracker.done: pass a long jump, or drain the contiguous prefix.
Done(h) ==
    /\ At(h, "done")
    /\ \/ /\ seq(h) <= trkLast
          /\ UNCHANGED tracker
          /\ Goto(h, "record")
       \/ /\ seq(h) > trkLast + seqJumpLimit
          /\ trkLast' = seq(h)
          /\ trkPending' = {}
          /\ Goto(h, "load")
       \/ /\ seq(h) \in (trkLast + 1)..(trkLast + seqJumpLimit)
          /\ LET completed == trkPending \cup {seq(h)}
             IN  \E upTo \in {trkLast} \cup completed :
                    LET left == {s \in completed : s > upTo}
                    IN  /\ EndsPrefix(upTo, trkLast, completed)
                        /\ trkLast' = upTo
                        /\ trkPending' = IF Cardinality(left) > seqPendingLimit THEN {} ELSE left
                        /\ Goto(h, IF upTo > trkLast THEN "load" ELSE "record")
    /\ UNCHANGED <<lastSeq, inflightSeq, dedup, fileSeq, stores, acked, calls, restarts>>

\* seqTracker.load, for markDone and for tryCloseGap.
Load(h) ==
    /\ handler[h].pc \in {"load", "closeLoad"}
    /\ GotoWith(h, IF At(h, "load") THEN "advance" ELSE "closeAdvance", trkLast)
    /\ UNCHANGED <<lastSeq, tracker, inflightSeq, dedup, fileSeq, stores, acked, calls, restarts>>

\* Mutant: a plain store instead of the compare-and-swap loop.
advanceSeq_Store(h) ==
    /\ handler[h].pc \in {"advance", "closeAdvance"}
    /\ lastSeq' = handler[h].last
    /\ Goto(h, IF At(h, "advance") THEN "persist" ELSE "closePersist")
    /\ UNCHANGED <<tracker, inflightSeq, dedup, fileSeq, stores, acked, calls, restarts>>

\* Mutant: the loop does not end when another call has raised last_seq further.
advanceSeq_Spins(h) ==
    /\ handler[h].pc \in {"advance", "closeAdvance"}
    /\ IF handler[h].last > lastSeq
       THEN /\ lastSeq' = handler[h].last
            /\ Goto(h, IF At(h, "advance") THEN "persist" ELSE "closePersist")
       ELSE UNCHANGED <<lastSeq, handler>>
    /\ UNCHANGED <<tracker, inflightSeq, dedup, fileSeq, stores, acked, calls, restarts>>

\* advanceSeq, first half: the compare-and-swap loop that only raises last_seq.
advanceSeq(h) ==
    /\ handler[h].pc \in {"advance", "closeAdvance"}
    /\ lastSeq' = IF handler[h].last > lastSeq THEN handler[h].last ELSE lastSeq
    /\ Goto(h, IF At(h, "advance") THEN "persist" ELSE "closePersist")
    /\ UNCHANGED <<tracker, inflightSeq, dedup, fileSeq, stores, acked, calls, restarts>>

\* Second half: write the value in hand to the file, unless throttled or failed.
saveLastSeq(h) ==
    /\ handler[h].pc \in {"persist", "closePersist"}
    /\ fileSeq' \in {fileSeq, handler[h].last}
    /\ Goto(h, IF At(h, "persist") THEN "record" ELSE "import")
    /\ UNCHANGED <<lastSeq, tracker, inflightSeq, dedup, stores, acked, calls, restarts>>

\* Mutant: a seq that is in the window enters the FIFO order once more.
dedupRecord_Twice(h) ==
    /\ At(h, "record")
    /\ LET s == seq(h)
           queue == Append(dedupSeq, s)
           full == Len(queue) > dedupWindowCap
           kept == (DOMAIN dedupCRC \cup {s}) \ (IF full THEN {Head(queue)} ELSE {})
       IN  /\ dedupSeq' = IF full THEN Tail(queue) ELSE queue
           /\ dedupCRC' = [x \in kept |-> IF x = s THEN CRC[handler[h].frame.data] ELSE dedupCRC[x]]
    /\ ReturnWith(h, AckSuccess)
    /\ UNCHANGED <<lastSeq, tracker, inflightSeq, fileSeq, stores, acked, calls, restarts>>

\* The window after (s, crc) was recorded: a new seq may push out the oldest.
dedupRecord(h) ==
    /\ At(h, "record")
    /\ LET s == seq(h)
           crc == CRC[handler[h].frame.data]
           full == s \notin DOMAIN dedupCRC /\ Len(dedupSeq) + 1 > dedupWindowCap
           oldest == Head(Append(dedupSeq, s))
           kept == (DOMAIN dedupCRC \ (IF full THEN {oldest} ELSE {})) \cup {s}
       IN  /\ dedupSeq' = CASE full                   -> Tail(Append(dedupSeq, s))
                            [] s \in DOMAIN dedupCRC  -> dedupSeq
                            [] OTHER                  -> Append(dedupSeq, s)
           /\ dedupCRC' = [x \in kept |-> IF x = s THEN crc ELSE dedupCRC[x]]
    /\ ReturnWith(h, AckSuccess)
    /\ UNCHANGED <<lastSeq, tracker, inflightSeq, fileSeq, stores, acked, calls, restarts>>

\* The deferred removeInflight; then the byte is with the caller.
Return(h) ==
    /\ At(h, "return")
    /\ handler[h].reg => InflightMuFree
    /\ inflightSeq' = IF handler[h].reg
                      THEN [inflightSeq EXCEPT ![seq(h)] = IF @ <= 1 THEN 0 ELSE @ - 1]
                      ELSE inflightSeq
    /\ handler' = [handler EXCEPT ![h].pc = "replied", ![h].reg = FALSE]
    /\ acked' = IF handler[h].ack = AckSuccess /\ handler[h].frame \in DataFrames
                THEN acked \cup {handler[h].frame} ELSE acked
    /\ UNCHANGED <<lastSeq, tracker, dedup, fileSeq, stores, calls, restarts>>

\* The server takes the result of the call.
Release(h) ==
    /\ At(h, "replied")
    /\ handler' = [handler EXCEPT ![h] = Ready]
    /\ UNCHANGED <<lastSeq, tracker, inflightSeq, dedup, fileSeq, stores, acked, calls, restarts>>

-----------------------------------------------------------------------------
\* Mutant: New restores last_seq and leaves the tracker at 0.
Restart_TrackerZero ==
    /\ restarts < MaxRestarts
    /\ restarts' = restarts + 1
    /\ lastSeq' = fileSeq
    /\ trkLast' = 0
    /\ trkPending' = {}
    /\ inflightSeq' = [s \in Seqs |-> 0]
    /\ dedupSeq' = <<>>
    /\ dedupCRC' = [s \in {} |-> 0]
    /\ handler' = [h \in Handlers |-> Ready]
    /\ UNCHANGED <<fileSeq, stores, acked, calls>>

\* The process dies at any point; New restores last_seq from its file.
Restart ==
    /\ restarts < MaxRestarts
    /\ restarts' = restarts + 1
    /\ lastSeq' = fileSeq
    /\ trkLast' = fileSeq
    /\ trkPending' = {}
    /\ inflightSeq' = [s \in Seqs |-> 0]
    /\ dedupSeq' = <<>>
    /\ dedupCRC' = [s \in {} |-> 0]
    /\ handler' = [h \in Handlers |-> Ready]
    /\ UNCHANGED <<fileSeq, stores, acked, calls>>

Init ==
    /\ lastSeq = 0
    /\ trkLast = 0
    /\ trkPending = {}
    /\ inflightSeq = [s \in Seqs |-> 0]
    /\ dedupSeq = <<>>
    /\ dedupCRC = [s \in {} |-> 0]
    /\ fileSeq = 0
    /\ written = {}
    /\ dlq = {}
    /\ handler = [h \in Handlers |-> Ready]
    /\ acked = {}
    /\ calls = 0
    /\ restarts = 0

\* The steps of HandleFrame.
Step(h) ==
    \/ Dedup(h) \/ addInflight(h) \/ Gap(h) \/ TryClose(h) \/ CloseGap(h)
    \/ ImportWrite(h) \/ writeDLQJSON(h)
    \/ Done(h) \/ Load(h) \/ advanceSeq(h) \/ saveLastSeq(h) \/ dedupRecord(h) \/ Return(h)

\* No call is running: the server waits for a frame.
Wait ==
    /\ \A h \in Handlers : At(h, "idle")
    /\ UNCHANGED vars

Next ==
    \/ \E h \in Handlers :
          \/ \E f \in Frames, first \in BOOLEAN : Call(h, f, first)
          \/ Step(h)
          \/ Release(h)
    \/ Restart
    \/ Wait

Spec == Init /\ [][Next]_vars

\* A goroutine that can run is scheduled.
FairSpec == Spec /\ \A h \in Handlers : WF_vars(Step(h))

-----------------------------------------------------------------------------
(***************************************************************************)
(* Properties.                                                             *)
(***************************************************************************)
\* Every variable has the shape of the state it models.
TypeOK ==
    /\ lastSeq \in Nat /\ trkLast \in Nat /\ fileSeq \in Nat
    /\ trkPending \subseteq Seqs
    /\ inflightSeq \in [Seqs -> Nat]
    /\ dedupSeq \in Seq(Seqs)
    /\ DOMAIN dedupCRC \subseteq Seqs /\ \A s \in DOMAIN dedupCRC : dedupCRC[s] \in Nat
    /\ written \subseteq DataFrames /\ dlq \subseteq DataFrames /\ acked \subseteq DataFrames
    /\ handler \in [Handlers -> Local]
    /\ calls \in 0..MaxCalls /\ restarts \in 0..MaxRestarts

stored == written \cup dlq

\* AckSuccess means stored: a data frame that was answered with 0xff is in the
\* target database or in the DLQ, whatever calls ran beside it, whichever
\* seqs were reused for other contents and however often the process died.
AckMeansStored == acked \subseteq stored

\* The deduplication window holds only frames that are stored, so a hit may
\* be answered with 0xff without an import (R15, R22).
DedupMeansStored ==
    \A s \in DOMAIN dedupCRC : \E f \in stored : f.seq = s /\ CRC[f.data] = dedupCRC[s]

\* The FIFO order and the map of the window describe the same entries, each
\* once, and no more than dedupWindowCap.
DedupWindowConsistent ==
    /\ {dedupSeq[i] : i \in DOMAIN dedupSeq} = DOMAIN dedupCRC
    /\ Len(dedupSeq) = Cardinality(DOMAIN dedupCRC)
    /\ Len(dedupSeq) <= dedupWindowCap

\* The file never runs ahead of last_seq, nor last_seq ahead of the tracker.
SeqsAgree == fileSeq <= lastSeq /\ lastSeq <= trkLast

\* The compare-and-swap loses no advance of the tracker: last_seq is behind
\* only while some call still has the newer value in hand.
NoAdvanceLost ==
    \/ lastSeq = trkLast
    \/ \E h \in Handlers :
          \/ handler[h].pc \in {"load", "closeLoad"}
          \/ handler[h].pc \in {"advance", "closeAdvance"} /\ handler[h].last = trkLast

Registered(s) == {h \in Handlers : handler[h].reg /\ seq(h) = s}

\* The reference count of a seq is the number of calls registered for it, so
\* a gap is closed only over seqs that no call works on.
InflightCounts == \A s \in Seqs : inflightSeq[s] = Cardinality(Registered(s))

\* last_seq and the tracker only grow while the process lives.
SeqsMonotone ==
    [][restarts' = restarts => lastSeq' >= lastSeq /\ trkLast' >= trkLast]_vars

\* The detailed handler keeps the promise of FrameHandler.
FH == INSTANCE FrameHandler WITH
    Calls <- Handlers,
    call <- [h \in Handlers |->
               [pc |-> CASE At(h, "idle") -> "idle" [] At(h, "replied") -> "replied" [] OTHER -> "busy",
                frame |-> handler[h].frame,
                ack |-> IF At(h, "replied") THEN handler[h].ack ELSE AckFail]],
    stored <- stored,
    acked <- acked

\* HandleFrame implements the contract the TCP server relies on.
ImplementsFrameHandler == FH!Spec

\* Every call returns: no lock order and no wait keeps a handler for ever.
CallsReturn == \A h \in Handlers : ~At(h, "idle") ~> At(h, "replied") \/ At(h, "idle")
=============================================================================
