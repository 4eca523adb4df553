------------------------- MODULE ReceiverSeqProofs --------------------------
(***************************************************************************)
(* What HandleFrame does with sequence numbers, and the contract it keeps: *)
(* the order of the three copies of last_seq, that no advance of the       *)
(* tracker is lost, the shape of the deduplication window, and that the    *)
(* detailed handler implements FrameHandler.                               *)
(***************************************************************************)
EXTENDS ReceiverProofs

-----------------------------------------------------------------------------
(***************************************************************************)
(* The three copies of last_seq.  A call carries a value between the load  *)
(* from the tracker, the compare-and-swap and the write of the file; the   *)
(* value in hand is bounded by what it was taken from.                     *)
(***************************************************************************)
HandKnows(h) ==
    /\ handler[h].pc \in {"advance", "closeAdvance"} => handler[h].last <= trkLast
    /\ handler[h].pc \in {"persist", "closePersist"} => handler[h].last <= lastSeq

SeqInv == SeqsAgree /\ \A h \in Handlers : HandKnows(h)

\* A move of call h keeps the bounds of the others, as the bounds only grow.
LEMMA HandsKept ==
    ASSUME TypeOK, TypeOK', SeqInv, NEW h \in Handlers, SeqsAgree', HandKnows(h)',
           lastSeq' >= lastSeq, trkLast' >= trkLast,
           \A g \in Handlers : g # h => handler'[g] = handler[g]
    PROVE  SeqInv'
<1> SUFFICES ASSUME NEW g \in Handlers, g # h PROVE HandKnows(g)'
  BY Zenon DEF SeqInv
<1>1. HandKnows(g) /\ handler'[g] = handler[g] /\ handler[g].last \in Nat
  BY SMTT(60) DEF SeqInv, TypeOK, Local
<1>2. {lastSeq, lastSeq', trkLast, trkLast'} \subseteq Nat
  BY Zenon DEF TypeOK
<1>3. handler[g].last <= trkLast => handler[g].last <= trkLast'
  BY <1>1, <1>2
<1>4. handler[g].last <= lastSeq => handler[g].last <= lastSeq'
  BY <1>1, <1>2
<1> QED
  BY <1>1, <1>3, <1>4, Zenon DEF HandKnows

\* Every step of a call keeps the copies in order and never lowers last_seq or
\* the tracker.
LEMMA StepSeqs ==
    ASSUME StoreInv, StoreInv', SeqInv, NEW h \in Handlers, Step(h)
    PROVE  SeqInv' /\ lastSeq' >= lastSeq /\ trkLast' >= trkLast
<1> USE DEF StoreInv
<1>0. /\ handler \in [Handlers -> Local] /\ HandKnows(h) /\ CallKnows(h)
      /\ handler[h].last \in Nat /\ lastSeq \in Nat /\ trkLast \in Nat /\ fileSeq \in Nat
  BY SMTT(60) DEF TypeOK, Local, CallsKnow, SeqInv
<1>1. ASSUME UNCHANGED <<lastSeq, tracker, fileSeq>>,
             NEW pc \in Pcs \ {"advance", "closeAdvance", "persist", "closePersist"},
             NEW last, NEW reg, NEW ack, Moves(h, pc, last, reg, ack)
      PROVE  SeqInv' /\ lastSeq' >= lastSeq /\ trkLast' >= trkLast
  <2>1. SeqsAgree' /\ HandKnows(h)' /\ lastSeq' >= lastSeq /\ trkLast' >= trkLast
    BY <1>0, <1>1 DEF Moves, HandKnows, SeqInv, SeqsAgree, tracker
  <2> QED
    BY <1>1, <2>1, HandsKept, Zenon DEF Moves
<1>2. CASE Dedup(h)
  <2>1. CASE dedupHit(handler[h].frame)
    BY <1>0, <1>1, <1>2, <2>1, ReturnWithMoves, Zenon DEF Dedup, Pcs
  <2>2. CASE ~dedupHit(handler[h].frame)
    BY <1>0, <1>1, <1>2, <2>2, GotoMoves, Zenon DEF Dedup, Pcs
  <2> QED
    BY <2>1, <2>2, Zenon
<1>3. CASE addInflight(h)
  <2>1. Moves(h, "gap", handler[h].last, TRUE, handler[h].ack)
    BY <1>0, <1>3, RegMoves, Zenon DEF addInflight, Pcs
  <2> QED
    BY <1>1, <1>3, <2>1, Zenon DEF addInflight, Pcs
<1>4. CASE Gap(h) \/ TryClose(h)
  <2>1. PICK pc \in {"tryClose", "import", "closeGap"}, last \in Nat :
           Moves(h, pc, last, handler[h].reg, handler[h].ack)
    BY <1>0, <1>4, GotoMoves, GotoWithMoves, Zenon DEF Gap, TryClose, Pcs
  <2> QED
    BY <1>1, <1>4, <2>1, Zenon DEF Gap, TryClose, Pcs
<1>5. CASE CloseGap(h)
  <2>1. CASE GapInFlight(h)
    BY <1>0, <1>1, <1>5, <2>1, GotoMoves, Zenon DEF CloseGap, Pcs
  <2>2. CASE ~GapInFlight(h)
    <3> DEFINE upTo == IF seq(h) - 1 > trkLast THEN seq(h) - 1 ELSE trkLast
    <3>1. seq(h) \in Nat
      BY <1>0, <1>5, FrameAssumption, Zenon DEF CloseGap, At, CallKnows, DataPcs, Pcs, DataFrames, seq
    <3>2. upTo \in Nat /\ upTo >= trkLast
      BY <1>0, <3>1
    <3>3. Goto(h, "closeLoad") /\ trkLast' = upTo /\ UNCHANGED <<lastSeq, fileSeq>>
      BY <1>5, <2>2, Zenon DEF CloseGap
    <3> HIDE DEF upTo
    <3>4. Moves(h, "closeLoad", handler[h].last, handler[h].reg, handler[h].ack)
      BY <1>0, <3>3, GotoMoves, Zenon DEF Pcs
    <3>5. SeqsAgree' /\ HandKnows(h)'
      BY <1>0, <3>2, <3>3, <3>4 DEF Moves, HandKnows, SeqInv, SeqsAgree
    <3>6. lastSeq' >= lastSeq /\ trkLast' >= trkLast
      BY <1>0, <3>2, <3>3
    <3> QED
      BY <3>4, <3>5, <3>6, HandsKept, Zenon DEF Moves
  <2> QED
    BY <2>1, <2>2, Zenon
<1>6. CASE ImportWrite(h) \/ writeDLQJSON(h)
  <2>1. \/ Goto(h, "done") \/ Goto(h, "dlq") \/ ReturnWith(h, AckFail)
    BY <1>6, Zenon DEF ImportWrite, writeDLQJSON
  <2>2. UNCHANGED <<lastSeq, tracker, fileSeq>>
    BY <1>6, Zenon DEF ImportWrite, writeDLQJSON
  <2>3. {"done", "dlq", "return"} \subseteq Pcs \ {"advance", "closeAdvance", "persist", "closePersist"}
    BY Zenon DEF Pcs
  <2>4. PICK pc \in {"done", "dlq", "return"}, ack \in {AckSuccess, AckFail} :
           Moves(h, pc, handler[h].last, handler[h].reg, ack)
    <3>1. handler[h].ack \in {AckSuccess, AckFail} /\ {"done", "dlq"} \subseteq Pcs
      BY <1>0, Zenon DEF Local, Pcs
    <3> QED
      BY <1>0, <2>1, <3>1, GotoMoves, ReturnWithMoves, Zenon
  <2> QED
    BY <1>1, <2>2, <2>3, <2>4, Zenon
<1>7. CASE Done(h)
  <2>1. seq(h) \in Seqs /\ Seqs \subseteq Nat
    BY <1>0, <1>7, FrameAssumption, Zenon DEF Done, At, CallKnows, DataPcs, Pcs, DataFrames, seq
  <2>2. /\ UNCHANGED <<lastSeq, fileSeq>> /\ trkLast' \in Nat /\ trkLast' >= trkLast
        /\ \E pc \in {"record", "load"} : Goto(h, pc)
    <3>1. CASE UNCHANGED tracker /\ Goto(h, "record")
      BY <1>0, <1>7, <3>1 DEF Done, tracker
    <3>2. CASE seq(h) > trkLast + seqJumpLimit /\ trkLast' = seq(h) /\ Goto(h, "load")
      <4>1. seq(h) \in Nat /\ seqJumpLimit \in Nat
        BY <2>1, ReceiverAssumption, Zenon
      <4>2. trkLast' \in Nat /\ trkLast' >= trkLast
        BY <1>0, <3>2, <4>1
      <4> QED
        BY <1>7, <3>2, <4>2, Zenon DEF Done
    <3>3. CASE /\ \E upTo \in {trkLast} \cup trkPending \cup {seq(h)} :
                     EndsPrefix(upTo, trkLast, trkPending \cup {seq(h)}) /\ trkLast' = upTo
               /\ \E pc \in {"record", "load"} : Goto(h, pc)
      BY <1>0, <1>7, <2>1, <3>3, Zenon DEF Done, EndsPrefix, TypeOK
    <3> QED
      BY <1>7, <3>1, <3>2, <3>3, Zenon DEF Done
  <2>3. PICK pc \in {"record", "load"} :
           Moves(h, pc, handler[h].last, handler[h].reg, handler[h].ack)
    BY <1>0, <2>2, GotoMoves, Zenon DEF Pcs
  <2>4. SeqsAgree' /\ HandKnows(h)' /\ lastSeq' >= lastSeq
    BY <1>0, <2>2, <2>3 DEF Moves, HandKnows, SeqInv, SeqsAgree
  <2> QED
    BY <2>2, <2>3, <2>4, HandsKept, Zenon DEF Moves
<1>8. CASE Load(h)
  <2>1. PICK pc \in {"advance", "closeAdvance"} :
           Moves(h, pc, trkLast, handler[h].reg, handler[h].ack)
    BY <1>0, <1>8, GotoWithMoves, Zenon DEF Load, Pcs
  <2>2. UNCHANGED <<lastSeq, tracker, fileSeq>>
    BY <1>8, Zenon DEF Load
  <2>3. SeqsAgree' /\ HandKnows(h)' /\ lastSeq' >= lastSeq /\ trkLast' >= trkLast
    BY <1>0, <2>1, <2>2 DEF Moves, HandKnows, SeqInv, SeqsAgree, tracker
  <2> QED
    BY <2>1, <2>3, HandsKept, Zenon DEF Moves
<1>9. CASE advanceSeq(h)
  <2>1. PICK pc \in {"persist", "closePersist"} :
           Moves(h, pc, handler[h].last, handler[h].reg, handler[h].ack)
    BY <1>0, <1>9, GotoMoves, Zenon DEF advanceSeq, Pcs
  <2>2. /\ handler[h].last <= trkLast /\ UNCHANGED <<tracker, fileSeq>>
        /\ lastSeq' = IF handler[h].last > lastSeq THEN handler[h].last ELSE lastSeq
    BY <1>0, <1>9, Zenon DEF advanceSeq, HandKnows
  <2>3. SeqsAgree' /\ HandKnows(h)' /\ lastSeq' >= lastSeq /\ trkLast' >= trkLast
    BY <1>0, <2>1, <2>2 DEF Moves, HandKnows, SeqInv, SeqsAgree, tracker
  <2> QED
    BY <2>1, <2>3, HandsKept, Zenon DEF Moves
<1>10. CASE saveLastSeq(h)
  <2>1. PICK pc \in {"record", "import"} :
           Moves(h, pc, handler[h].last, handler[h].reg, handler[h].ack)
    BY <1>0, <1>10, GotoMoves, Zenon DEF saveLastSeq, Pcs
  <2>2. /\ handler[h].last <= lastSeq /\ UNCHANGED <<lastSeq, tracker>>
        /\ fileSeq' \in {fileSeq, handler[h].last}
    BY <1>0, <1>10, Zenon DEF saveLastSeq, HandKnows
  <2>3. SeqsAgree' /\ HandKnows(h)' /\ lastSeq' >= lastSeq /\ trkLast' >= trkLast
    BY <1>0, <2>1, <2>2 DEF Moves, HandKnows, SeqInv, SeqsAgree, tracker
  <2> QED
    BY <2>1, <2>3, HandsKept, Zenon DEF Moves
<1>11. CASE dedupRecord(h)
  <2>1. Moves(h, "return", handler[h].last, handler[h].reg, AckSuccess)
    BY <1>0, <1>11, ReturnWithMoves, Zenon DEF dedupRecord
  <2> QED
    BY <1>1, <1>11, <2>1, Zenon DEF dedupRecord, Pcs
<1>12. CASE Return(h)
  <2>1. Moves(h, "replied", handler[h].last, FALSE, handler[h].ack)
    BY <1>0, <1>12, RegMoves, Zenon DEF Return, Pcs
  <2> QED
    BY <1>1, <1>12, <2>1, Zenon DEF Return, Pcs
<1> QED
  BY <1>2, <1>3, <1>4, <1>5, <1>6, <1>7, <1>8, <1>9, <1>10, <1>11, <1>12 DEF Step
\* The order of the copies is kept by every step of the receiver.
LEMMA NextSeqs == StoreInv /\ StoreInv' /\ SeqInv /\ [Next]_vars => SeqInv'
<1> SUFFICES ASSUME StoreInv, StoreInv', SeqInv, [Next]_vars PROVE SeqInv'
  BY Zenon
<1>0. TypeOK /\ TypeOK' /\ lastSeq \in Nat /\ trkLast \in Nat
  BY Zenon DEF StoreInv, TypeOK
<1>1. ASSUME NEW h \in Handlers, Step(h) PROVE SeqInv'
  BY <1>1, StepSeqs, Zenon
<1>2. ASSUME NEW h \in Handlers, NEW f \in Frames, NEW first \in BOOLEAN, Call(h, f, first)
      PROVE  SeqInv'
  <2>1. /\ \A g \in Handlers : g # h => handler'[g] = handler[g]
        /\ UNCHANGED <<lastSeq, tracker, fileSeq>>
    BY <1>0, <1>2, Zenon DEF Call, TypeOK
  <2>2. handler'[h].pc \notin {"advance", "closeAdvance", "persist", "closePersist"}
    BY <1>0, <1>2, Zenon DEF Call, TypeOK, Ready, Heartbeat, Damaged
  <2>3. SeqsAgree' /\ HandKnows(h)' /\ lastSeq' >= lastSeq /\ trkLast' >= trkLast
    BY <1>0, <2>1, <2>2 DEF HandKnows, SeqInv, SeqsAgree, tracker
  <2> QED
    BY <1>0, <2>1, <2>3, HandsKept, Zenon
<1>3. ASSUME NEW h \in Handlers, Release(h) PROVE SeqInv'
  <2>1. /\ \A g \in Handlers : g # h => handler'[g] = handler[g]
        /\ UNCHANGED <<lastSeq, tracker, fileSeq>>
        /\ handler'[h] = Ready
    BY <1>0, <1>3, Zenon DEF Release, TypeOK
  <2>2. SeqsAgree' /\ HandKnows(h)' /\ lastSeq' >= lastSeq /\ trkLast' >= trkLast
    BY <1>0, <2>1 DEF HandKnows, SeqInv, SeqsAgree, tracker, Ready
  <2> QED
    BY <1>0, <2>1, <2>2, HandsKept, Zenon
<1>4. CASE Restart
  BY <1>0, <1>4 DEF Restart, SeqInv, SeqsAgree, HandKnows, Ready, TypeOK
<1>5. CASE UNCHANGED vars
  BY <1>5, Zenon DEF vars, tracker, SeqInv, SeqsAgree, HandKnows
<1> QED
  BY <1>1, <1>2, <1>3, <1>4, <1>5, Zenon DEF Next, Wait

\* The last_seq file never runs ahead of last_seq, nor last_seq ahead of the
\* tracker, although advanceSeq and saveLastSeq of several calls interleave.
THEOREM SeqsSafety == Spec => []SeqsAgree
<1>1. Init => SeqInv
  BY DEF Init, SeqInv, SeqsAgree, HandKnows, Ready
<1>2. StoreInv /\ StoreInv' /\ SeqInv /\ [Next]_vars => SeqInv'
  BY NextSeqs, Zenon
<1>3. SeqInv => SeqsAgree
  BY Zenon DEF SeqInv
<1> QED
  BY <1>1, <1>2, <1>3, StoreInvariant, PTL DEF Spec

\* advanceSeq and seqTracker only raise their values while the process lives.
THEOREM SeqsGrow == Spec => SeqsMonotone
<1>1. Init => SeqInv
  BY DEF Init, SeqInv, SeqsAgree, HandKnows, Ready
<1>2. StoreInv /\ StoreInv' /\ SeqInv /\ [Next]_vars => SeqInv'
  BY NextSeqs, Zenon
<1>3. StoreInv /\ StoreInv' /\ SeqInv /\ [Next]_vars
      => [restarts' = restarts => lastSeq' >= lastSeq /\ trkLast' >= trkLast]_vars
  <2> SUFFICES ASSUME StoreInv, StoreInv', SeqInv, Next, restarts' = restarts
               PROVE  lastSeq' >= lastSeq /\ trkLast' >= trkLast
    BY Zenon
  <2>0. lastSeq \in Nat /\ trkLast \in Nat /\ restarts \in Nat
    BY ReceiverAssumption DEF StoreInv, TypeOK
  <2>1. ASSUME NEW h \in Handlers, Step(h) PROVE lastSeq' >= lastSeq /\ trkLast' >= trkLast
    BY <2>1, StepSeqs, Zenon
  <2>2. ~Restart
    BY <2>0 DEF Restart
  <2>3. ASSUME UNCHANGED <<lastSeq, tracker>> PROVE lastSeq' >= lastSeq /\ trkLast' >= trkLast
    BY <2>0, <2>3 DEF tracker
  <2> QED
    BY <2>1, <2>2, <2>3, Zenon DEF Next, Call, Release, Wait, vars
<1> QED
  BY <1>1, <1>2, <1>3, StoreInvariant, PTL DEF Spec, SeqsMonotone

-----------------------------------------------------------------------------
(***************************************************************************)
(* last_seq follows the tracker: the call that moved the tracker still has *)
(* to load it, or has the newest value in hand, until the compare-and-swap *)
(* has stored a value that large.                                          *)
(***************************************************************************)
InHand(h) ==
    \/ handler[h].pc \in {"load", "closeLoad"}
    \/ handler[h].pc \in {"advance", "closeAdvance"} /\ handler[h].last = trkLast

\* A call that has nothing in hand may take any step that leaves the two
\* values alone.
LEMMA NothingInHand ==
    ASSUME NoAdvanceLost, NEW h \in Handlers, UNCHANGED <<lastSeq, trkLast>>,
           handler[h].pc \notin {"load", "closeLoad", "advance", "closeAdvance"},
           \A g \in Handlers : g # h => handler'[g] = handler[g]
    PROVE  NoAdvanceLost'
BY Zenon DEF NoAdvanceLost

\* A call that has loaded, or is about to load, the tracker answers for it.
LEMMA SomeInHand == ASSUME NEW h \in Handlers, InHand(h)' PROVE NoAdvanceLost'
BY Zenon DEF NoAdvanceLost, InHand

\* Every step of a call keeps the newest value of the tracker in some hand.
LEMMA StepInHand ==
    ASSUME StoreInv, SeqInv, NoAdvanceLost, NEW h \in Handlers, Step(h)
    PROVE  NoAdvanceLost'
<1>0. /\ handler \in [Handlers -> Local] /\ lastSeq \in Nat /\ trkLast \in Nat
      /\ handler[h].last \in Nat /\ handler[h].reg \in BOOLEAN
      /\ lastSeq <= trkLast /\ HandKnows(h) /\ CallKnows(h) /\ TypeOK
  BY Zenon DEF StoreInv, CallsKnow, TypeOK, Local, SeqInv, SeqsAgree
<1>1. CASE Dedup(h) \/ addInflight(h) \/ Gap(h) \/ TryClose(h) \/ ImportWrite(h) \/ writeDLQJSON(h)
           \/ saveLastSeq(h) \/ dedupRecord(h) \/ Return(h)
  <2>1. /\ UNCHANGED <<lastSeq, trkLast>>
        /\ handler[h].pc \notin {"load", "closeLoad", "advance", "closeAdvance"}
    BY <1>1, Zenon DEF Dedup, addInflight, Gap, TryClose, ImportWrite, writeDLQJSON, saveLastSeq,
       dedupRecord, Return, tracker, At
  <2>2. \A g \in Handlers : g # h => handler'[g] = handler[g]
    BY <1>0, <1>1, Zenon DEF Dedup, addInflight, Gap, TryClose, ImportWrite, writeDLQJSON, saveLastSeq,
       dedupRecord, Return, Goto, GotoWith, ReturnWith
  <2> QED
    BY <2>1, <2>2, NothingInHand, Zenon
<1>2. CASE CloseGap(h)
  <2>1. CASE GapInFlight(h)
    <3>1. UNCHANGED <<lastSeq, trkLast>> /\ Goto(h, "import") /\ At(h, "closeGap")
      BY <1>2, <2>1, Zenon DEF CloseGap, tracker
    <3> QED
      BY <1>0, <3>1, NothingInHand, Zenon DEF Goto, At
  <2>2. CASE ~GapInFlight(h)
    <3>1. Goto(h, "closeLoad")
      BY <1>2, <2>2, Zenon DEF CloseGap
    <3>2. InHand(h)'
      BY <1>0, <3>1 DEF Goto, InHand
    <3> QED
      BY <3>2, SomeInHand, Zenon
  <2> QED
    BY <2>1, <2>2, Zenon
<1>3. CASE Done(h)
  <2>1. \/ UNCHANGED <<lastSeq, trkLast>> /\ Goto(h, "record") /\ At(h, "done")
        \/ Goto(h, "load")
    <3>1. At(h, "done") /\ lastSeq' = lastSeq /\ seq(h) \in Nat /\ trkPending \subseteq Nat
      BY <1>0, <1>3, FrameAssumption, Zenon DEF Done, At, TypeOK, CallKnows, DataPcs, Pcs, DataFrames, seq
    <3>2. ASSUME NEW upTo \in {trkLast} \cup trkPending \cup {seq(h)},
                 EndsPrefix(upTo, trkLast, trkPending \cup {seq(h)}), trkLast' = upTo,
                 Goto(h, IF upTo > trkLast THEN "load" ELSE "record")
          PROVE  (trkLast' = trkLast /\ Goto(h, "record")) \/ Goto(h, "load")
      BY <1>0, <3>1, <3>2 DEF EndsPrefix
    <3>3. \/ UNCHANGED tracker /\ Goto(h, "record")
          \/ Goto(h, "load")
          \/ \E upTo \in {trkLast} \cup (trkPending \cup {seq(h)}) :
                /\ EndsPrefix(upTo, trkLast, trkPending \cup {seq(h)}) /\ trkLast' = upTo
                /\ Goto(h, IF upTo > trkLast THEN "load" ELSE "record")
      BY <1>3, Zenon DEF Done
    <3> QED
      BY <3>1, <3>2, <3>3, Zenon DEF tracker
  <2>2. CASE UNCHANGED <<lastSeq, trkLast>> /\ Goto(h, "record") /\ At(h, "done")
    BY <1>0, <2>2, NothingInHand, Zenon DEF Goto, At
  <2>3. CASE Goto(h, "load")
    <3>1. InHand(h)'
      BY <1>0, <2>3 DEF Goto, InHand
    <3> QED
      BY <3>1, SomeInHand, Zenon
  <2> QED
    BY <2>1, <2>2, <2>3, Zenon
<1>4. CASE Load(h)
  <2>1. /\ \E pc \in {"advance", "closeAdvance"} : GotoWith(h, pc, trkLast)
        /\ trkLast' = trkLast
    BY <1>4, Zenon DEF Load, tracker
  <2>2. InHand(h)'
    BY <1>0, <2>1 DEF GotoWith, InHand
  <2> QED
    BY <2>2, SomeInHand, Zenon
<1>5. CASE advanceSeq(h)
  <2>1. /\ trkLast' = trkLast /\ handler[h].last <= trkLast
        /\ handler[h].pc \notin {"load", "closeLoad"}
        /\ lastSeq' = IF handler[h].last > lastSeq THEN handler[h].last ELSE lastSeq
    BY <1>0, <1>5, Zenon DEF advanceSeq, tracker, HandKnows
  <2>2. \A g \in Handlers : g # h => handler'[g] = handler[g]
    BY <1>0, <1>5, Zenon DEF advanceSeq, Goto
  <2>3. CASE lastSeq = trkLast \/ handler[h].last = trkLast
    BY <1>0, <2>1, <2>3 DEF NoAdvanceLost
  <2>4. CASE lastSeq # trkLast /\ handler[h].last # trkLast
    BY <2>1, <2>2, <2>4, Zenon DEF NoAdvanceLost
  <2> QED
    BY <2>3, <2>4, Zenon
<1> QED
  BY <1>1, <1>2, <1>3, <1>4, <1>5, Zenon DEF Step

\* Neither advanceSeq nor a race of several calls loses an advance of the
\* tracker: last_seq is behind it only while some call has the value in hand.
THEOREM AdvanceSafety == Spec => []NoAdvanceLost
<1>1. Init => SeqInv /\ NoAdvanceLost
  BY DEF Init, SeqInv, SeqsAgree, HandKnows, Ready, NoAdvanceLost
<1>2. StoreInv /\ StoreInv' /\ SeqInv /\ [Next]_vars => SeqInv'
  BY NextSeqs, Zenon
<1>3. StoreInv /\ SeqInv /\ NoAdvanceLost /\ [Next]_vars => NoAdvanceLost'
  <2> SUFFICES ASSUME StoreInv, SeqInv, NoAdvanceLost, [Next]_vars PROVE NoAdvanceLost'
    BY Zenon
  <2>0. handler \in [Handlers -> Local]
    BY Zenon DEF StoreInv, TypeOK
  <2>1. ASSUME NEW h \in Handlers, Step(h) PROVE NoAdvanceLost'
    BY <2>1, StepInHand, Zenon
  <2>2. ASSUME NEW h \in Handlers, NEW f \in Frames, NEW first \in BOOLEAN,
               Call(h, f, first) \/ Release(h)
        PROVE  NoAdvanceLost'
    <3>1. UNCHANGED <<lastSeq, trkLast>> /\ (At(h, "idle") \/ At(h, "replied"))
      BY <2>2, Zenon DEF Call, Release, tracker
    <3>2. \A g \in Handlers : g # h => handler'[g] = handler[g]
      BY <2>0, <2>2, Zenon DEF Call, Release
    <3> QED
      BY <3>1, <3>2, NothingInHand, Zenon DEF At
  <2>3. CASE Restart
    BY <2>3, Zenon DEF Restart, NoAdvanceLost
  <2>4. CASE UNCHANGED vars
    BY <2>4, Zenon DEF vars, tracker, NoAdvanceLost
  <2>5. Heartbeat \in Frames
    BY Zenon DEF Frames
  <2> QED
    BY <2>1, <2>2, <2>3, <2>4, <2>5, Zenon DEF Next, Wait
<1> QED
  BY <1>1, <1>2, <1>3, StoreInvariant, PTL DEF Spec

-----------------------------------------------------------------------------
(***************************************************************************)
(* The deduplication window: the FIFO order lists every key of the map     *)
(* once, so that pushing out the oldest entry keeps the two in step.       *)
(***************************************************************************)
Orders(q, D) ==
    /\ \A i \in 1..Len(q) : q[i] \in D
    /\ \A d \in D : \E i \in 1..Len(q) : q[i] = d
    /\ \A i, j \in 1..Len(q) : q[i] = q[j] => i = j

DedupInv == Orders(dedupSeq, DOMAIN dedupCRC) /\ Len(dedupSeq) <= dedupWindowCap

\* A new seq goes to the end of the order and into the map.
LEMMA OrdersAppend ==
    ASSUME NEW q \in Seq(Seqs), NEW D, NEW s \in Seqs, s \notin D, Orders(q, D)
    PROVE  Orders(Append(q, s), D \cup {s})
<1>1. /\ Len(q) \in Nat /\ Len(Append(q, s)) = Len(q) + 1
      /\ \A i \in 1..Len(q) : Append(q, s)[i] = q[i]
      /\ Append(q, s)[Len(q) + 1] = s
  OBVIOUS
<1> DEFINE qq == Append(q, s)
<1>2. \A i \in 1..Len(qq) : i \in 1..Len(q) \/ i = Len(q) + 1
  BY <1>1
<1>3. 1..Len(q) \subseteq 1..Len(qq) /\ Len(q) + 1 \in 1..Len(qq)
  BY <1>1
<1>4. \A i \in 1..Len(q) : qq[i] = q[i] /\ q[i] # s
  BY <1>1, Zenon DEF Orders
<1>5. qq[Len(q) + 1] = s
  BY <1>1, Zenon
<1> HIDE DEF qq
<1>6. \A i \in 1..Len(qq) : qq[i] \in D \cup {s}
  BY <1>2, <1>4, <1>5, Zenon DEF Orders
<1>7. \A d \in D \cup {s} : \E i \in 1..Len(qq) : qq[i] = d
  BY <1>3, <1>4, <1>5, Zenon DEF Orders
<1>8. \A i, j \in 1..Len(qq) : qq[i] = qq[j] => i = j
  BY <1>2, <1>4, <1>5, Zenon DEF Orders
<1> QED
  BY <1>6, <1>7, <1>8, SMTT(60) DEF Orders, qq

\* The oldest seq leaves the order and the map.
LEMMA OrdersTail ==
    ASSUME NEW q \in Seq(Seqs), NEW D, Len(q) > 0, Orders(q, D)
    PROVE  Orders(Tail(q), D \ {q[1]})
<1>1. /\ Len(q) \in Nat \ {0} /\ Len(Tail(q)) = Len(q) - 1
      /\ \A i \in 1..Len(Tail(q)) : Tail(q)[i] = q[i + 1]
  OBVIOUS
<1> DEFINE t == Tail(q)
<1>2. \A i \in 1..Len(t) : i + 1 \in 1..Len(q) /\ i + 1 # 1 /\ t[i] = q[i + 1]
  BY <1>1
<1>3. \A i \in 1..Len(q) : i = 1 \/ (i - 1 \in 1..Len(t) /\ (i - 1) + 1 = i)
  BY <1>1
<1>4. 1 \in 1..Len(q) /\ \A i, j \in 1..Len(t) : i + 1 = j + 1 => i = j
  BY <1>1
<1> HIDE DEF t
<1>5. \A i \in 1..Len(t) : t[i] \in D \ {q[1]}
  BY <1>2, <1>4 DEF Orders
<1>6. \A d \in D \ {q[1]} : \E i \in 1..Len(t) : t[i] = d
  <2> SUFFICES ASSUME NEW d \in D, d # q[1] PROVE \E i \in 1..Len(t) : t[i] = d
    BY Zenon
  <2>1. PICK i \in 1..Len(q) : q[i] = d
    BY Zenon DEF Orders
  <2>2. i - 1 \in 1..Len(t) /\ t[i - 1] = d
    BY <1>2, <1>3, <2>1, Zenon
  <2> QED
    BY <2>2, Zenon
<1>7. \A i, j \in 1..Len(t) : t[i] = t[j] => i = j
  BY <1>2, <1>4 DEF Orders
<1> QED
  BY <1>5, <1>6, <1>7, Zenon DEF Orders, t

\* The order is as long as the map is large.
LEMMA OrdersCount ==
    ASSUME NEW q \in Seq(Seqs), NEW D, Orders(q, D)
    PROVE  {q[i] : i \in DOMAIN q} = D /\ Len(q) = Cardinality(D)
<1>1. DOMAIN q = 1..Len(q) /\ Len(q) \in Nat /\ q = [i \in 1..Len(q) |-> q[i]]
  OBVIOUS
<1>2. q \in [1..Len(q) -> D]
  BY <1>1, Zenon DEF Orders
<1>3. q \in Bijection(1..Len(q), D)
  BY <1>1, <1>2, Zenon DEF Orders, Bijection, Injection, Surjection, IsInjective
<1>4. Cardinality(D) = Len(q)
  BY <1>1, <1>3, FS_CountingElements, Zenon DEF ExistsBijection
<1>5. {q[i] : i \in 1..Len(q)} = D
  BY DEF Orders
<1> QED
  BY <1>1, <1>4, <1>5, Zenon

\* dedupRecord keeps the order and the map of the window in step.
LEMMA dedupRecordOrder ==
    ASSUME StoreInv, DedupInv, NEW h \in Handlers, dedupRecord(h)
    PROVE  DedupInv'
<1> DEFINE D == DOMAIN dedupCRC
           s == seq(h)
           full == s \notin D /\ Len(dedupSeq) + 1 > dedupWindowCap
           oldest == Head(Append(dedupSeq, s))
           kept == (D \ (IF full THEN {oldest} ELSE {})) \cup {s}
<1>1. s \in Seqs /\ dedupSeq \in Seq(Seqs) /\ Len(dedupSeq) \in Nat
  <2>1. CallKnows(h) /\ At(h, "record") /\ dedupSeq \in Seq(Seqs)
    BY Zenon DEF StoreInv, CallsKnow, dedupRecord, TypeOK
  <2> QED
    BY <2>1 DEF CallKnows, At, DataPcs, Pcs, DataFrames, seq
<1>2. /\ dedupSeq' = CASE full   -> Tail(Append(dedupSeq, s))
                       [] s \in D -> dedupSeq
                       [] OTHER  -> Append(dedupSeq, s)
      /\ DOMAIN dedupCRC' = kept
  BY Zenon DEF dedupRecord
<1>3. Orders(dedupSeq, D) /\ Len(dedupSeq) <= dedupWindowCap /\ dedupWindowCap \in Nat \ {0}
  BY ReceiverAssumption, Zenon DEF DedupInv
<1>4. /\ Append(dedupSeq, s) \in Seq(Seqs) /\ Len(Append(dedupSeq, s)) = Len(dedupSeq) + 1
      /\ Append(dedupSeq, s) # <<>>
      /\ \A i \in 1..Len(dedupSeq) : Append(dedupSeq, s)[i] = dedupSeq[i]
  BY <1>1
<1> HIDE DEF D, s
<1>5. CASE s \in D
  <2>1. dedupSeq' = dedupSeq /\ DOMAIN dedupCRC' = D
    BY <1>2, <1>5, Zenon
  <2> QED
    BY <1>3, <2>1, Zenon DEF DedupInv
<1>6. CASE s \notin D /\ ~full
  <2>1. dedupSeq' = Append(dedupSeq, s) /\ DOMAIN dedupCRC' = D \cup {s}
    BY <1>2, <1>6, Zenon
  <2>2. Orders(Append(dedupSeq, s), D \cup {s})
    BY <1>1, <1>3, <1>6, OrdersAppend, Zenon
  <2>3. Len(Append(dedupSeq, s)) <= dedupWindowCap
    BY <1>1, <1>3, <1>4, <1>6
  <2> QED
    BY <2>1, <2>2, <2>3, Zenon DEF DedupInv
<1>7. CASE full
  <2>1. Len(dedupSeq) > 0 /\ 1 \in 1..Len(dedupSeq)
    BY <1>1, <1>3, <1>7
  <2>2. oldest = dedupSeq[1] /\ Append(dedupSeq, s)[1] = dedupSeq[1]
    BY <1>1, <1>4, <2>1
  <2>3. s # dedupSeq[1]
    BY <1>3, <1>7, <2>1 DEF Orders
  <2>4. /\ dedupSeq' = Tail(Append(dedupSeq, s))
        /\ DOMAIN dedupCRC' = (D \cup {s}) \ {dedupSeq[1]}
    BY <1>2, <1>7, <2>2, <2>3, Zenon
  <2>5. Orders(Append(dedupSeq, s), D \cup {s})
    BY <1>1, <1>3, <1>7, OrdersAppend, Zenon
  <2>6. Orders(Tail(Append(dedupSeq, s)), (D \cup {s}) \ {dedupSeq[1]})
    <3>1. Len(Append(dedupSeq, s)) > 0
      BY <1>1, <1>4
    <3> QED
      BY <1>4, <2>2, <2>5, <3>1, OrdersTail, Zenon
  <2>7. Len(Tail(Append(dedupSeq, s))) <= dedupWindowCap
    BY <1>1, <1>3, <1>4
  <2> QED
    BY <2>4, <2>6, <2>7, Zenon DEF DedupInv
<1> QED
  BY <1>5, <1>6, <1>7, Zenon

\* The window keeps its shape: dedupRecord pushes out the oldest entry of the
\* order and of the map together, and nothing else but a restart touches them.
THEOREM WindowSafety == Spec => []DedupWindowConsistent
<1>1. Init => DedupInv
  <2>1. ASSUME Init PROVE dedupSeq = <<>> /\ Len(dedupSeq) = 0 /\ DOMAIN dedupCRC = {}
    BY <2>1, Zenon DEF Init
  <2> QED
    BY <2>1, ReceiverAssumption DEF DedupInv, Orders
<1>2. StoreInv /\ DedupInv /\ [Next]_vars => DedupInv'
  <2> SUFFICES ASSUME StoreInv, DedupInv, [Next]_vars PROVE DedupInv'
    BY Zenon
  <2>1. ASSUME UNCHANGED dedup PROVE DedupInv'
    BY <2>1, Zenon DEF dedup, DedupInv
  <2>2. ASSUME NEW h \in Handlers, Step(h) PROVE DedupInv'
    BY <2>1, <2>2, dedupRecordOrder DEF Step, Dedup, addInflight, Gap, TryClose, CloseGap,
       ImportWrite, writeDLQJSON, Done, Load, advanceSeq, saveLastSeq, Return
  <2>3. CASE Restart
    <3>1. dedupSeq' = <<>> /\ Len(dedupSeq') = 0 /\ DOMAIN dedupCRC' = {}
      BY <2>3, Zenon DEF Restart
    <3> QED
      BY <3>1, ReceiverAssumption DEF DedupInv, Orders
  <2> QED
    BY <2>1, <2>2, <2>3, Zenon DEF Next, Call, Release, Wait, vars
<1>3. StoreInv /\ DedupInv => DedupWindowConsistent
  BY OrdersCount, Zenon DEF StoreInv, TypeOK, DedupInv, DedupWindowConsistent
<1> QED
  BY <1>1, <1>2, <1>3, StoreInvariant, PTL DEF Spec

-----------------------------------------------------------------------------
(***************************************************************************)
(* HandleFrame implements FrameHandler.  The record the contract has of a  *)
(* call is a function of the call alone, so a step of h changes one entry. *)
(***************************************************************************)
Abs(h) == [pc |-> CASE At(h, "idle") -> "idle" [] At(h, "replied") -> "replied" [] OTHER -> "busy",
           frame |-> handler[h].frame,
           ack |-> IF At(h, "replied") THEN handler[h].ack ELSE AckFail]

AbsCall == [h \in Handlers |-> Abs(h)]

\* The names of the frame module mean the same in the contract.
LEMMA SameFrames ==
    /\ FH!Heartbeat = Heartbeat /\ FH!DataFrames = DataFrames /\ FH!Frames = Frames
    /\ FH!AckSuccess = AckSuccess /\ FH!AckFail = AckFail
BY Zenon DEF FH!Heartbeat, Heartbeat, FH!DataFrames, DataFrames, FH!Frames, Frames, FH!Damaged, Damaged,
   FH!AckSuccess, AckSuccess, FH!AckFail, AckFail

\* A step of h changes only h's entry of the contract's calls.
LEMMA AbsStep ==
    ASSUME NEW h \in Handlers, \A g \in Handlers : g # h => handler'[g] = handler[g]
    PROVE  AbsCall' = [AbsCall EXCEPT ![h] = Abs(h)']
<1>1. \A g \in Handlers : g # h => Abs(g)' = Abs(g)
  BY Zenon DEF Abs, At
<1>2. \A g \in Handlers : AbsCall'[g] = [AbsCall EXCEPT ![h] = Abs(h)'][g]
  BY <1>1, Zenon DEF AbsCall
<1> QED
  BY <1>2, Zenon DEF AbsCall

\* A step that neither starts nor ends a call is a stutter, or the contract's
\* Store when it reached the target database or the DLQ.
LEMMA BusyStep ==
    ASSUME NEW h \in Handlers, handler \in [Handlers -> Local],
           handler[h].pc \notin {"idle", "replied"}, handler'[h].pc \notin {"idle", "replied"},
           handler'[h].frame = handler[h].frame, acked' = acked,
           \A g \in Handlers : g # h => handler'[g] = handler[g],
           \/ stored' = stored
           \/ handler[h].frame \in DataFrames /\ stored' = stored \cup {handler[h].frame}
    PROVE  [FH!Next]_(FH!handlerVars)
<1>1. Abs(h)' = Abs(h)
  BY Zenon DEF Abs, At
<1>2. AbsCall' = AbsCall
  BY <1>1, AbsStep, Zenon DEF AbsCall
<1>3. CASE stored' = stored
  BY <1>2, <1>3, Zenon DEF FH!handlerVars, AbsCall, Abs
<1>4. CASE handler[h].frame \in DataFrames /\ stored' = stored \cup {handler[h].frame}
  <2>1. AbsCall[h].pc = "busy" /\ AbsCall[h].frame = handler[h].frame
    BY Zenon DEF AbsCall, Abs, At
  <2>2. FH!Store(h)
    BY <1>2, <1>4, <2>1, SameFrames, Zenon DEF FH!Store, AbsCall, Abs
  <2> QED
    BY <2>2, Zenon DEF FH!Next
<1> QED
  BY <1>3, <1>4, Zenon

\* Every step of HandleFrame before its return keeps the contract.
LEMMA StepRefines ==
    ASSUME StoreInv, NEW h \in Handlers, Step(h), ~Return(h)
    PROVE  [FH!Next]_(FH!handlerVars)
<1>0. handler \in [Handlers -> Local] /\ CallKnows(h)
  BY Zenon DEF StoreInv, TypeOK, CallsKnow
<1>1. handler[h].pc \notin {"idle", "replied"} /\ acked' = acked
  BY Zenon DEF Step, Dedup, addInflight, Gap, TryClose, CloseGap, ImportWrite, writeDLQJSON, Done,
     Load, advanceSeq, saveLastSeq, dedupRecord, At
<1> DEFINE Stays == /\ \A g \in Handlers : g # h => handler'[g] = handler[g]
                    /\ handler'[h].frame = handler[h].frame
                    /\ handler'[h].pc \notin {"idle", "replied"}
<1>2. Stays
  <2>1. ASSUME NEW pc, Goto(h, pc) \/ (\E last : GotoWith(h, pc, last)),
               pc \notin {"idle", "replied"}
        PROVE  Stays
    BY <1>0, <2>1 DEF Goto, GotoWith, Local
  <2>2. ASSUME NEW ack, ReturnWith(h, ack) PROVE Stays
    BY <1>0, <2>2, Zenon DEF ReturnWith, Local
  <2>3. CASE addInflight(h)
    BY <1>0, <2>3, Zenon DEF addInflight, Local
  <2> HIDE DEF Stays
  <2>4. CASE Dedup(h) \/ ImportWrite(h) \/ writeDLQJSON(h) \/ dedupRecord(h)
    <3>1. \/ \E ack \in {AckSuccess, AckFail} : ReturnWith(h, ack)
          \/ \E pc \in {"register", "done", "dlq"} : Goto(h, pc)
      BY <2>4, Zenon DEF Dedup, ImportWrite, writeDLQJSON, dedupRecord
    <3> QED
      BY <2>1, <2>2, <3>1, Zenon
  <2>5. CASE Gap(h) \/ TryClose(h) \/ CloseGap(h)
    BY <2>1, <2>5, SMTT(60) DEF Gap, TryClose, CloseGap
  <2>6. CASE Done(h)
    <3>1. \E pc \in {"record", "load"} : Goto(h, pc)
      BY <2>6, Zenon DEF Done
    <3> QED
      BY <2>1, <3>1, Zenon
  <2>7. CASE Load(h) \/ advanceSeq(h) \/ saveLastSeq(h)
    BY <2>1, <2>7, SMTT(60) DEF Load, advanceSeq, saveLastSeq
  <2> QED
    BY <2>3, <2>4, <2>5, <2>6, <2>7, Zenon DEF Step
<1>3. \/ stored' = stored
      \/ handler[h].frame \in DataFrames /\ stored' = stored \cup {handler[h].frame}
  <2>1. CASE ImportWrite(h) \/ writeDLQJSON(h)
    <3>1. handler[h].frame \in DataFrames
      BY <1>0, <2>1, Zenon DEF ImportWrite, writeDLQJSON, At, CallKnows, DataPcs, Pcs
    <3> QED
      BY <2>1, <3>1, Zenon DEF ImportWrite, writeDLQJSON, stored
  <2>2. CASE UNCHANGED stores
    BY <2>2, Zenon DEF stores, stored
  <2> QED
    BY <2>1, <2>2, Zenon DEF Step, Dedup, addInflight, Gap, TryClose, CloseGap, Done, Load,
       advanceSeq, saveLastSeq, dedupRecord
<1> QED
  BY <1>0, <1>1, <1>2, <1>3, BusyStep, Zenon DEF Stays

\* The return of a call is the contract's Reply: AckSuccess only for a frame
\* that is stored, or for a heartbeat.
LEMMA ReturnRefines ==
    ASSUME StoreInv, NEW h \in Handlers, Return(h)
    PROVE  FH!Reply(h)
<1>0. handler \in [Handlers -> Local] /\ CallKnows(h)
  BY Zenon DEF StoreInv, TypeOK, CallsKnow
<1> DEFINE f == handler[h].frame
           ack == handler[h].ack
<1>1. /\ At(h, "return") /\ stored' = stored
      /\ acked' = IF ack = AckSuccess /\ f \in DataFrames THEN acked \cup {f} ELSE acked
  BY Zenon DEF Return, stores, stored
<1>2. /\ \A g \in Handlers : g # h => handler'[g] = handler[g]
      /\ handler'[h].pc = "replied" /\ handler'[h].frame = f /\ handler'[h].ack = ack
  BY <1>0 DEF Return, Local
<1>3. ack \in {AckSuccess, AckFail} /\ (ack = AckSuccess => f \in stored \cup {Heartbeat})
  BY <1>0, <1>1, Zenon DEF CallKnows, At, Local
<1>4. AbsCall[h] = [pc |-> "busy", frame |-> f, ack |-> AckFail]
  BY <1>1, Zenon DEF AbsCall, Abs, At
<1>5. Abs(h)' = [pc |-> "replied", frame |-> f, ack |-> ack]
  BY <1>2, Zenon DEF Abs, At
<1> HIDE DEF f, ack
<1>6. AbsCall' = [AbsCall EXCEPT ![h].pc = "replied", ![h].ack = ack]
  <2> DEFINE R == [pc : {"busy", "replied"}, frame : {f}, ack : {AckFail, ack}]
             r == AbsCall[h]
             e == [r EXCEPT !.pc = "replied", !.ack = ack]
             new == Abs(h)'
  <2>1. e = new
    <3>1. r \in R /\ r.frame = f /\ new \in R /\ new.pc = "replied" /\ new.frame = f /\ new.ack = ack
      BY <1>4, <1>5
    <3> HIDE DEF r, new
    <3>2. e \in R /\ e.pc = "replied" /\ e.frame = f /\ e.ack = ack
      BY <3>1, Zenon
    <3> HIDE DEF e
    <3> QED
      BY <3>1, <3>2
  <2>2. AbsCall' = [AbsCall EXCEPT ![h] = Abs(h)']
    BY <1>2, AbsStep, Zenon
  <2> QED
    BY <2>1, <2>2, Zenon
<1> QED
  BY <1>1, <1>3, <1>4, <1>6, SameFrames, Zenon DEF FH!Reply, AbsCall, Abs

\* The detailed handler implements the contract the TCP server relies on.
THEOREM HandlerRefines == Spec => ImplementsFrameHandler
<1>1. Init => FH!Init
  BY SameFrames DEF Init, FH!Init, FH!Ready, Ready, At, stored
<1>2. StoreInv /\ [Next]_vars => [FH!Next]_(FH!handlerVars)
  <2> SUFFICES ASSUME StoreInv, [Next]_vars PROVE [FH!Next]_(FH!handlerVars)
    BY Zenon
  <2>0. handler \in [Handlers -> Local]
    BY Zenon DEF StoreInv, TypeOK
  <2>1. ASSUME NEW h \in Handlers, Step(h) PROVE [FH!Next]_(FH!handlerVars)
    BY <2>1, StepRefines, ReturnRefines, Zenon DEF FH!Next
  <2>2. ASSUME NEW h \in Handlers, NEW f \in Frames, NEW first \in BOOLEAN, Call(h, f, first)
        PROVE  FH!Next
    <3>1. /\ At(h, "idle") /\ acked' = acked /\ stored' = stored
          /\ \A g \in Handlers : g # h => handler'[g] = handler[g]
      BY <2>0, <2>2, Zenon DEF Call, stores, stored
    <3>2. handler'[h].frame = f /\ handler'[h].pc \notin {"idle", "replied"}
      BY <2>0, <2>2, Zenon DEF Call, Ready
    <3>3. Abs(h)' = [pc |-> "busy", frame |-> f, ack |-> AckFail] /\ AbsCall[h].pc = "idle"
      BY <3>1, <3>2, Zenon DEF Abs, At, AbsCall
    <3>4. FH!Invoke(h, f)
      BY <3>1, <3>3, AbsStep, SameFrames DEF FH!Invoke, AbsCall, Abs
    <3> QED
      BY <3>4, SameFrames, Zenon DEF FH!Next
  <2>3. ASSUME NEW h \in Handlers, Release(h) PROVE FH!Next
    <3>1. /\ At(h, "replied") /\ acked' = acked /\ stored' = stored
          /\ handler'[h] = Ready /\ \A g \in Handlers : g # h => handler'[g] = handler[g]
      BY <2>0, <2>3, Zenon DEF Release, stores, stored
    <3>2. Abs(h)' = FH!Ready /\ AbsCall[h].pc = "replied"
      BY <3>1, SameFrames DEF Abs, At, AbsCall, Ready, FH!Ready
    <3>3. FH!Release(h)
      BY <3>1, <3>2, AbsStep, SMTT(60) DEF FH!Release, AbsCall, Abs
    <3> QED
      BY <3>3, Zenon DEF FH!Next
  <2>4. CASE Restart
    <3>1. acked' = acked /\ stored' = stored /\ \A h \in Handlers : handler'[h] = Ready
      BY <2>4, Zenon DEF Restart, stores, stored
    <3>2. \A h \in Handlers : Abs(h)' = FH!Ready
      BY <3>1, SameFrames DEF Abs, At, Ready, FH!Ready
    <3>3. FH!Restart
      BY <3>1, <3>2 DEF FH!Restart, Abs
    <3> QED
      BY <3>3, Zenon DEF FH!Next
  <2>5. CASE UNCHANGED vars
    BY <2>5, Zenon DEF vars, stores, stored, FH!handlerVars, At
  <2> QED
    BY <2>1, <2>2, <2>3, <2>4, <2>5, Zenon DEF Next, Wait
<1> QED
  BY <1>1, <1>2, StoreInvariant, PTL DEF Spec, FH!Spec, ImplementsFrameHandler
=============================================================================
