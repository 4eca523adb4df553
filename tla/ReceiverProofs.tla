--------------------------- MODULE ReceiverProofs ---------------------------
(***************************************************************************)
(* Proofs about Receiver, for any finite number of concurrent calls, any   *)
(* frames and any limits.                                                  *)
(***************************************************************************)
EXTENDS Receiver, FiniteSetTheorems, TLAPS

-----------------------------------------------------------------------------
(***************************************************************************)
(* "AckSuccess means stored" is not inductive: it needs what a call knows  *)
(* at each point of HandleFrame, and what an entry of the deduplication    *)
(* window stands for.  The types need the reference counts.                *)
(***************************************************************************)

\* From here on a call has decoded a data frame.
DataPcs == Pcs \ {"idle", "return", "replied"}

\* From here on the frame of the call is stored.
StoredPcs == {"done", "load", "advance", "persist", "record"}

CallKnows(h) ==
    /\ handler[h].pc \in DataPcs => handler[h].frame \in DataFrames
    /\ handler[h].pc \in StoredPcs => handler[h].frame \in stored
    /\ handler[h].pc \in {"return", "replied"} /\ handler[h].ack = AckSuccess
          => handler[h].frame \in stored \cup {Heartbeat}
    /\ handler[h].reg => handler[h].frame \in DataFrames
    /\ handler[h].pc \in {"idle", "dedup", "register", "replied"} => ~handler[h].reg

CallsKnow == \A h \in Handlers : CallKnows(h)

StoreInv == TypeOK /\ AckMeansStored /\ DedupMeansStored /\ InflightCounts /\ CallsKnow

-----------------------------------------------------------------------------
(***************************************************************************)
(* What a step does to the local state of the calls.                       *)
(***************************************************************************)

\* Call h moves to pc with the given values; its frame and the other calls stay.
Moves(h, pc, last, reg, ack) ==
    /\ handler' \in [Handlers -> Local]
    /\ handler'[h].pc = pc
    /\ handler'[h].frame = handler[h].frame
    /\ handler'[h].last = last
    /\ handler'[h].reg = reg
    /\ handler'[h].ack = ack
    /\ \A g \in Handlers : g # h => handler'[g] = handler[g]

\* Goto changes nothing but the program counter.
LEMMA GotoMoves ==
    ASSUME handler \in [Handlers -> Local], NEW h \in Handlers, NEW pc \in Pcs, Goto(h, pc)
    PROVE  Moves(h, pc, handler[h].last, handler[h].reg, handler[h].ack)
BY Zenon DEF Goto, Moves, Local

\* GotoWith also sets the value of last_seq in hand.
LEMMA GotoWithMoves ==
    ASSUME handler \in [Handlers -> Local], NEW h \in Handlers, NEW pc \in Pcs, NEW last \in Nat,
           GotoWith(h, pc, last)
    PROVE  Moves(h, pc, last, handler[h].reg, handler[h].ack)
BY Zenon DEF GotoWith, Moves, Local

\* ReturnWith sets the byte to return.
LEMMA ReturnWithMoves ==
    ASSUME handler \in [Handlers -> Local], NEW h \in Handlers,
           NEW ack \in {AckSuccess, AckFail}, ReturnWith(h, ack)
    PROVE  Moves(h, "return", handler[h].last, handler[h].reg, ack)
<1> DEFINE r == [handler[h] EXCEPT !.pc = "return", !.ack = ack]
<1>1. /\ handler' = [handler EXCEPT ![h] = r]
      /\ handler[h] \in Local
  BY Zenon DEF ReturnWith
<1>2. r \in Local /\ r.pc = "return" /\ r.ack = ack /\ r.frame = handler[h].frame
      /\ r.last = handler[h].last /\ r.reg = handler[h].reg
  BY <1>1, Zenon DEF Local, Pcs
<1> HIDE DEF r
<1> QED
  BY <1>1, <1>2, Zenon DEF Moves

\* Registering and returning set the flag that the frame is in flight.
LEMMA RegMoves ==
    ASSUME handler \in [Handlers -> Local], NEW h \in Handlers, NEW pc \in Pcs, NEW reg \in BOOLEAN,
           handler' = [handler EXCEPT ![h].pc = pc, ![h].reg = reg]
    PROVE  Moves(h, pc, handler[h].last, reg, handler[h].ack)
<1> DEFINE r == [handler[h] EXCEPT !.pc = pc, !.reg = reg]
<1>1. /\ handler' = [handler EXCEPT ![h] = r]
      /\ handler[h] \in Local
  BY Zenon
<1>2. r \in Local /\ r.pc = pc /\ r.ack = handler[h].ack /\ r.frame = handler[h].frame
      /\ r.last = handler[h].last /\ r.reg = reg
  BY <1>1, Zenon DEF Local
<1> HIDE DEF r
<1> QED
  BY <1>1, <1>2, ZenonT(60) DEF Moves

\* The initial local state is well formed.
LEMMA ReadyLocal == Ready \in Local
BY Zenon DEF Ready, Local, Pcs, Frames, Heartbeat

\* The invariant holds when the receiver is first started.
LEMMA InitStore == Init => StoreInv
<1> SUFFICES ASSUME Init PROVE StoreInv
  BY Zenon
<1>1. TypeOK
  BY ReadyLocal, ReceiverAssumption DEF Init, TypeOK
<1>2. AckMeansStored /\ DedupMeansStored
  BY Zenon DEF Init, AckMeansStored, DedupMeansStored
<1>3. CallsKnow
  BY Zenon DEF Init, CallsKnow, CallKnows, Ready, DataPcs, StoredPcs, Pcs
<1>4. InflightCounts
  <2>1. \A s \in Seqs : Registered(s) = {}
    BY Zenon DEF Init, Registered, Ready
  <2> QED
    BY <2>1, FS_EmptySet, Zenon DEF Init, InflightCounts
<1> QED
  BY <1>1, <1>2, <1>3, <1>4, Zenon DEF StoreInv
\* A move of one call keeps what the other calls know, as nothing stored is lost.
LEMMA KnowStep ==
    ASSUME CallsKnow, NEW h \in Handlers, stored \subseteq stored', CallKnows(h)',
           \A g \in Handlers : g # h => handler'[g] = handler[g]
    PROVE  CallsKnow'
BY Zenon DEF CallsKnow, CallKnows

\* A move that neither registers nor unregisters keeps the reference counts.
LEMMA CountsKept ==
    ASSUME InflightCounts, NEW h \in Handlers, inflightSeq' = inflightSeq,
           \/ handler'[h].frame = handler[h].frame /\ handler'[h].reg = handler[h].reg
           \/ ~handler[h].reg /\ ~handler'[h].reg,
           handler[h].reg \in BOOLEAN, handler'[h].reg \in BOOLEAN,
           \A g \in Handlers : g # h => handler'[g] = handler[g]
    PROVE  InflightCounts'
<1>1. \A s : Registered(s)' = Registered(s)
  BY Zenon DEF Registered, seq
<1> QED
  BY <1>1, Zenon DEF InflightCounts

\* A step that touches neither the stores, the window, the counts nor the history
\* keeps the invariant if the call knows at its new place what it has to know.
LEMMA QuietStep ==
    ASSUME StoreInv, TypeOK', NEW h \in Handlers, NEW pc, NEW last, NEW ack,
           Moves(h, pc, last, handler[h].reg, ack), CallKnows(h)',
           UNCHANGED <<inflightSeq, dedup, stores, acked>>
    PROVE  StoreInv'
<1>1. stored' = stored
  BY Zenon DEF stored, stores
<1>2. CallsKnow'
  BY <1>1, KnowStep, Zenon DEF StoreInv, Moves
<1>3. InflightCounts'
  BY CountsKept, SMTT(60) DEF StoreInv, Moves, TypeOK, Local
<1>4. AckMeansStored' /\ DedupMeansStored'
  BY <1>1, Zenon DEF StoreInv, AckMeansStored, DedupMeansStored, dedup
<1> QED
  BY <1>2, <1>3, <1>4, Zenon DEF StoreInv

-----------------------------------------------------------------------------
(***************************************************************************)
(* One lemma for each action.                                              *)
(***************************************************************************)

\* Two data frames that agree on seq and checksum are one frame.
LEMMA SameFrame ==
    ASSUME NEW f \in DataFrames, NEW g \in DataFrames, f.seq = g.seq, CRC[f.data] = CRC[g.data]
    PROVE  f = g
<1>1. /\ f = [typ |-> "data", seq |-> f.seq, data |-> f.data]
      /\ g = [typ |-> "data", seq |-> g.seq, data |-> g.data]
  BY Zenon DEF DataFrames
<1>2. f.data = g.data
  BY FrameAssumption, Zenon DEF DataFrames
<1> QED
  BY <1>1, <1>2, Zenon

\* A hit in the window is a stored frame, so AckSuccess is right.
LEMMA DedupStep == ASSUME StoreInv, NEW h \in Handlers, Dedup(h) PROVE StoreInv'
<1> USE DEF StoreInv
<1>0. handler \in [Handlers -> Local] /\ handler[h].pc = "dedup" /\ CallKnows(h)
  BY Zenon DEF Dedup, At, TypeOK, CallsKnow
<1>1. CASE dedupHit(handler[h].frame)
  <2>1. Moves(h, "return", handler[h].last, handler[h].reg, AckSuccess)
    BY <1>0, <1>1, ReturnWithMoves, Zenon DEF Dedup
  <2>2. TypeOK'
    BY <2>1, Zenon DEF Dedup, Moves, TypeOK, tracker, dedup, stores
  <2>3. handler[h].frame \in stored
    <3>1. handler[h].frame \in DataFrames
      BY <1>0, Zenon DEF CallKnows, DataPcs, Pcs
    <3>2. PICK f \in stored : /\ f.seq = handler[h].frame.seq
                              /\ CRC[f.data] = CRC[handler[h].frame.data]
      BY <1>1 DEF dedupHit, DedupMeansStored
    <3>3. f \in DataFrames
      BY <3>2, Zenon DEF TypeOK, stored
    <3> QED
      BY <3>1, <3>2, <3>3, SameFrame, Zenon
  <2>4. CallKnows(h)'
    BY <1>0, <2>1, <2>3, Zenon DEF Moves, CallKnows, Dedup, stored, stores, DataPcs, StoredPcs, Pcs
  <2> QED
    BY <2>1, <2>2, <2>4, QuietStep, Zenon DEF Dedup
<1>2. CASE ~dedupHit(handler[h].frame)
  <2>1. Moves(h, "register", handler[h].last, handler[h].reg, handler[h].ack)
    BY <1>0, <1>2, GotoMoves, Zenon DEF Dedup, Pcs
  <2>2. TypeOK'
    BY <2>1, Zenon DEF Dedup, Moves, TypeOK, tracker, dedup, stores
  <2>3. CallKnows(h)'
    BY <1>0, <2>1, Zenon DEF Moves, CallKnows, DataPcs, StoredPcs, Pcs
  <2> QED
    BY <2>1, <2>2, <2>3, QuietStep, Zenon DEF Dedup
<1> QED
  BY <1>1, <1>2, Zenon
\* Gap and TryClose choose the way of the call; they change nothing else.
LEMMA GapStep == ASSUME StoreInv, NEW h \in Handlers, Gap(h) \/ TryClose(h) PROVE StoreInv'
<1> USE DEF StoreInv
<1>0. /\ handler \in [Handlers -> Local]
      /\ handler[h].pc \in {"gap", "tryClose"}
      /\ CallKnows(h)
  BY Zenon DEF Gap, TryClose, At, TypeOK, CallsKnow
<1>1. PICK pc \in {"tryClose", "import", "closeGap"}, last \in Nat :
         Moves(h, pc, last, handler[h].reg, handler[h].ack)
  <2>1. handler[h].last \in Nat /\ lastSeq \in Nat
    BY <1>0, Zenon DEF Local, TypeOK
  <2> QED
    BY <1>0, <2>1, GotoMoves, GotoWithMoves, Zenon DEF Gap, TryClose, Pcs
<1>2. UNCHANGED <<lastSeq, tracker, inflightSeq, dedup, fileSeq, stores, acked, calls, restarts>>
  BY Zenon DEF Gap, TryClose
<1>3. TypeOK'
  BY <1>1, <1>2, Zenon DEF Moves, TypeOK, tracker, dedup, stores
<1>4. CallKnows(h)'
  BY <1>0, <1>1, Zenon DEF Moves, CallKnows, DataPcs, StoredPcs, Pcs
<1> QED
  BY <1>1, <1>2, <1>3, <1>4, QuietStep, Zenon

\* Closing a gap moves the tracker, not the stores.
LEMMA CloseGapStep == ASSUME StoreInv, NEW h \in Handlers, CloseGap(h) PROVE StoreInv'
<1> USE DEF StoreInv
<1>0. handler \in [Handlers -> Local] /\ handler[h].pc = "closeGap" /\ CallKnows(h)
  BY Zenon DEF CloseGap, At, TypeOK, CallsKnow
<1>1. seq(h) \in Nat
  BY <1>0, FrameAssumption, Zenon DEF CallKnows, DataPcs, Pcs, DataFrames, seq
<1>2. PICK pc \in {"import", "closeLoad"} :
         Moves(h, pc, handler[h].last, handler[h].reg, handler[h].ack)
  BY <1>0, GotoMoves, Zenon DEF CloseGap, Pcs
<1>3. trkLast' \in Nat /\ trkPending' \subseteq Seqs
  BY <1>1 DEF CloseGap, TypeOK, tracker
<1>4. UNCHANGED <<lastSeq, inflightSeq, dedup, fileSeq, stores, acked, calls, restarts>>
  BY Zenon DEF CloseGap
<1>5. TypeOK'
  BY <1>2, <1>3, <1>4, Zenon DEF Moves, TypeOK, dedup, stores
<1>6. CallKnows(h)'
  BY <1>0, <1>2, Zenon DEF Moves, CallKnows, DataPcs, StoredPcs, Pcs
<1> QED
  BY <1>2, <1>4, <1>5, <1>6, QuietStep, Zenon

\* The tracker records a stored frame.
LEMMA DoneStep == ASSUME StoreInv, NEW h \in Handlers, Done(h) PROVE StoreInv'
<1> USE DEF StoreInv
<1>0. handler \in [Handlers -> Local] /\ handler[h].pc = "done" /\ CallKnows(h)
  BY Zenon DEF Done, At, TypeOK, CallsKnow
<1>1. seq(h) \in Seqs /\ Seqs \subseteq Nat
  BY <1>0, FrameAssumption, Zenon DEF CallKnows, DataPcs, Pcs, DataFrames, seq
<1>2. UNCHANGED <<lastSeq, inflightSeq, dedup, fileSeq, stores, acked, calls, restarts>>
  BY Zenon DEF Done
<1>3. /\ trkLast' \in Nat
      /\ trkPending' \subseteq Seqs
      /\ \E pc \in {"record", "load"} : Goto(h, pc)
  BY <1>1, Zenon DEF Done, TypeOK, tracker
<1>4. PICK pc \in {"record", "load"} :
         Moves(h, pc, handler[h].last, handler[h].reg, handler[h].ack)
  BY <1>0, <1>3, GotoMoves, Zenon DEF Pcs
<1>5. TypeOK'
  BY <1>2, <1>3, <1>4, Zenon DEF Moves, TypeOK, dedup, stores
<1>6. CallKnows(h)'
  BY <1>0, <1>2, <1>4, Zenon DEF Moves, CallKnows, DataPcs, StoredPcs, Pcs, stored, stores
<1> QED
  BY <1>2, <1>4, <1>5, <1>6, QuietStep, Zenon

\* Raising last_seq and writing its file concern no frame.
LEMMA AdvanceStep ==
    ASSUME StoreInv, NEW h \in Handlers, Load(h) \/ advanceSeq(h) \/ saveLastSeq(h)
    PROVE  StoreInv'
<1> USE DEF StoreInv
<1>0. handler \in [Handlers -> Local] /\ CallKnows(h) /\ handler[h].last \in Nat
  BY Zenon DEF TypeOK, CallsKnow, Local
<1>1. UNCHANGED <<tracker, inflightSeq, dedup, stores, acked, calls, restarts>>
  BY Zenon DEF Load, advanceSeq, saveLastSeq
<1>2. lastSeq' \in Nat /\ fileSeq' \in Nat
  BY <1>0, Zenon DEF Load, advanceSeq, saveLastSeq, TypeOK
<1>3. PICK pc \in DataPcs, last \in Nat :
         /\ Moves(h, pc, last, handler[h].reg, handler[h].ack)
         /\ pc \notin {"dedup", "register"}
         /\ handler[h].pc \in DataPcs
         /\ pc \in StoredPcs => handler[h].pc \in StoredPcs
  <2>0. trkLast \in Nat
    BY Zenon DEF TypeOK
  <2>1. CASE Load(h) /\ At(h, "load")
    <3>1. Moves(h, "advance", trkLast, handler[h].reg, handler[h].ack)
      BY <1>0, <2>0, <2>1, GotoWithMoves, Zenon DEF Load, Pcs
    <3> QED
      BY <2>0, <2>1, <3>1 DEF At, DataPcs, StoredPcs, Pcs
  <2>6. CASE Load(h) /\ ~At(h, "load")
    <3>1. Moves(h, "closeAdvance", trkLast, handler[h].reg, handler[h].ack)
      BY <1>0, <2>0, <2>6, GotoWithMoves, Zenon DEF Load, Pcs
    <3> QED
      BY <2>0, <2>6, <3>1 DEF Load, At, DataPcs, StoredPcs, Pcs
  <2>2. CASE advanceSeq(h) /\ At(h, "advance")
    <3>1. Moves(h, "persist", handler[h].last, handler[h].reg, handler[h].ack)
      BY <1>0, <2>2, GotoMoves, Zenon DEF advanceSeq, Pcs
    <3> QED
      BY <1>0, <2>2, <3>1 DEF At, DataPcs, StoredPcs, Pcs
  <2>3. CASE advanceSeq(h) /\ ~At(h, "advance")
    <3>1. Moves(h, "closePersist", handler[h].last, handler[h].reg, handler[h].ack)
      BY <1>0, <2>3, GotoMoves, Zenon DEF advanceSeq, Pcs
    <3> QED
      BY <1>0, <2>3, <3>1 DEF advanceSeq, At, DataPcs, StoredPcs, Pcs
  <2>4. CASE saveLastSeq(h) /\ At(h, "persist")
    <3>1. Moves(h, "record", handler[h].last, handler[h].reg, handler[h].ack)
      BY <1>0, <2>4, GotoMoves, Zenon DEF saveLastSeq, Pcs
    <3> QED
      BY <1>0, <2>4, <3>1 DEF At, DataPcs, StoredPcs, Pcs
  <2>5. CASE saveLastSeq(h) /\ ~At(h, "persist")
    <3>1. Moves(h, "import", handler[h].last, handler[h].reg, handler[h].ack)
      BY <1>0, <2>5, GotoMoves, Zenon DEF saveLastSeq, Pcs
    <3> QED
      BY <1>0, <2>5, <3>1 DEF saveLastSeq, At, DataPcs, StoredPcs, Pcs
  <2> QED
    BY <2>1, <2>2, <2>3, <2>4, <2>5, <2>6, Zenon
<1>4. TypeOK'
  BY <1>1, <1>2, <1>3, Zenon DEF Moves, TypeOK, tracker, dedup, stores
<1>5. CallKnows(h)'
  BY <1>0, <1>1, <1>3, Zenon DEF Moves, CallKnows, DataPcs, stored, stores
<1> QED
  BY <1>1, <1>3, <1>4, <1>5, QuietStep, Zenon
\* A new call: a damaged frame or a heartbeat is answered at once.
LEMMA CallStep ==
    ASSUME StoreInv, NEW h \in Handlers, NEW f \in Frames, NEW first \in BOOLEAN, Call(h, f, first)
    PROVE  StoreInv'
<1> USE DEF StoreInv
<1>0. handler \in [Handlers -> Local] /\ handler[h].pc = "idle" /\ ~handler[h].reg
  BY Zenon DEF Call, At, TypeOK, CallsKnow, CallKnows
<1>1. PICK l \in Local : /\ handler' = [handler EXCEPT ![h] = l]
                         /\ l.frame = f /\ ~l.reg
                         /\ \/ f = Damaged /\ l.pc = "return" /\ l.ack = AckFail
                            \/ f = Heartbeat /\ l.pc = "return" /\ l.ack = AckSuccess
                            \/ f \in DataFrames /\ l.pc \in {"dedup", "register"}
  <2> DEFINE local == [Ready EXCEPT !.frame = f, !.first = first]
  <2>1. local \in Local /\ local.frame = f /\ ~local.reg
    BY ReadyLocal, Zenon DEF Ready, Local
  <2>2. CASE f = Damaged
    <3> DEFINE l == [local EXCEPT !.pc = "return", !.ack = AckFail]
    <3>1. l \in Local /\ l.frame = f /\ ~l.reg /\ l.pc = "return" /\ l.ack = AckFail
      BY <2>1, Zenon DEF Ready, Local, Pcs
    <3>2. f # Heartbeat
      BY <2>2, Zenon DEF Heartbeat, Damaged
    <3>3. handler' = [handler EXCEPT ![h] = l]
      BY <2>2, <3>2, Zenon DEF Call
    <3> QED
      BY <2>2, <3>1, <3>3, Zenon
  <2>3. CASE f = Heartbeat
    <3> DEFINE l == [local EXCEPT !.pc = "return", !.ack = AckSuccess]
    <3>1. l \in Local /\ l.frame = f /\ ~l.reg /\ l.pc = "return" /\ l.ack = AckSuccess
      BY <2>1, Zenon DEF Ready, Local, Pcs
    <3>2. f # Damaged
      BY <2>3, Zenon DEF Heartbeat, Damaged
    <3>3. handler' = [handler EXCEPT ![h] = l]
      BY <2>3, <3>2, Zenon DEF Call
    <3> QED
      BY <2>3, <3>1, <3>3, Zenon
  <2>4. CASE f # Damaged /\ f # Heartbeat
    <3> DEFINE l == [local EXCEPT !.pc = IF f.seq <= lastSeq THEN "dedup" ELSE "register"]
    <3>1. l \in Local /\ l.frame = f /\ ~l.reg /\ l.pc \in {"dedup", "register"}
      BY <2>1, Zenon DEF Ready, Local, Pcs
    <3>2. handler' = [handler EXCEPT ![h] = l]
      BY <2>4, Zenon DEF Call
    <3>3. f \in DataFrames
      BY <2>4, Zenon DEF Frames
    <3> QED
      BY <3>1, <3>2, <3>3, Zenon
  <2> QED
    BY <2>2, <2>3, <2>4, Zenon
<1>2. /\ handler' \in [Handlers -> Local]
      /\ handler'[h] = l
      /\ \A g \in Handlers : g # h => handler'[g] = handler[g]
  BY <1>0, <1>1, Zenon
<1>3. /\ UNCHANGED <<lastSeq, tracker, inflightSeq, dedup, fileSeq, stores, acked, restarts>>
      /\ calls' \in 0..MaxCalls
  BY ReceiverAssumption, SMTT(60) DEF Call, TypeOK
<1>4. TypeOK'
  BY <1>2, <1>3, Zenon DEF TypeOK, tracker, dedup, stores
<1>5. stored' = stored
  BY <1>3, Zenon DEF stored, stores
<1>6. CallKnows(h)'
  BY <1>1, <1>2 DEF CallKnows, DataPcs, StoredPcs, Pcs, AckSuccess, AckFail
<1>7. CallsKnow'
  BY <1>2, <1>5, <1>6, KnowStep, Zenon
<1>8. InflightCounts'
  <2>1. handler[h].reg \in BOOLEAN /\ handler'[h].reg \in BOOLEAN /\ ~handler'[h].reg
    BY <1>0, <1>1, <1>2, Zenon DEF Local
  <2> QED
    BY <1>0, <1>2, <1>3, <2>1, CountsKept, Zenon
<1>9. AckMeansStored' /\ DedupMeansStored'
  BY <1>3, <1>5, Zenon DEF AckMeansStored, DedupMeansStored, dedup
<1> QED
  BY <1>4, <1>7, <1>8, <1>9, Zenon

\* The call enters the set of registered calls of its seq, and the count grows with it.
LEMMA addInflightStep == ASSUME StoreInv, NEW h \in Handlers, addInflight(h) PROVE StoreInv'
<1> USE DEF StoreInv
<1>0. /\ handler \in [Handlers -> Local] /\ handler[h].pc = "register"
      /\ CallKnows(h) /\ ~handler[h].reg
  BY Zenon DEF addInflight, At, TypeOK, CallsKnow, CallKnows
<1>1. handler[h].frame \in DataFrames /\ seq(h) \in Seqs
  BY <1>0, Zenon DEF CallKnows, DataPcs, Pcs, DataFrames, seq
<1>2. Moves(h, "gap", handler[h].last, TRUE, handler[h].ack)
  BY <1>0 DEF addInflight, Moves, Local, Pcs
<1>3. UNCHANGED <<lastSeq, tracker, dedup, fileSeq, stores, acked, calls, restarts>>
  BY Zenon DEF addInflight
<1>4. TypeOK'
  BY <1>1, <1>2, <1>3, SMTT(60) DEF addInflight, Moves, TypeOK, tracker, dedup, stores
<1>5. stored' = stored
  BY <1>3, Zenon DEF stored, stores
<1>6. CallKnows(h)'
  BY <1>1, <1>2, Zenon DEF Moves, CallKnows, DataPcs, StoredPcs, Pcs
<1>7. CallsKnow'
  BY <1>2, <1>5, <1>6, KnowStep, Zenon DEF Moves
<1>8. InflightCounts'
  <2> SUFFICES ASSUME NEW s \in Seqs PROVE inflightSeq'[s] = Cardinality(Registered(s)')
    BY Zenon DEF InflightCounts
  <2>1. IsFiniteSet(Registered(s))
    BY ReceiverAssumption, FS_Subset, Zenon DEF Registered
  <2>2. CASE s = seq(h)
    <3>1. Registered(s)' = Registered(s) \cup {h} /\ h \notin Registered(s)
      BY <1>0, <1>2, <2>2, Zenon DEF Registered, Moves, seq
    <3>2. inflightSeq'[s] = inflightSeq[s] + 1
      BY <1>1, <2>2, Zenon DEF addInflight, TypeOK
    <3> QED
      BY <2>1, <3>1, <3>2, FS_AddElement, ZenonT(60) DEF InflightCounts
  <2>3. CASE s # seq(h)
    <3>1. Registered(s)' = Registered(s)
      BY <1>0, <1>2, <2>3, Zenon DEF Registered, Moves, seq
    <3> QED
      BY <2>3, <3>1, Zenon DEF InflightCounts, addInflight, TypeOK
  <2> QED
    BY <2>2, <2>3, Zenon
<1>9. AckMeansStored' /\ DedupMeansStored'
  BY <1>3, <1>5, Zenon DEF AckMeansStored, DedupMeansStored, dedup
<1> QED
  BY <1>4, <1>7, <1>8, <1>9, Zenon
\* The import: the call goes on only when its frame is in the database.
LEMMA ImportWriteStep ==
    ASSUME StoreInv, NEW h \in Handlers, ImportWrite(h) \/ writeDLQJSON(h)
    PROVE  StoreInv'
<1> USE DEF StoreInv
<1>0. /\ handler \in [Handlers -> Local] /\ CallKnows(h)
      /\ handler[h].pc \in {"import", "dlq"} /\ handler[h].frame \in DataFrames
  BY Zenon DEF ImportWrite, writeDLQJSON, At, TypeOK, CallsKnow, CallKnows, DataPcs, Pcs
<1>1. UNCHANGED <<lastSeq, tracker, inflightSeq, dedup, fileSeq, acked, calls, restarts>>
  BY Zenon DEF ImportWrite, writeDLQJSON
<1>2. /\ written' \subseteq DataFrames /\ dlq' \subseteq DataFrames
      /\ stored \subseteq stored'
  BY <1>0, Zenon DEF ImportWrite, writeDLQJSON, stored, TypeOK
<1>3. PICK pc \in {"done", "dlq", "return"}, ack \in {AckSuccess, AckFail} :
         /\ Moves(h, pc, handler[h].last, handler[h].reg, ack)
         /\ pc = "done" => handler[h].frame \in stored'
         /\ pc = "return" => ack = AckFail
  <2>0. handler[h].ack \in {AckSuccess, AckFail} /\ {"done", "dlq"} \subseteq Pcs
    BY <1>0, Zenon DEF Local, Pcs
  <2>1. CASE Goto(h, "done") /\ handler[h].frame \in stored'
    BY <1>0, <2>0, <2>1, GotoMoves, Zenon
  <2>2. CASE Goto(h, "dlq")
    BY <1>0, <2>0, <2>2, GotoMoves, Zenon
  <2>3. CASE ReturnWith(h, AckFail)
    BY <1>0, <2>3, ReturnWithMoves, Zenon
  <2> QED
    BY <2>1, <2>2, <2>3, Zenon DEF ImportWrite, writeDLQJSON, stored
<1>4. TypeOK'
  BY <1>1, <1>2, <1>3, Zenon DEF Moves, TypeOK, tracker, dedup
<1>5. CallKnows(h)'
  BY <1>0, <1>3 DEF Moves, CallKnows, DataPcs, StoredPcs, Pcs, AckSuccess, AckFail
<1>6. CallsKnow'
  BY <1>2, <1>3, <1>5, KnowStep, Zenon DEF Moves
<1>7. InflightCounts'
  BY <1>0, <1>1, <1>3, CountsKept, Zenon DEF Moves, Local
<1>8. AckMeansStored' /\ DedupMeansStored'
  BY <1>1, <1>2, Zenon DEF AckMeansStored, DedupMeansStored, dedup
<1> QED
  BY <1>4, <1>6, <1>7, <1>8, Zenon

\* Only a stored frame enters the window.
LEMMA dedupRecordStep == ASSUME StoreInv, NEW h \in Handlers, dedupRecord(h) PROVE StoreInv'
<1> USE DEF StoreInv
<1>0. /\ handler \in [Handlers -> Local] /\ CallKnows(h) /\ handler[h].pc = "record"
      /\ handler[h].frame \in DataFrames /\ handler[h].frame \in stored
  BY Zenon DEF dedupRecord, At, TypeOK, CallsKnow, CallKnows, DataPcs, StoredPcs, Pcs
<1>1. UNCHANGED <<lastSeq, tracker, inflightSeq, fileSeq, stores, acked, calls, restarts>>
  BY Zenon DEF dedupRecord
<1>2. Moves(h, "return", handler[h].last, handler[h].reg, AckSuccess)
  BY <1>0, ReturnWithMoves, Zenon DEF dedupRecord
<1>3. stored' = stored
  BY <1>1, Zenon DEF stored, stores
<1>4. seq(h) \in Seqs /\ CRC[handler[h].frame.data] \in Nat
  BY <1>0, FrameAssumption, Zenon DEF DataFrames, seq
<1>5. PICK kept \in SUBSET (DOMAIN dedupCRC \cup {seq(h)}) :
         dedupCRC' = [x \in kept |-> IF x = seq(h) THEN CRC[handler[h].frame.data] ELSE dedupCRC[x]]
  BY Zenon DEF dedupRecord
<1>6. dedupSeq' \in Seq(Seqs)
  <2>1. Append(dedupSeq, seq(h)) \in Seq(Seqs) /\ Append(dedupSeq, seq(h)) # <<>>
    BY <1>4, SMTT(60) DEF TypeOK
  <2>2. Tail(Append(dedupSeq, seq(h))) \in Seq(Seqs)
    BY <2>1
  <2>3. dedupSeq' \in {dedupSeq, Append(dedupSeq, seq(h)), Tail(Append(dedupSeq, seq(h)))}
    BY Zenon DEF dedupRecord
  <2> QED
    BY <2>1, <2>2, <2>3, Zenon DEF TypeOK
<1>7. TypeOK'
  BY <1>1, <1>2, <1>4, <1>5, <1>6, Zenon DEF Moves, TypeOK, tracker, stores
<1>8. CallKnows(h)'
  BY <1>0, <1>2, <1>3, Zenon DEF Moves, CallKnows, DataPcs, StoredPcs, Pcs
<1>9. CallsKnow'
  BY <1>2, <1>3, <1>8, KnowStep, Zenon DEF Moves
<1>10. InflightCounts'
  BY <1>0, <1>1, <1>2, CountsKept, Zenon DEF Moves, Local
<1>11. DedupMeansStored'
  BY <1>0, <1>3, <1>5 DEF DedupMeansStored, seq
<1>12. AckMeansStored'
  BY <1>1, <1>3, Zenon DEF AckMeansStored
<1> QED
  BY <1>7, <1>9, <1>10, <1>11, <1>12, Zenon

\* The answer enters the history, and a registered call leaves the counts.
LEMMA ReturnStep == ASSUME StoreInv, NEW h \in Handlers, Return(h) PROVE StoreInv'
<1> USE DEF StoreInv
<1>0. /\ handler \in [Handlers -> Local] /\ CallKnows(h) /\ handler[h].pc = "return"
      /\ handler[h].reg \in BOOLEAN
  BY Zenon DEF Return, At, TypeOK, CallsKnow, Local
<1>1. UNCHANGED <<lastSeq, tracker, dedup, fileSeq, stores, calls, restarts>>
  BY Zenon DEF Return
<1>2. Moves(h, "replied", handler[h].last, FALSE, handler[h].ack)
  BY <1>0, RegMoves, Zenon DEF Return, Pcs
<1>3. stored' = stored
  BY <1>1, Zenon DEF stored, stores
<1>4. AckMeansStored' /\ acked' \subseteq DataFrames
  <2>1. handler[h].ack = AckSuccess /\ handler[h].frame \in DataFrames
        => handler[h].frame \in stored
    BY <1>0 DEF CallKnows, DataFrames, Heartbeat
  <2> QED
    BY <1>3, <2>1, Zenon DEF Return, AckMeansStored, TypeOK
<1>5. InflightCounts' /\ inflightSeq' \in [Seqs -> Nat]
  <2>1. CASE ~handler[h].reg
    <3>1. inflightSeq' = inflightSeq
      BY <2>1, Zenon DEF Return
    <3> QED
      BY <1>0, <1>2, <2>1, <3>1, CountsKept, Zenon DEF Moves, TypeOK
  <2>2. CASE handler[h].reg
    <3>1. /\ seq(h) \in Seqs
          /\ inflightSeq' = [inflightSeq EXCEPT ![seq(h)] = IF @ <= 1 THEN 0 ELSE @ - 1]
      BY <1>0, <2>2, Zenon DEF Return, CallKnows, DataFrames, seq
    <3>2. ASSUME NEW s \in Seqs
          PROVE  inflightSeq'[s] = Cardinality(Registered(s)') /\ inflightSeq'[s] \in Nat
      <4>1. IsFiniteSet(Registered(s))
        BY ReceiverAssumption, FS_Subset, Zenon DEF Registered
      <4>2. CASE s = seq(h)
        <5>1. Registered(s)' = Registered(s) \ {h} /\ h \in Registered(s)
          BY <1>0, <1>2, <2>2, <4>2, Zenon DEF Registered, Moves, seq
        <5>2. inflightSeq'[s] = IF inflightSeq[s] <= 1 THEN 0 ELSE inflightSeq[s] - 1
          BY <3>1, <4>2, Zenon DEF TypeOK
        <5>3. /\ Cardinality(Registered(s) \ {h}) = Cardinality(Registered(s)) - 1
              /\ IsFiniteSet(Registered(s) \ {h})
          BY <4>1, <5>1, FS_RemoveElement, Zenon
        <5>4. Cardinality(Registered(s) \ {h}) \in Nat
          BY <5>3, FS_CardinalityType, Zenon
        <5>5. inflightSeq[s] = Cardinality(Registered(s)) /\ inflightSeq[s] \in Nat
          BY Zenon DEF InflightCounts, TypeOK
        <5>6. inflightSeq'[s] = inflightSeq[s] - 1
          BY <5>2, <5>3, <5>4, <5>5
        <5> QED
          BY <5>1, <5>3, <5>4, <5>5, <5>6, Zenon
      <4>3. CASE s # seq(h)
        <5>1. Registered(s)' = Registered(s)
          BY <1>0, <1>2, <4>3, Zenon DEF Registered, Moves, seq
        <5> QED
          BY <3>1, <4>3, <5>1, Zenon DEF InflightCounts, TypeOK
      <4> QED
        BY <4>2, <4>3, Zenon
    <3> QED
      BY <3>1, <3>2, Zenon DEF InflightCounts, TypeOK
  <2> QED
    BY <1>0, <2>1, <2>2, Zenon
<1>6. TypeOK'
  BY <1>1, <1>2, <1>4, <1>5, Zenon DEF Moves, TypeOK, tracker, dedup, stores
<1>7. CallKnows(h)'
  BY <1>0, <1>2, <1>3, Zenon DEF Moves, CallKnows, DataPcs, StoredPcs, Pcs
<1>8. CallsKnow'
  BY <1>2, <1>3, <1>7, KnowStep, Zenon DEF Moves
<1>9. DedupMeansStored'
  BY <1>1, <1>3 DEF DedupMeansStored, dedup
<1> QED
  BY <1>4, <1>5, <1>6, <1>8, <1>9, Zenon
\* The server takes the result.
LEMMA ReleaseStep == ASSUME StoreInv, NEW h \in Handlers, Release(h) PROVE StoreInv'
<1> USE DEF StoreInv
<1>0. handler \in [Handlers -> Local] /\ ~handler[h].reg
  BY Zenon DEF Release, At, TypeOK, CallsKnow, CallKnows
<1>1. UNCHANGED <<lastSeq, tracker, inflightSeq, dedup, fileSeq, stores, acked, calls, restarts>>
  BY Zenon DEF Release
<1>2. /\ handler' \in [Handlers -> Local]
      /\ handler'[h] = Ready
      /\ \A g \in Handlers : g # h => handler'[g] = handler[g]
  BY <1>0, ReadyLocal, Zenon DEF Release
<1>3. TypeOK'
  BY <1>1, <1>2, Zenon DEF TypeOK, tracker, dedup, stores
<1>4. stored' = stored
  BY <1>1, Zenon DEF stored, stores
<1>5. CallKnows(h)'
  BY <1>2 DEF CallKnows, Ready, DataPcs, StoredPcs, Pcs
<1>6. CallsKnow'
  BY <1>2, <1>4, <1>5, KnowStep, Zenon
<1>7. InflightCounts'
  <2>1. handler[h].reg \in BOOLEAN /\ handler'[h].reg \in BOOLEAN /\ ~handler'[h].reg
    BY <1>0, <1>2 DEF Local, Ready
  <2> QED
    BY <1>0, <1>1, <1>2, <2>1, CountsKept, Zenon
<1>8. AckMeansStored' /\ DedupMeansStored'
  BY <1>1, <1>4, Zenon DEF AckMeansStored, DedupMeansStored, dedup
<1> QED
  BY <1>3, <1>6, <1>7, <1>8, Zenon

\* A restart forgets the calls, the window and the counts, and keeps the stores.
LEMMA RestartStep == ASSUME StoreInv, Restart PROVE StoreInv'
<1> USE DEF StoreInv
<1>1. TypeOK'
  BY ReadyLocal, ReceiverAssumption DEF Restart, TypeOK, stores
<1>2. AckMeansStored' /\ DedupMeansStored'
  BY Zenon DEF Restart, AckMeansStored, DedupMeansStored, stored, stores
<1>3. CallsKnow'
  BY Zenon DEF Restart, CallsKnow, CallKnows, Ready, DataPcs, StoredPcs, Pcs
<1>4. InflightCounts'
  <2>1. \A s \in Seqs : Registered(s)' = {}
    BY Zenon DEF Restart, Registered, Ready
  <2> QED
    BY <2>1, FS_EmptySet, Zenon DEF Restart, InflightCounts
<1> QED
  BY <1>1, <1>2, <1>3, <1>4, Zenon

\* Every step keeps the invariant.
LEMMA NextStore == StoreInv /\ [Next]_vars => StoreInv'
<1> SUFFICES ASSUME StoreInv, [Next]_vars PROVE StoreInv'
  BY Zenon
<1>1. ASSUME NEW h \in Handlers, NEW f \in Frames, NEW first \in BOOLEAN, Call(h, f, first)
      PROVE  StoreInv'
  BY <1>1, CallStep, Zenon
<1>2. ASSUME NEW h \in Handlers, Step(h) PROVE StoreInv'
  BY <1>2, DedupStep, addInflightStep, GapStep, CloseGapStep, ImportWriteStep, DoneStep,
     AdvanceStep, dedupRecordStep, ReturnStep DEF Step
<1>3. ASSUME NEW h \in Handlers, Release(h) PROVE StoreInv'
  BY <1>3, ReleaseStep, Zenon
<1>4. CASE Restart
  BY <1>4, RestartStep, Zenon
<1>5. CASE UNCHANGED vars
  <2>1. stored' = stored /\ \A s : Registered(s)' = Registered(s)
    BY <1>5, Zenon DEF vars, stores, stored, Registered, seq
  <2> QED
    BY <1>5, <2>1, Zenon DEF vars, tracker, dedup, stores, StoreInv, TypeOK, AckMeansStored,
       DedupMeansStored, InflightCounts, CallsKnow, CallKnows
<1> QED
  BY <1>1, <1>2, <1>3, <1>4, <1>5, Zenon DEF Next, Wait

\* The invariant holds in every reachable state.
THEOREM StoreInvariant == Spec => []StoreInv
<1>1. Init => StoreInv
  BY InitStore, Zenon
<1>2. StoreInv /\ [Next]_vars => StoreInv'
  BY NextStore, Zenon
<1> QED
  BY <1>1, <1>2, PTL DEF Spec

\* Every variable of the receiver keeps its type; the reference counts of
\* inflightSeq never fall below zero.
THEOREM TypeCorrect == Spec => []TypeOK
<1>1. StoreInv => TypeOK
  BY Zenon DEF StoreInv
<1> QED
  BY <1>1, StoreInvariant, PTL

\* HandleFrame answers 0xff only for what is in the target database or in the
\* DLQ, for every number of concurrent calls and through every restart.
THEOREM AckSafety == Spec => []AckMeansStored
<1>1. StoreInv => AckMeansStored
  BY Zenon DEF StoreInv
<1> QED
  BY <1>1, StoreInvariant, PTL

\* The window dedupHit consults holds only stored frames.
THEOREM DedupSafety == Spec => []DedupMeansStored
<1>1. StoreInv => DedupMeansStored
  BY Zenon DEF StoreInv
<1> QED
  BY <1>1, StoreInvariant, PTL

\* addInflight and removeInflight keep the count of a seq equal to the number
\* of calls that work on it.
THEOREM CountSafety == Spec => []InflightCounts
<1>1. StoreInv => InflightCounts
  BY Zenon DEF StoreInv
<1> QED
  BY <1>1, StoreInvariant, PTL
=============================================================================
