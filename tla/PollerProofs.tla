---------------------------- MODULE PollerProofs ----------------------------
(***************************************************************************)
(* Proofs about Poller, for any points, windows, lags, limits and any      *)
(* number of failures: no point is skipped, a prefetched window fits the   *)
(* cursor, and the poller implements Capture.                              *)
(***************************************************************************)
EXTENDS Poller, TLAPS

-----------------------------------------------------------------------------
(***************************************************************************)
(* "No point is skipped" is not inductive.  It needs that a window is      *)
(* complete when it is exported: everything in it is visible, because the  *)
(* window ends ExportLag before now, or because a flush came after the     *)
(* last point of it was due; and that a window exported ahead is the one   *)
(* that starts at the cursor of the round that uses it.                    *)
(***************************************************************************)

RoundType == [pc : {"idle", "begin", "flush", "export", "process", "append", "cursor"},
              now : Nat, end : Int, raw : SUBSET Points]

SlotType == [state : {"none", "running", "done", "failed"},
             cursor : Nat, end : Int, raw : SUBSET Points]

\* The types, without the number of frames, and the order of the cursors.
Types ==
    /\ now \in StartTime..MaxTime /\ faults \in 0..MaxFaults
    /\ wal \subseteq visible /\ visible \subseteq written /\ written \subseteq Points
    /\ cursor \in Nat /\ saved \in Nat /\ saved <= cursor /\ cursor <= now - Watermark
    /\ round \in RoundType /\ prefetch \in SlotType
    /\ underfillStreak \in 0..MaxStreak /\ oversizeStreak \in 0..MaxStreak
    /\ streakAllEmpty \in BOOLEAN
    /\ bp \in {"normal", "degraded", "paused"}

\* The source keeps its deadlines.
SourceInv == Overdue(Watermark, now) \subseteq written /\ Overdue(VisibilityLag, now) \subseteq visible

\* The window [start, end) is not empty, has passed the watermark, and every
\* point it will ever have can be exported.
Complete(start, end) ==
    /\ start < end /\ end <= now - Watermark
    /\ C!InWindow(start, end) \subseteq visible

\* The round: its window is complete from the export on, its answer is all of
\* the window, and the answer is in the WAL before the cursor moves.
RoundInv ==
    /\ round.pc = "flush" => round.now <= now
    /\ round.pc \in {"export", "process", "append", "cursor"} => Complete(cursor, round.end)
    /\ round.pc \in {"process", "append", "cursor"} => round.raw = C!InWindow(cursor, round.end)
    /\ round.pc = "cursor" => round.raw \subseteq wal

\* The prefetch slot: its window is complete, and it starts where the cursor
\* is, or where the round that is under way will move it.
SlotInv ==
    /\ prefetch.state = "none" => prefetch = NoPrefetch
    /\ prefetch.state # "none" => Complete(prefetch.cursor, prefetch.end)
    /\ prefetch.state = "done" => prefetch.raw = C!InWindow(prefetch.cursor, prefetch.end)
    /\ prefetch.state # "none" /\ round.pc \in {"idle", "begin", "flush", "export"}
          => prefetch.cursor = cursor
    /\ prefetch.state # "none" /\ round.pc \in {"append", "cursor"} => prefetch.cursor = round.end
    /\ round.pc = "process" => prefetch.state = "none"

Behind(t) == {p \in Points : C!Ts(p) < t}

PollInv == Types /\ SourceInv /\ RoundInv /\ SlotInv /\ Behind(cursor) \subseteq wal

-----------------------------------------------------------------------------
(***************************************************************************)
(* The arithmetic of the windows.                                          *)
(***************************************************************************)
\* The margin of NewPoller is not below the watermark nor the visibility lag.
LEMMA Lags ==
    /\ Watermark \in Nat /\ VisibilityLag \in Nat /\ ExportLag \in Nat
    /\ Watermark <= VisibilityLag /\ VisibilityLag <= ExportLag /\ Watermark <= ExportLag
<1>1. {Watermark, cfgExportLag, DefaultExportVisibilityLag, VisibilityLag} \subseteq Nat
  BY PollerAssumption, Zenon
<1> DEFINE S == {cfgExportLag, DefaultExportVisibilityLag, Watermark}
<1>2. \E x \in S : \A y \in S : x >= y
  BY <1>1
<1>3. ExportLag \in S /\ \A y \in S : ExportLag >= y
  BY <1>2, Zenon DEF ExportLag, Max
<1>4. Watermark <= VisibilityLag /\ VisibilityLag <= ExportLag
  BY PollerAssumption, Zenon
<1> QED
  BY <1>1, <1>3, <1>4, Zenon

\* The larger of two numbers.
LEMMA MaxOfTwo ==
    ASSUME NEW a \in Int, NEW b \in Int
    PROVE  Max({a, b}) = IF a >= b THEN a ELSE b
<1>1. \E x \in {a, b} : \A y \in {a, b} : x >= y
  OBVIOUS
<1>2. Max({a, b}) \in {a, b} /\ \A y \in {a, b} : Max({a, b}) >= y
  BY <1>1, Zenon DEF Max
<1> QED
  BY <1>2

\* windowSize is a number of milliseconds.
LEMMA SizeInt ==
    ASSUME NEW u \in 0..MaxStreak, NEW o \in 0..MaxStreak, NEW e \in BOOLEAN
    PROVE  windowSize(u, e, o) \in Int
<1>1. /\ Window \in Nat /\ MaxWindow \in Nat /\ oversizeMinWindow \in Nat /\ emptySkipMaxWindow \in Nat
      /\ MaxStreak \in Nat
  BY PollerAssumption, Zenon
<1>2. 2^u \in Int /\ 2^o \in Int /\ 2^o > 0
  <2>1. u \in Nat /\ o \in Nat
    BY <1>1
  <2> QED
    BY <2>1, PowerAssumption
<1>3. Window \div 2^o \in Int
  BY <1>1, <1>2
<1>4. Max({Window \div 2^o, oversizeMinWindow}) \in Int
  BY <1>1, <1>3, MaxOfTwo
<1>5. Window * 2^u \in Int
  BY <1>1, <1>2
<1> DEFINE w == Window * 2^u
           m == Max({Window \div 2^o, oversizeMinWindow})
<1>6. windowSize(u, e, o) = IF o > 0 THEN m
                            ELSE Least(w, IF e THEN emptySkipMaxWindow ELSE MaxWindow)
  BY Zenon DEF windowSize
<1>7. w \in Int /\ m \in Int
  BY <1>4, <1>5, Zenon
<1> HIDE DEF w, m
<1> QED
  BY <1>1, <1>6, <1>7 DEF Least

\* Times of points are natural numbers.
LEMMA PointTimes == \A p \in Points : C!Ts(p) \in Nat
BY PollerAssumption, Zenon DEF C!Ts

\* A window that ends ExportLag before a time that has come is complete: the
\* source has made all of it visible by then.
LEMMA SettledWindow ==
    ASSUME SourceInv, NEW start \in Int, NEW end \in Int, NEW t \in Int, now \in Int,
           t <= now, start < end, end <= t - ExportLag
    PROVE  Complete(start, end)
<1>1. end <= now - Watermark
  BY Lags
<1>2. ASSUME NEW p \in C!InWindow(start, end) PROVE p \in visible
  <2>1. p \in Points /\ C!Ts(p) \in Nat /\ C!Ts(p) < end
    BY <1>2, PointTimes, Zenon DEF C!InWindow
  <2>2. C!Ts(p) + VisibilityLag < now
    BY <2>1, Lags
  <2> QED
    BY <2>1, <2>2, Zenon DEF SourceInv, Overdue
<1> QED
  BY <1>1, <1>2, Zenon DEF Complete

\* A window that had passed the watermark when the source was flushed is
\* complete: all of it had arrived, and the flush made it visible.
LEMMA FlushedWindow ==
    ASSUME SourceInv, NEW start \in Int, NEW end \in Int, NEW t \in Int, now \in Int,
           t <= now, start < end, end <= t - Watermark
    PROVE  end <= now - Watermark /\ C!InWindow(start, end) \subseteq written
<1>1. end <= now - Watermark
  BY Lags
<1>2. ASSUME NEW p \in C!InWindow(start, end) PROVE p \in written
  <2>1. p \in Points /\ C!Ts(p) \in Nat /\ C!Ts(p) < end
    BY <1>2, PointTimes, Zenon DEF C!InWindow
  <2>2. C!Ts(p) + Watermark < now
    BY <2>1, Lags
  <2> QED
    BY <2>1, <2>2, Zenon DEF SourceInv, Overdue
<1> QED
  BY <1>1, <1>2, Zenon

\* What windowEnd and the check after it give: no window yet, or one that ends
\* within its size and before the margin.
LEMMA RoundWindow ==
    ASSUME Types, NEW t \in Nat, NEW flushOK \in BOOLEAN
    PROVE  \/ WindowRound(t, flushOK) = Idle
           \/ \E end \in Int :
                /\ WindowRound(t, flushOK) = [pc |-> "export", now |-> t, end |-> end, raw |-> {}]
                /\ cursor < end
                /\ end <= t - (IF flushOK THEN Watermark ELSE ExportLag)
                /\ end <= cursor + windowSize(underfillStreak, streakAllEmpty, oversizeStreak)
<1> DEFINE size == windowSize(underfillStreak, streakAllEmpty, oversizeStreak)
           margin == IF flushOK THEN Watermark ELSE ExportLag
           end == windowEnd(t, flushOK)
<1>1. size \in Int /\ cursor \in Nat /\ margin \in Nat /\ MaxWindow \in Nat
  BY SizeInt, Lags, PollerAssumption, Zenon DEF Types
<1>2. end = IF underfillStreak = 0 THEN Least(Least(cursor + size, t - margin), cursor + MaxWindow)
            ELSE Least(cursor + size, t - margin)
  BY Zenon DEF windowEnd
<1> HIDE DEF size, margin
<1>3. end \in Int /\ end <= t - margin /\ end <= cursor + size
  BY <1>1, <1>2 DEF Least
<1> HIDE DEF end
<1>4. WindowRound(t, flushOK) = IF end <= cursor THEN Idle
                                ELSE [pc |-> "export", now |-> t, end |-> end, raw |-> {}]
  BY Zenon DEF WindowRound, end
<1>5. CASE end <= cursor
  BY <1>4, <1>5, Zenon
<1>6. CASE ~(end <= cursor)
  <2>1. cursor < end
    BY <1>1, <1>3, <1>6
  <2> QED
    BY <1>3, <1>4, <1>6, <2>1, Zenon DEF margin, size
<1> QED
  BY <1>5, <1>6, Zenon

-----------------------------------------------------------------------------
(***************************************************************************)
(* What a step keeps.                                                      *)
(***************************************************************************)
\* The idle round and the empty slot.
LEMMA Rests ==
    /\ Idle \in RoundType /\ Idle.pc = "idle"
    /\ NoPrefetch \in SlotType /\ NoPrefetch.state = "none"
    /\ \A pc \in {"begin", "flush"}, t \in Nat :
          LET r == [Idle EXCEPT !.pc = pc, !.now = t]
          IN  r \in RoundType /\ r.pc = pc /\ r.now = t
    /\ [Idle EXCEPT !.pc = "begin"] \in RoundType /\ [Idle EXCEPT !.pc = "begin"].pc = "begin"
<1>1. Idle \in RoundType /\ Idle.pc = "idle" /\ NoPrefetch \in SlotType /\ NoPrefetch.state = "none"
  BY DEF Idle, NoPrefetch, RoundType, SlotType
<1> QED
  BY <1>1, Zenon DEF RoundType

\* A complete window stays complete.
LEMMA CompleteKept ==
    ASSUME NEW start \in Int, NEW end \in Int, Complete(start, end), now \in Int, now' \in Int,
           visible \subseteq visible', now <= now'
    PROVE  Complete(start, end)'
<1>1. start < end /\ end <= now - Watermark /\ C!InWindow(start, end) \subseteq visible
  BY Zenon DEF Complete
<1>2. end <= now' - Watermark
  <2>1. end <= now - Watermark /\ Watermark \in Int
    BY <1>1, Lags
  <2>2. \A a, b, c, d \in Int : a <= b - d /\ b <= c => a <= c - d
    OBVIOUS
  <2> QED
    BY <2>1, <2>2, Zenon
<1>3. C!InWindow(start, end) \subseteq visible'
  BY <1>1, Zenon
<1> QED
  BY <1>1, <1>2, <1>3, Zenon DEF Complete, C!InWindow, C!Ts

\* The deadlines of the source are kept while the clock stands.
LEMMA SourceKept ==
    ASSUME SourceInv, now' = now, written \subseteq written', visible \subseteq visible'
    PROVE  SourceInv'
BY Zenon DEF SourceInv, Overdue, C!Ts

\* A step of the source: the poller is left alone, nothing disappears.
LEMMA SourceMoves ==
    ASSUME PollInv, now' \in Int, now <= now', visible \subseteq visible',
           UNCHANGED <<walVars, round, prefetch>>
    PROVE  RoundInv' /\ SlotInv' /\ Behind(cursor)' \subseteq wal'
<1>1. /\ now \in Int /\ cursor \in Int /\ round.end \in Int
      /\ prefetch.cursor \in Int /\ prefetch.end \in Int
  BY PollerAssumption DEF PollInv, Types, RoundType, SlotType
<1>2. UNCHANGED <<wal, cursor, round, prefetch>>
  BY Zenon DEF walVars
<1>3. Complete(cursor, round.end) => Complete(cursor, round.end)'
  BY <1>1, <1>2, CompleteKept, Zenon
<1>4. Complete(prefetch.cursor, prefetch.end) => Complete(prefetch.cursor, prefetch.end)'
  BY <1>1, <1>2, CompleteKept, Zenon
<1>5. RoundInv'
  <2>1. round.now <= now => round.now <= now'
    BY <1>1 DEF PollInv, Types, RoundType
  <2> QED
    BY <1>2, <1>3, <2>1, Zenon DEF PollInv, RoundInv, C!InWindow, C!Ts
<1>6. SlotInv'
  BY <1>2, <1>4, Zenon DEF PollInv, SlotInv, NoPrefetch, C!InWindow, C!Ts
<1> QED
  BY <1>2, <1>5, <1>6, Zenon DEF PollInv, Behind, C!Ts

\* A round that ends, or has not got as far as a window, rests on nothing; the
\* slot is empty, or keeps a window that starts at the cursor.
LEMMA RoundRests ==
    ASSUME PollInv, round'.pc \in {"idle", "begin"}, now' = now, visible \subseteq visible',
           UNCHANGED <<wal, cursor>>,
           \/ prefetch' = NoPrefetch
           \/ prefetch' = prefetch /\ round.pc \in {"idle", "begin", "flush"}
    PROVE  RoundInv' /\ SlotInv' /\ Behind(cursor)' \subseteq wal'
<1>1. now \in Int /\ prefetch.cursor \in Int /\ prefetch.end \in Int
  BY PollerAssumption DEF PollInv, Types, SlotType
<1>2. RoundInv'
  BY Zenon DEF RoundInv
<1>3. SlotInv'
  <2>1. CASE prefetch' = NoPrefetch
    BY <2>1, Rests, Zenon DEF SlotInv, NoPrefetch
  <2>2. CASE prefetch' = prefetch /\ round.pc \in {"idle", "begin", "flush"}
    <3>1. Complete(prefetch.cursor, prefetch.end) => Complete(prefetch.cursor, prefetch.end)'
      BY <1>1, <2>2, CompleteKept
    <3> QED
      BY <2>2, <3>1, Zenon DEF PollInv, SlotInv, NoPrefetch, C!InWindow, C!Ts
  <2> QED
    BY <2>1, <2>2, Zenon
<1> QED
  BY <1>2, <1>3, Zenon DEF PollInv, Behind, C!Ts

-----------------------------------------------------------------------------
(***************************************************************************)
(* The steps of the poller.                                                *)
(***************************************************************************)
\* One tick of Run starts a round or skips it.
LEMMA WakeStep == ASSUME PollInv, Wake PROVE PollInv'
<1>1. /\ UNCHANGED <<source, walVars, streaks, prefetch, faults>> /\ round.pc = "idle"
      /\ round' \in {Idle, [Idle EXCEPT !.pc = "begin"]}
  BY Zenon DEF Wake
<1>2. bp' \in {"normal", "degraded", "paused"}
  BY Zenon DEF Wake, PollInv, Types
<1>3. round' \in RoundType /\ round'.pc \in {"idle", "begin"}
  BY <1>1, Rests, Zenon
<1>4. Types'
  BY <1>1, <1>2, <1>3, Zenon DEF PollInv, Types, source, walVars, streaks
<1>5. SourceInv'
  BY <1>1, SourceKept, Zenon DEF PollInv, source
<1>6. RoundInv' /\ SlotInv' /\ Behind(cursor)' \subseteq wal'
  BY <1>1, <1>3, RoundRests, Zenon DEF source, walVars
<1> QED
  BY <1>4, <1>5, <1>6, Zenon DEF PollInv

\* A round that has its window: it is complete, and the slot keeps its place.
LEMMA RoundStarts ==
    ASSUME PollInv, NEW t \in Nat, NEW end \in Int, now' = now, visible \subseteq visible',
           round' = [pc |-> "export", now |-> t, end |-> end, raw |-> {}],
           Complete(cursor, end)', UNCHANGED <<wal, cursor, prefetch>>,
           round.pc \in {"idle", "begin", "flush"}
    PROVE  round' \in RoundType /\ RoundInv' /\ SlotInv' /\ Behind(cursor)' \subseteq wal'
<1>1. now \in Int /\ prefetch.cursor \in Int /\ prefetch.end \in Int
  BY PollerAssumption DEF PollInv, Types, SlotType
<1>2. round' \in RoundType /\ round'.pc = "export" /\ round'.end = end
  BY Zenon DEF RoundType
<1>3. RoundInv'
  BY <1>2, Zenon DEF RoundInv
<1>4. Complete(prefetch.cursor, prefetch.end) => Complete(prefetch.cursor, prefetch.end)'
  BY <1>1, CompleteKept
<1>5. SlotInv'
  BY <1>2, <1>4, Zenon DEF PollInv, SlotInv, NoPrefetch, C!InWindow, C!Ts
<1> QED
  BY <1>2, <1>3, <1>5, Zenon DEF PollInv, Behind, C!Ts

\* pollOnce reads the clock: the window it takes without a flush is settled.
LEMMA BeginStep == ASSUME PollInv, Begin PROVE PollInv'
<1> DEFINE size == windowSize(underfillStreak, streakAllEmpty, oversizeStreak)
<1>1. /\ UNCHANGED <<source, walVars, streaks, prefetch, bp, faults>> /\ round.pc = "begin"
      /\ round' = IF cursor + size > now - ExportLag THEN [Idle EXCEPT !.pc = "flush", !.now = now]
                  ELSE WindowRound(now, TRUE)
  BY Zenon DEF Begin
<1>2. Types /\ now \in Nat /\ cursor \in Nat /\ size \in Int /\ ExportLag \in Nat /\ visible' = visible
  BY <1>1, SizeInt, Lags, PollerAssumption DEF PollInv, Types, source
<1> HIDE DEF size
<1>3. SourceInv'
  BY <1>1, SourceKept, Zenon DEF PollInv, source
<1>4. ASSUME round' \in RoundType PROVE Types'
  BY <1>1, <1>2, <1>4, Zenon DEF Types, source, walVars, streaks
<1>5. CASE cursor + size > now - ExportLag
  <2>1. round' \in RoundType /\ round'.pc = "flush" /\ round'.now = now
    BY <1>1, <1>2, <1>5, Rests, Zenon
  <2>2. RoundInv'
    <3>1. now' = now /\ now <= now
      BY <1>1, <1>2 DEF source
    <3> QED
      BY <2>1, <3>1, Zenon DEF RoundInv
  <2>3. SlotInv'
    <3>1. now \in Int /\ prefetch.cursor \in Int /\ prefetch.end \in Int
      BY <1>2 DEF PollInv, Types, SlotType
    <3>2. Complete(prefetch.cursor, prefetch.end) => Complete(prefetch.cursor, prefetch.end)'
      BY <1>1, <1>2, <3>1, CompleteKept DEF source
    <3> QED
      BY <1>1, <2>1, <3>2, Zenon DEF PollInv, SlotInv, NoPrefetch, C!InWindow, C!Ts, walVars
  <2> QED
    BY <1>1, <1>3, <1>4, <2>1, <2>2, <2>3, Zenon DEF PollInv, Behind, C!Ts, walVars
<1>6. CASE ~(cursor + size > now - ExportLag) /\ WindowRound(now, TRUE) = Idle
  BY <1>1, <1>2, <1>3, <1>4, <1>6, Rests, RoundRests, Zenon DEF PollInv, source, walVars
<1>7. CASE ~(cursor + size > now - ExportLag) /\ WindowRound(now, TRUE) # Idle
  <2>1. PICK end \in Int :
           /\ WindowRound(now, TRUE) = [pc |-> "export", now |-> now, end |-> end, raw |-> {}]
           /\ cursor < end /\ end <= cursor + size
    BY <1>2, <1>7, RoundWindow, Zenon DEF size
  <2>2. end <= now - ExportLag
    BY <1>2, <1>7, <2>1
  <2>3. Complete(cursor, end)
    BY <1>2, <2>1, <2>2, SettledWindow DEF PollInv
  <2>4. Complete(cursor, end)'
    BY <1>1, <1>2, <2>3, CompleteKept DEF source, walVars
  <2>5. round' \in RoundType /\ RoundInv' /\ SlotInv' /\ Behind(cursor)' \subseteq wal'
    BY <1>1, <1>2, <1>7, <2>1, <2>4, RoundStarts, Zenon DEF source, walVars
  <2> QED
    BY <1>3, <1>4, <2>5, Zenon DEF PollInv
<1> QED
  BY <1>5, <1>6, <1>7, Zenon

\* ForceFlush: the window taken after it is complete, whether it succeeded
\* (the window had passed the watermark) or failed (it ends ExportLag ago).
LEMMA FlushSourceStep == ASSUME PollInv, FlushSource PROVE PollInv'
<1>1. PICK flushOK \in BOOLEAN :
         round' = WindowRound(round.now, flushOK) /\ visible' = IF flushOK THEN written ELSE visible
  BY Zenon DEF FlushSource, ForceFlush
<1>2. /\ UNCHANGED <<now, written, walVars, streaks, prefetch, bp, faults>> /\ round.pc = "flush"
      /\ round.now \in Nat /\ round.now <= now
  BY Zenon DEF FlushSource, PollInv, RoundInv, Types, RoundType
<1>3. /\ Types /\ SourceInv /\ now \in Nat /\ cursor \in Nat
      /\ visible \subseteq visible' /\ visible' \subseteq written' /\ wal \subseteq visible'
  BY <1>1, <1>2, PollerAssumption DEF PollInv, Types
<1>4. SourceInv'
  BY <1>2, <1>3, SourceKept, Zenon
<1>5. ASSUME round' \in RoundType PROVE Types'
  BY <1>2, <1>3, <1>5, Zenon DEF Types, walVars, streaks
<1>6. CASE WindowRound(round.now, flushOK) = Idle
  <2>1. RoundInv' /\ SlotInv' /\ Behind(cursor)' \subseteq wal'
    BY <1>1, <1>2, <1>3, <1>6, Rests, RoundRests, Zenon DEF walVars
  <2> QED
    BY <1>1, <1>4, <1>5, <1>6, <2>1, Rests, Zenon DEF PollInv
<1>7. CASE WindowRound(round.now, flushOK) # Idle
  <2>1. PICK end \in Int :
           /\ round' = [pc |-> "export", now |-> round.now, end |-> end, raw |-> {}]
           /\ cursor < end /\ end <= round.now - (IF flushOK THEN Watermark ELSE ExportLag)
    BY <1>1, <1>2, <1>3, <1>7, RoundWindow, Zenon
  <2>2. Complete(cursor, end)'
    <3>1. CASE flushOK
      <4>1. end <= now - Watermark /\ C!InWindow(cursor, end) \subseteq written
        BY <1>2, <1>3, <2>1, <3>1, FlushedWindow
      <4> QED
        BY <1>1, <1>2, <2>1, <3>1, <4>1, Zenon DEF Complete, C!InWindow, C!Ts, walVars
    <3>2. CASE ~flushOK
      <4>1. Complete(cursor, end)
        BY <1>2, <1>3, <2>1, <3>2, SettledWindow
      <4> QED
        BY <1>2, <1>3, <4>1, CompleteKept DEF walVars
    <3> QED
      BY <3>1, <3>2, Zenon
  <2>3. round' \in RoundType /\ RoundInv' /\ SlotInv' /\ Behind(cursor)' \subseteq wal'
    BY <1>2, <1>3, <2>1, <2>2, RoundStarts, Zenon DEF walVars
  <2> QED
    BY <1>4, <1>5, <2>3, Zenon DEF PollInv
<1> QED
  BY <1>6, <1>7, Zenon

\* A round that ends with ExportFailed: the base window again, an empty slot.
LEMMA FailedStep ==
    ASSUME PollInv, ExportFailed, prefetch' = NoPrefetch, UNCHANGED <<source, walVars, bp>>,
           faults' \in 0..MaxFaults
    PROVE  PollInv'
<1>1. Types'
  <2>1. round' \in RoundType /\ prefetch' \in SlotType
    BY Rests, Zenon DEF ExportFailed
  <2>2. 0 \in 0..MaxStreak
    BY PollerAssumption
  <2> QED
    BY <2>1, <2>2, Zenon DEF PollInv, Types, ExportFailed, source, walVars
<1>2. SourceInv'
  BY SourceKept, Zenon DEF PollInv, source
<1>3. RoundInv' /\ SlotInv' /\ Behind(cursor)' \subseteq wal'
  BY Rests, RoundRests, Zenon DEF ExportFailed, source, walVars
<1> QED
  BY <1>1, <1>2, <1>3, Zenon DEF PollInv

\* A round that has the answer for its whole window.
LEMMA AnswerStep ==
    ASSUME PollInv, NEW end \in Int, Complete(cursor, end),
           round.pc = "export", prefetch' = NoPrefetch,
           round' \in RoundType, round'.pc = "process", round'.end = end,
           round'.raw = C!InWindow(cursor, end),
           UNCHANGED <<source, walVars, bp, streaks>>, faults' \in 0..MaxFaults
    PROVE  PollInv'
<1>1. Types'
  BY Rests, Zenon DEF PollInv, Types, source, walVars, streaks
<1>2. SourceInv'
  BY SourceKept, Zenon DEF PollInv, source
<1>3. Complete(cursor, end)'
  BY Zenon DEF Complete, C!InWindow, C!Ts, source, walVars
<1>4. RoundInv'
  BY <1>3, Zenon DEF RoundInv, C!InWindow, C!Ts, walVars
<1>5. SlotInv'
  BY Rests, Zenon DEF SlotInv, NoPrefetch
<1> QED
  BY <1>1, <1>2, <1>4, <1>5, Zenon DEF PollInv, Behind, C!Ts, walVars

\* The prefetched answer is the answer for a window at this cursor.
LEMMA ConsumeStep == ASSUME PollInv, Consume PROVE PollInv'
<1>1. /\ round.pc = "export" /\ prefetch.cursor = cursor /\ prefetch.state \in {"done", "failed"}
      /\ prefetch' = NoPrefetch /\ UNCHANGED <<source, walVars, bp, faults>>
      /\ faults' \in 0..MaxFaults
  BY Zenon DEF Consume, PollInv, Types
<1>2. CASE ExportFailed
  BY <1>1, <1>2, FailedStep, Zenon
<1>3. CASE ~ExportFailed
  <2>1. /\ prefetch.state = "done" /\ UNCHANGED streaks
        /\ round' = [round EXCEPT !.pc = "process", !.end = prefetch.end, !.raw = prefetch.raw]
    BY <1>3, Zenon DEF Consume
  <2>2. /\ round \in RoundType /\ prefetch \in SlotType
        /\ Complete(cursor, prefetch.end) /\ prefetch.raw = C!InWindow(cursor, prefetch.end)
    BY <1>1, <2>1, Zenon DEF PollInv, Types, SlotInv
  <2>3. prefetch.end \in Int /\ prefetch.raw \in SUBSET Points
    BY <2>2, Zenon DEF SlotType
  <2>4. /\ round' \in RoundType /\ round'.pc = "process" /\ round'.end = prefetch.end
        /\ round'.raw = prefetch.raw
    BY <2>1, <2>2, <2>3, Zenon DEF RoundType
  <2> QED
    BY <1>1, <2>1, <2>2, <2>3, <2>4, AnswerStep, Zenon
<1> QED
  BY <1>2, <1>3, Zenon

\* ExportRange returns what is visible, which is all of a complete window.
LEMMA ExportStep == ASSUME PollInv, Export PROVE PollInv'
<1>1. /\ round.pc = "export" /\ prefetch' = NoPrefetch /\ UNCHANGED <<source, walVars, bp>>
      /\ NoFault \/ Fault
  BY Zenon DEF Export
<1>2. faults' \in 0..MaxFaults
  BY <1>1, PollerAssumption DEF NoFault, Fault, PollInv, Types
<1>3. CASE ExportFailed
  BY <1>1, <1>2, <1>3, FailedStep, Zenon
<1>4. CASE ~ExportFailed
  <2> DEFINE raw == Exported(cursor, round.end)
  <2>1. UNCHANGED streaks /\ round' = [round EXCEPT !.pc = "process", !.raw = raw]
    BY <1>4, Zenon DEF Export
  <2>2. round \in RoundType /\ Complete(cursor, round.end) /\ round.end \in Int
    BY <1>1, Zenon DEF PollInv, Types, RoundInv, RoundType
  <2>3. raw = C!InWindow(cursor, round.end) /\ raw \in SUBSET Points
    BY <2>2, Zenon DEF Complete, Exported, C!InWindow
  <2> HIDE DEF raw
  <2>4. /\ round' \in RoundType /\ round'.pc = "process" /\ round'.end = round.end
        /\ round'.raw = raw
    BY <2>1, <2>2, <2>3, Zenon DEF RoundType
  <2> QED
    BY <1>1, <1>2, <2>1, <2>2, <2>3, <2>4, AnswerStep, Zenon
<1> QED
  BY <1>3, <1>4, Zenon

\* launchPrefetch takes only a window that is complete already.
LEMMA PrefetchComplete ==
    ASSUME Types, SourceInv, NEW start \in Nat, NEW u \in 0..MaxStreak, NEW e \in BOOLEAN
    PROVE  \/ PrefetchWindow(start, u, e) = NoPrefetch
           \/ \E end \in Int :
                /\ PrefetchWindow(start, u, e)
                   = [state |-> "running", cursor |-> start, end |-> end, raw |-> {}]
                /\ Complete(start, end)
<1> DEFINE size == windowSize(u, e, oversizeStreak)
           capped == IF u = 0 THEN Least(size, MaxWindow) ELSE size
           end == Least(start + capped, now - Watermark)
<1>1. size \in Int /\ MaxWindow \in Nat /\ now \in Nat
  BY SizeInt, PollerAssumption DEF Types
<1> HIDE DEF size
<1>2. end \in Int
  BY <1>1, Lags DEF Least
<1>3. PrefetchWindow(start, u, e) =
         IF now - end < ExportLag \/ end <= start THEN NoPrefetch
         ELSE [state |-> "running", cursor |-> start, end |-> end, raw |-> {}]
  BY Zenon DEF PrefetchWindow, size
<1> HIDE DEF end
<1>4. CASE now - end < ExportLag \/ end <= start
  BY <1>3, <1>4, Zenon
<1>5. CASE ~(now - end < ExportLag \/ end <= start)
  <2>1. start < end /\ end <= now - ExportLag /\ now <= now
    BY <1>1, <1>2, <1>5, Lags
  <2>2. Complete(start, end)
    BY <1>1, <1>2, <2>1, SettledWindow
  <2> QED
    BY <1>2, <1>3, <1>5, <2>2, Zenon
<1> QED
  BY <1>4, <1>5, Zenon

\* The streaks stay within their bounds.
LEMMA IncBound == ASSUME NEW n \in 0..MaxStreak PROVE Inc(n) \in 0..MaxStreak
BY PollerAssumption DEF Inc, Least

\* The answer is split and the next window prefetched, at the end of this one.
LEMMA ProcessStep == ASSUME PollInv, Process PROVE PollInv'
<1>1. /\ round.pc = "process" /\ UNCHANGED <<source, walVars, bp, faults>>
      /\ underfillStreak' \in {0, Inc(underfillStreak)}
      /\ streakAllEmpty' \in BOOLEAN
      /\ oversizeStreak' \in {oversizeStreak, Inc(oversizeStreak)}
  BY Zenon DEF Process, PollInv, Types
<1>2. /\ Types /\ SourceInv /\ round \in RoundType /\ round.end \in Int /\ prefetch = NoPrefetch
      /\ round.raw = C!InWindow(cursor, round.end) /\ Complete(cursor, round.end)
      /\ cursor \in Nat /\ now \in Nat
  BY <1>1, PollerAssumption DEF PollInv, Types, RoundInv, SlotInv, RoundType
<1>3. /\ underfillStreak' \in 0..MaxStreak /\ oversizeStreak' \in 0..MaxStreak
  <2>1. 0 \in 0..MaxStreak
    BY PollerAssumption
  <2> QED
    BY <1>1, <1>2, <2>1, IncBound, Zenon DEF Types
<1>4. SourceInv'
  BY <1>1, <1>2, SourceKept, Zenon DEF source
<1>5. ASSUME round' \in RoundType, prefetch' \in SlotType PROVE Types'
  BY <1>1, <1>2, <1>3, <1>5, Zenon DEF Types, source, walVars
<1>6. CASE TooLarge(round.raw)
  <2>1. round' = Idle /\ prefetch' = NoPrefetch
    BY <1>6, Zenon DEF Process
  <2>2. RoundInv' /\ SlotInv' /\ Behind(cursor)' \subseteq wal'
    BY <1>1, <2>1, Rests, RoundRests, Zenon DEF source, walVars
  <2> QED
    BY <1>4, <1>5, <2>1, <2>2, Rests, Zenon DEF PollInv
<1>7. CASE ~TooLarge(round.raw)
  <2>1. PICK pc \in {"append", "cursor"} :
           round' = [round EXCEPT !.pc = pc] /\ (pc = "cursor" => round.raw = {})
    BY <1>7, Zenon DEF Process
  <2>2. /\ round' \in RoundType /\ round'.pc = pc /\ round'.end = round.end
        /\ round'.raw = round.raw
    BY <1>2, <2>1, Zenon DEF RoundType
  <2>3. prefetch' = PrefetchWindow(round.end, underfillStreak', streakAllEmpty')
    BY <1>2, <1>7, Zenon DEF Process
  <2>4. round.end \in Nat
    BY <1>2 DEF Complete
  <2>5. \/ prefetch' = NoPrefetch
        \/ \E end \in Int :
              /\ prefetch' = [state |-> "running", cursor |-> round.end, end |-> end, raw |-> {}]
              /\ Complete(round.end, end)
    BY <1>1, <1>2, <1>3, <2>3, <2>4, PrefetchComplete, Zenon
  <2>6. \/ prefetch' = NoPrefetch
        \/ /\ prefetch' \in SlotType /\ prefetch'.state = "running"
           /\ prefetch'.cursor = round.end /\ Complete(prefetch'.cursor, prefetch'.end)
    <3>1. ASSUME NEW end \in Int, Complete(round.end, end),
                 prefetch' = [state |-> "running", cursor |-> round.end, end |-> end, raw |-> {}]
          PROVE  <2>6!2
      BY <2>4, <3>1, Zenon DEF SlotType
    <3> QED
      BY <2>5, <3>1, Zenon
  <2>7. RoundInv'
    BY <1>1, <1>2, <2>1, <2>2, Zenon DEF RoundInv, Complete, C!InWindow, C!Ts, source, walVars
  <2>8. SlotInv'
    <3>1. CASE prefetch' = NoPrefetch
      BY <3>1, Rests, Zenon DEF SlotInv, NoPrefetch
    <3>2. CASE prefetch' # NoPrefetch
      BY <1>1, <2>1, <2>2, <2>6, <3>2, Zenon DEF SlotInv, Complete, C!InWindow, C!Ts, source
    <3> QED
      BY <3>1, <3>2, Zenon
  <2> QED
    BY <1>1, <1>4, <1>5, <2>2, <2>6, <2>7, <2>8, Rests, Zenon DEF PollInv, Behind, C!Ts, walVars
<1> QED
  BY <1>6, <1>7, Zenon

\* AppendBatch: the answer is in the WAL, or the round is abandoned.
LEMMA AppendBatchStep == ASSUME PollInv, AppendBatch PROVE PollInv'
<1>1. round.pc = "append" /\ UNCHANGED <<source, cursor, saved, streaks, bp>> /\ (NoFault \/ Fault)
  BY Zenon DEF AppendBatch
<1>2. /\ Types /\ SourceInv /\ round \in RoundType /\ round.end \in Int
      /\ round.raw = C!InWindow(cursor, round.end) /\ Complete(cursor, round.end)
      /\ Behind(cursor) \subseteq wal
  BY <1>1, Zenon DEF PollInv, Types, RoundInv, RoundType
<1>3. faults' \in 0..MaxFaults
  BY <1>1, <1>2, PollerAssumption DEF NoFault, Fault, Types
<1>4. SourceInv'
  BY <1>1, <1>2, SourceKept, Zenon DEF source
<1>5. ASSUME round' \in RoundType, prefetch' \in SlotType, wal' \subseteq visible PROVE Types'
  BY <1>1, <1>2, <1>3, <1>5, Zenon DEF Types, source, streaks
<1>6. CASE Abandon /\ UNCHANGED wal
  <2>1. RoundInv' /\ SlotInv' /\ Behind(cursor)' \subseteq wal'
    BY <1>1, <1>6, Rests, RoundRests, Zenon DEF Abandon, source
  <2> QED
    BY <1>2, <1>4, <1>5, <1>6, <2>1, Rests, Zenon DEF PollInv, Abandon, Types
<1>7. CASE /\ wal' = wal \cup round.raw /\ round' = [round EXCEPT !.pc = "cursor"]
           /\ UNCHANGED prefetch
  <2>1. /\ round' \in RoundType /\ round'.pc = "cursor" /\ round'.end = round.end
        /\ round'.raw = round.raw
    BY <1>2, <1>7, Zenon DEF RoundType
  <2>2. wal' \subseteq visible
    BY <1>2, <1>7, Zenon DEF Types, Complete
  <2>3. RoundInv'
    BY <1>1, <1>2, <1>7, <2>1, Zenon DEF RoundInv, Complete, C!InWindow, C!Ts, source
  <2>4. SlotInv'
    BY <1>1, <1>7, <2>1, Zenon DEF PollInv, SlotInv, Complete, C!InWindow, C!Ts, source, NoPrefetch
  <2>5. Behind(cursor)' \subseteq wal'
    BY <1>1, <1>2, <1>7, Zenon DEF Behind, C!Ts
  <2> QED
    BY <1>2, <1>4, <1>5, <1>7, <2>1, <2>2, <2>3, <2>4, <2>5, Zenon DEF PollInv, Types
<1> QED
  BY <1>6, <1>7, Zenon DEF AppendBatch

\* SetCursor: the cursor passes a window that is in the WAL; a window that was
\* prefetched starts there.
LEMMA SetCursorStep == ASSUME PollInv, SetCursor PROVE PollInv'
<1>1. /\ round.pc = "cursor" /\ cursor' = round.end /\ saved' \in {saved, round.end}
      /\ round' = Idle /\ (prefetch' = NoPrefetch \/ prefetch' = prefetch)
      /\ oversizeStreak' \in {oversizeStreak, 0} /\ (NoFault \/ Fault)
      /\ UNCHANGED <<source, wal, frames, underfillStreak, streakAllEmpty, bp>>
  BY Zenon DEF SetCursor, Abandon
<1>2. /\ Types /\ SourceInv /\ round.end \in Int /\ Behind(cursor) \subseteq wal
      /\ C!InWindow(cursor, round.end) \subseteq wal /\ Complete(cursor, round.end)
      /\ cursor \in Nat /\ saved \in Nat /\ saved <= cursor
      /\ now \in Nat /\ oversizeStreak \in 0..MaxStreak
  BY <1>1, PollerAssumption DEF PollInv, Types, RoundInv, RoundType
<1>3. faults' \in 0..MaxFaults
  BY <1>1, <1>2, PollerAssumption DEF NoFault, Fault, Types
<1>4. cursor' \in Nat /\ saved' \in Nat /\ saved' <= cursor' /\ cursor' <= now - Watermark
  BY <1>1, <1>2, Lags DEF Complete
<1>5. oversizeStreak' \in 0..MaxStreak
  BY <1>1, <1>2, PollerAssumption
<1>6. Types'
  BY <1>1, <1>2, <1>3, <1>4, <1>5, Rests, Zenon DEF Types, source
<1>7. SourceInv'
  BY <1>1, <1>2, SourceKept, Zenon DEF source
<1>8. RoundInv'
  BY <1>1, Rests, Zenon DEF RoundInv
<1>9. SlotInv'
  <2>1. CASE prefetch' = NoPrefetch
    BY <2>1, Rests, Zenon DEF SlotInv, NoPrefetch
  <2>2. CASE prefetch' = prefetch
    BY <1>1, <2>2, Rests, Zenon DEF PollInv, SlotInv, Complete, C!InWindow, C!Ts, source, NoPrefetch
  <2> QED
    BY <1>1, <2>1, <2>2, Zenon
<1>10. Behind(cursor)' \subseteq wal'
  <2>1. ASSUME NEW p \in Points, C!Ts(p) < round.end PROVE p \in wal
    <3>1. C!Ts(p) < cursor \/ cursor <= C!Ts(p)
      BY <1>2, PointTimes
    <3> QED
      BY <1>2, <2>1, <3>1, Zenon DEF Behind, C!InWindow
  <2> QED
    BY <1>1, <2>1, Zenon DEF Behind, C!Ts
<1> QED
  BY <1>6, <1>7, <1>8, <1>9, <1>10, Zenon DEF PollInv

\* The goroutine of the prefetch returns all of its window, or an error.
LEMMA PrefetchExportStep == ASSUME PollInv, PrefetchExport PROVE PollInv'
<1> DEFINE raw == Exported(prefetch.cursor, prefetch.end)
<1>1. /\ prefetch.state = "running" /\ (NoFault \/ Fault)
      /\ UNCHANGED <<source, walVars, round, streaks, bp>>
      /\ \/ prefetch' = [prefetch EXCEPT !.state = "done", !.raw = raw]
         \/ prefetch' = [prefetch EXCEPT !.state = "failed"]
  BY Zenon DEF PrefetchExport
<1>2. /\ Types /\ SourceInv /\ prefetch \in SlotType /\ Complete(prefetch.cursor, prefetch.end)
  BY <1>1, Zenon DEF PollInv, Types, SlotInv
<1>3. raw = C!InWindow(prefetch.cursor, prefetch.end) /\ raw \in SUBSET Points
  BY <1>2, Zenon DEF Complete, Exported, C!InWindow
<1> HIDE DEF raw
<1>4. /\ prefetch' \in SlotType /\ prefetch'.cursor = prefetch.cursor
      /\ prefetch'.end = prefetch.end /\ prefetch'.state \in {"done", "failed"}
      /\ prefetch'.state = "done" => prefetch'.raw = raw
  BY <1>1, <1>2, <1>3, Zenon DEF SlotType
<1>5. faults' \in 0..MaxFaults
  BY <1>1, <1>2, PollerAssumption DEF NoFault, Fault, Types
<1>6. Types'
  BY <1>1, <1>2, <1>4, <1>5, Zenon DEF Types, source, walVars, streaks
<1>7. SourceInv'
  BY <1>1, <1>2, SourceKept, Zenon DEF source
<1>8. RoundInv'
  BY <1>1, Zenon DEF PollInv, RoundInv, Complete, C!InWindow, C!Ts, source, walVars
<1>9. SlotInv'
  BY <1>1, <1>2, <1>3, <1>4, Zenon DEF PollInv, SlotInv, Complete, C!InWindow, C!Ts, source, walVars
<1> QED
  BY <1>1, <1>6, <1>7, <1>8, <1>9, Zenon DEF PollInv, Behind, C!Ts, walVars

\* The source accepts a point, shows one, or reaches its next deadline.
LEMMA SourceStep == ASSUME PollInv, Write \/ Show \/ Tick PROVE PollInv'
<1>1. /\ UNCHANGED <<walVars, round, streaks, prefetch, bp, faults>>
      /\ written \subseteq written' /\ visible \subseteq visible'
  BY Zenon DEF Write, Show, Tick
<1>2. /\ Types /\ SourceInv /\ now \in Nat /\ cursor \in Nat /\ MaxTime \in Nat /\ StartTime \in Nat
  BY PollerAssumption DEF PollInv, Types
<1>3. now' = now \/ (now < MaxTime /\ now' = now + 1)
  BY Zenon DEF Write, Show, Tick
<1>4. now' \in StartTime..MaxTime /\ now <= now' /\ now' \in Int
  BY <1>2, <1>3 DEF Types
<1>5. visible' \subseteq written' /\ written' \subseteq Points
  BY <1>2, Zenon DEF Write, Show, Tick, Types
<1>6. Types'
  <2>1. cursor <= now' - Watermark
    BY <1>2, <1>3, Lags DEF Types
  <2> QED
    BY <1>1, <1>2, <1>4, <1>5, <2>1, Zenon DEF Types, walVars, streaks
<1>7. SourceInv'
  <2>1. CASE Write \/ Show
    BY <1>1, <1>2, <2>1, SourceKept, Zenon DEF Write, Show
  <2>2. CASE Tick
    BY <2>2, Zenon DEF Tick, SourceInv, Overdue, C!Ts
  <2> QED
    BY <2>1, <2>2, Zenon
<1>8. RoundInv' /\ SlotInv' /\ Behind(cursor)' \subseteq wal'
  BY <1>1, <1>4, SourceMoves, Zenon
<1> QED
  BY <1>6, <1>7, <1>8, Zenon DEF PollInv

\* The sender drains the WAL; its commits may save the cursor.
LEMMA DrainStep == ASSUME PollInv, Drain PROVE PollInv'
<1>1. /\ UNCHANGED <<source, wal, cursor, round, streaks, prefetch, bp, faults>>
      /\ saved' \in {saved, cursor}
  BY Zenon DEF Drain
<1>2. Types'
  BY <1>1 DEF PollInv, Types, source, streaks
<1>3. SourceInv'
  BY <1>1, SourceKept, Zenon DEF PollInv, source
<1>4. RoundInv'
  BY <1>1, Zenon DEF PollInv, RoundInv, Complete, C!InWindow, C!Ts, source
<1>5. SlotInv'
  BY <1>1, Zenon DEF PollInv, SlotInv, Complete, C!InWindow, C!Ts, source, NoPrefetch
<1> QED
  BY <1>1, <1>2, <1>3, <1>4, <1>5, Zenon DEF PollInv, Behind, C!Ts

\* A restart goes back to the saved cursor, or keeps it, and forgets the rest.
LEMMA RestartStep == ASSUME PollInv, Restart PROVE PollInv'
<1>1. /\ cursor' \in {saved, cursor} /\ saved' = cursor' /\ round' = Idle /\ prefetch' = NoPrefetch
      /\ bp' = "normal" /\ underfillStreak' = 0 /\ streakAllEmpty' = TRUE /\ oversizeStreak' = 0
      /\ faults < MaxFaults /\ faults' = faults + 1 /\ UNCHANGED <<source, wal, frames>>
  BY Zenon DEF Restart, Fault
<1>2. /\ Types /\ SourceInv /\ Behind(cursor) \subseteq wal /\ MaxFaults \in Nat
      /\ MaxStreak \in Nat /\ cursor \in Nat /\ saved \in Nat /\ saved <= cursor /\ now \in Nat
      /\ cursor <= now - Watermark
  BY PollerAssumption DEF PollInv, Types
<1>3. /\ cursor' \in Nat /\ cursor' <= cursor /\ cursor' <= now - Watermark
      /\ saved' \in Nat /\ saved' <= cursor'
  BY <1>1, <1>2, Lags
<1>4. faults' \in 0..MaxFaults /\ 0 \in 0..MaxStreak
  BY <1>1, <1>2 DEF Types
<1>5. Types'
  <2>1. /\ round' \in RoundType /\ prefetch' \in SlotType /\ bp' \in {"normal", "degraded", "paused"}
        /\ underfillStreak' \in 0..MaxStreak /\ oversizeStreak' \in 0..MaxStreak
        /\ streakAllEmpty' \in BOOLEAN
    BY <1>1, <1>4, Rests, Zenon
  <2>2. UNCHANGED <<now, written, visible, wal>>
    BY <1>1, Zenon DEF source
  <2> QED
    BY <1>2, <1>3, <1>4, <2>1, <2>2, Zenon DEF Types
<1>6. SourceInv'
  BY <1>1, <1>2, SourceKept, Zenon DEF source
<1>7. RoundInv' /\ SlotInv'
  BY <1>1, Rests, Zenon DEF RoundInv, SlotInv, NoPrefetch
<1>8. Behind(cursor)' \subseteq wal'
  <2>1. \A p \in Points : C!Ts(p) < cursor' => C!Ts(p) < cursor
    BY <1>2, <1>3, PointTimes
  <2> QED
    BY <1>1, <1>2, <2>1, Zenon DEF Behind, C!Ts
<1> QED
  BY <1>5, <1>6, <1>7, <1>8, Zenon DEF PollInv

-----------------------------------------------------------------------------
(***************************************************************************)
(* The theorems.                                                           *)
(***************************************************************************)
\* Nothing is written, exported or captured before the first step.
LEMMA InitPoll == Init => PollInv
<1> SUFFICES ASSUME Init PROVE PollInv
  BY Zenon
<1>1. /\ {StartTime, MaxTime, MaxFaults, MaxStreak} \subseteq Nat
      /\ Watermark <= StartTime /\ StartTime <= MaxTime
  BY PollerAssumption, Zenon
<1>2. SourceInv
  BY Zenon DEF Init, SourceInv, Overdue
<1>3. Types
  <2>1. visible \subseteq Points /\ written \subseteq Points
    BY Zenon DEF Init, Overdue
  <2>2. visible \subseteq written
    <3>1. \A p \in Points : C!Ts(p) + VisibilityLag < now => C!Ts(p) + Watermark < now
      BY <1>1, Lags, PointTimes DEF Init
    <3> QED
      BY <3>1, Zenon DEF Init, Overdue
  <2>3. now \in StartTime..MaxTime /\ faults \in 0..MaxFaults /\ cursor <= now - Watermark
    BY <1>1, Lags DEF Init
  <2>4. underfillStreak \in 0..MaxStreak /\ oversizeStreak \in 0..MaxStreak
    BY <1>1 DEF Init
  <2>5. cursor \in Nat /\ saved \in Nat /\ saved <= cursor /\ wal \subseteq visible
    BY DEF Init
  <2>6. round \in RoundType /\ prefetch \in SlotType /\ streakAllEmpty \in BOOLEAN
    BY Rests, Zenon DEF Init
  <2>7. bp \in {"normal", "degraded", "paused"}
    BY Zenon DEF Init
  <2> QED
    BY <2>1, <2>2, <2>3, <2>4, <2>5, <2>6, <2>7, Zenon DEF Types
<1>4. RoundInv /\ SlotInv
  BY Rests, Zenon DEF Init, RoundInv, SlotInv
<1>5. Behind(cursor) = {}
  BY PointTimes DEF Init, Behind
<1> QED
  BY <1>2, <1>3, <1>4, <1>5, Zenon DEF PollInv

\* Every step keeps the invariant.
LEMMA NextPoll == PollInv /\ [Next]_vars => PollInv'
<1> SUFFICES ASSUME PollInv, [Next]_vars PROVE PollInv'
  BY Zenon
<1>1. CASE UNCHANGED vars
  <2>1. UNCHANGED <<now, written, visible, wal, cursor, saved, round, prefetch, bp, faults,
                    underfillStreak, streakAllEmpty, oversizeStreak>>
    BY <1>1, Zenon DEF vars, source, walVars, streaks
  <2>2. Types' /\ SourceInv' /\ Behind(cursor)' \subseteq wal'
    BY <2>1, Zenon DEF PollInv, Types, SourceInv, Overdue, Behind, C!Ts
  <2>3. RoundInv' /\ SlotInv'
    BY <2>1, Zenon DEF PollInv, RoundInv, SlotInv, NoPrefetch, Complete, C!InWindow, C!Ts
  <2> QED
    BY <2>2, <2>3, Zenon DEF PollInv
<1> QED
  BY <1>1, WakeStep, BeginStep, FlushSourceStep, ConsumeStep, ExportStep, ProcessStep,
     AppendBatchStep, SetCursorStep, PrefetchExportStep, SourceStep, DrainStep, RestartStep, Zenon
  DEF Next, Poll

\* The invariant holds in every reachable state.
THEOREM PollInvariant == Spec => []PollInv
<1>1. Init => PollInv
  BY InitPoll, Zenon
<1>2. PollInv /\ [Next]_vars => PollInv'
  BY NextPoll, Zenon
<1> QED
  BY <1>1, <1>2, PTL DEF Spec

\* No point of the source is skipped by the cursor, in memory or saved,
\* whatever arrives late, whichever flush fails and whatever is prefetched.
THEOREM NothingSkipped == Spec => []NoPointSkipped
<1>1. PollInv => NoPointSkipped
  <2> SUFFICES ASSUME PollInv PROVE NoPointSkipped
    BY Zenon
  <2>1. cursor \in Int /\ saved \in Int /\ saved <= cursor /\ Behind(cursor) \subseteq wal
    BY DEF PollInv, Types
  <2>2. Max({cursor, saved}) = cursor
    BY <2>1, MaxOfTwo, Zenon
  <2> QED
    BY <2>1, <2>2, Zenon DEF NoPointSkipped, Behind
<1> QED
  BY <1>1, PollInvariant, PTL

\* A window that was prefetched starts at the cursor of the round that comes
\* to use it: consumePrefetch never finds a window of another cursor.
THEOREM PrefetchUsable == Spec => []PrefetchFits
<1>1. PollInv => PrefetchFits
  BY Rests, Zenon DEF PollInv, SlotInv, PrefetchFits
<1> QED
  BY <1>1, PollInvariant, PTL

\* The poller implements Capture: the answer enters the WAL before the cursor
\* passes it, and no point arrives behind the cursor.
THEOREM PollerRefines == Spec => ImplementsCapture
<1>1. Init => C!Init
  <2> SUFFICES ASSUME Init PROVE C!Init
    BY Zenon
  <2>1. written \subseteq Points /\ wal = {} /\ cursor = 0
    BY Zenon DEF Init, Overdue
  <2>2. C!InWindow(0, 0) = {}
    BY PointTimes DEF C!InWindow
  <2> QED
    BY <2>1, <2>2 DEF C!Init
<1>2. PollInv /\ [Next]_vars => [C!Next]_(C!vars)
  <2> SUFFICES ASSUME PollInv, [Next]_vars PROVE [C!Next]_(C!vars)
    BY Zenon
  <2>0. /\ cursor \in Nat /\ saved \in Nat /\ saved <= cursor /\ now \in Nat
        /\ cursor <= now - Watermark /\ wal \subseteq visible /\ visible \subseteq written
        /\ written \subseteq Points /\ round \in RoundType
    BY PollerAssumption DEF PollInv, Types
  <2>1. ASSUME UNCHANGED <<written, wal, cursor>> PROVE UNCHANGED C!vars
    BY <2>1, Zenon DEF C!vars
  <2>2. CASE Write
    <3>1. PICK p \in Points \ written : written' = written \cup {p}
      BY <2>2, Zenon DEF Write
    <3>2. C!Ts(p) \in Nat /\ ~(C!Ts(p) + Watermark < now)
      BY <3>1, PointTimes, Zenon DEF PollInv, SourceInv, Overdue
    <3>3. C!Ts(p) >= cursor
      BY <2>0, <3>2, Lags
    <3>4. C!Arrive
      BY <2>0, <2>2, <3>1, <3>3, Zenon DEF Write, walVars, C!Arrive
    <3> QED
      BY <3>4, Zenon DEF C!Next
  <2>3. CASE AppendBatch
    <3>1. round.raw \subseteq written
      BY <2>0, <2>3, Zenon DEF AppendBatch, PollInv, RoundInv, Complete
    <3>2. C!AppendBatch \/ UNCHANGED <<written, wal, cursor>>
      BY <2>3, <3>1, Zenon DEF AppendBatch, C!AppendBatch, source
    <3> QED
      BY <2>1, <3>2, Zenon DEF C!Next
  <2>4. CASE SetCursor
    <3>1. /\ cursor' = round.end /\ UNCHANGED <<written, wal>> /\ cursor < round.end
          /\ C!InWindow(cursor, round.end) \subseteq wal /\ round.end \in Int
      BY <2>0, <2>4, Zenon DEF SetCursor, PollInv, RoundInv, Complete, source, RoundType
    <3>2. C!Advance
      BY <2>0, <3>1, Zenon DEF C!Advance
    <3> QED
      BY <3>2, Zenon DEF C!Next
  <2>5. CASE Restart
    <3>1. UNCHANGED <<written, wal>> /\ cursor' \in {saved, cursor}
      BY <2>5, Zenon DEF Restart, source
    <3>2. cursor' = cursor \/ C!Rewind
      BY <2>0, <3>1 DEF C!Rewind
    <3> QED
      BY <2>1, <3>1, <3>2, Zenon DEF C!Next
  <2>6. CASE \/ Wake \/ Begin \/ FlushSource \/ Consume \/ Export \/ Process \/ PrefetchExport
             \/ Show \/ Tick \/ Drain \/ UNCHANGED vars
    <3>1. UNCHANGED <<written, wal, cursor>>
      BY <2>6, Zenon DEF Wake, Begin, FlushSource, Consume, Export, Process, PrefetchExport, Show,
         Tick, Drain, vars, source, walVars
    <3> QED
      BY <2>1, <3>1, Zenon
  <2> QED
    BY <2>2, <2>3, <2>4, <2>5, <2>6, Zenon DEF Next, Poll
<1> QED
  BY <1>1, <1>2, PollInvariant, PTL DEF Spec, C!Spec, ImplementsCapture
=============================================================================
