------------------------------- MODULE Poller -------------------------------
(***************************************************************************)
(* The poller (internal/sender/poller.go) against a source whose points    *)
(* arrive late and become visible to export later still.                   *)
(*                                                                         *)
(* pollOnce exports the window from the cursor on, appends its lines as    *)
(* frames to the WAL and moves the cursor.  While it does, a goroutine     *)
(* exports the next window ahead (the prefetch slot).  Windows grow over   *)
(* sparse data and shrink when a line does not fit a frame.  Near the      *)
(* present the source is told to flush; if it refuses, the window ends     *)
(* ExportLag before now.  Run pauses the poller when the disk of the WAL   *)
(* fills up.                                                               *)
(*                                                                         *)
(* Time is counted in milliseconds of the code.  The WAL is the set of     *)
(* points it was given and the number of frames it holds.                  *)
(***************************************************************************)
EXTENDS SplitFrames, TLC

CONSTANTS
    Points,             \* the points of the source, as <<series, timestamp>>
    Series,             \* the number of series
    Window, MaxWindow, Watermark, WindowTarget, cfgExportLag,   \* PollerConfig
    DefaultExportVisibilityLag, emptySkipMaxWindow, oversizeMinWindow,
    maxExportRespBytes, \* the longest answer ExportRange accepts
    MaxFrameLen,        \* the longest frame Encode accepts
    bpYellow, bpRed,    \* frames in the WAL at 60% and 80% of the disk
    VisibilityLag,      \* of the source: a point is visible this long after its time
    StartTime, MaxTime, \* bound: the time the runs last
    MaxStreak,          \* from here on a streak no longer changes the window
    MaxFaults           \* bound: failed calls and crashes

\* NewPoller: the margin is never below the default nor below the watermark.
ExportLag == Max({cfgExportLag, DefaultExportVisibilityLag, Watermark})

ASSUME PollerAssumption ==
    /\ Points \subseteq (1..Series) \X Nat
    /\ {Window, MaxWindow, oversizeMinWindow, MaxStreak} \subseteq Nat \ {0}
    /\ {Watermark, WindowTarget, MaxFaults, StartTime, MaxTime, bpYellow, bpRed} \subseteq Nat
    /\ {cfgExportLag, DefaultExportVisibilityLag, emptySkipMaxWindow, VisibilityLag} \subseteq Nat
    /\ Watermark <= StartTime /\ StartTime <= MaxTime
    /\ Watermark <= VisibilityLag      \* a point may arrive that late, and is not visible before
    /\ VisibilityLag <= ExportLag
    /\ bpYellow <= bpRed
    /\ oversizeMinWindow <= Window
    /\ Window * 2^MaxStreak >= Max({MaxWindow, emptySkipMaxWindow})
    /\ Window \div 2^MaxStreak <= oversizeMinWindow

\* Arithmetic that the provers do not know: windowSize divides by a power of 2.
ASSUME PowerAssumption == \A n \in 0..MaxStreak : 2^n > 0

VARIABLES
    now,                \* the clock
    written, visible,   \* points the source accepted, and those export returns
    wal, frames,        \* points given to the WAL, frames it holds
    cursor, saved,      \* the cursor in memory and in the checkpoint file
    round,              \* pollOnce: [pc, now, end, raw]
    underfillStreak, streakAllEmpty, oversizeStreak,
    prefetch,           \* the slot: [state, cursor, end, raw]
    bp,                 \* back-pressure state of Run
    faults

source == <<now, written, visible>>
walVars == <<wal, frames, cursor, saved>>
streaks == <<underfillStreak, streakAllEmpty, oversizeStreak>>
vars == <<source, walVars, round, streaks, prefetch, bp, faults>>

C == INSTANCE Capture WITH source <- written, captured <- wal

Idle == [pc |-> "idle", now |-> 0, end |-> 0, raw |-> {}]
NoPrefetch == [state |-> "none", cursor |-> 0, end |-> 0, raw |-> {}]

Fault == faults < MaxFaults /\ faults' = faults + 1
NoFault == UNCHANGED faults

Least(a, b) == IF a < b THEN a ELSE b

-----------------------------------------------------------------------------
(***************************************************************************)
(* Windows.                                                                *)
(***************************************************************************)

\* Mutant: the window does not shrink.
windowSize_NoShrink(underfill, allEmpty, oversize) ==
    Least(Window * 2^underfill, IF allEmpty THEN emptySkipMaxWindow ELSE MaxWindow)

\* windowSize: halved for every line that was too large, else doubled for
\* every window that was not full.
windowSize(underfill, allEmpty, oversize) ==
    IF oversize > 0 THEN Max({Window \div 2^oversize, oversizeMinWindow})
    ELSE Least(Window * 2^underfill, IF allEmpty THEN emptySkipMaxWindow ELSE MaxWindow)

\* Mutant: a flush that failed counts as one that succeeded.
windowEnd_FlushIgnored(t, flushOK) ==
    LET size == windowSize(underfillStreak, streakAllEmpty, oversizeStreak)
        end == Least(cursor + size, t - Watermark)
    IN  IF underfillStreak = 0 THEN Least(end, cursor + MaxWindow) ELSE end

\* Mutant: the window is not cut at the watermark.
windowEnd_NoWatermark(t, flushOK) ==
    LET end == cursor + windowSize(underfillStreak, streakAllEmpty, oversizeStreak)
    IN  IF underfillStreak = 0 THEN Least(end, cursor + MaxWindow) ELSE end

\* windowEnd, at time t.
windowEnd(t, flushOK) ==
    LET size == windowSize(underfillStreak, streakAllEmpty, oversizeStreak)
        end == Least(cursor + size, t - (IF flushOK THEN Watermark ELSE ExportLag))
    IN  IF underfillStreak = 0 THEN Least(end, cursor + MaxWindow) ELSE end

\* Mutant: the live zone is prefetched too (R24).
PrefetchWindow_Live(start, underfill, allEmpty) ==
    LET size == windowSize(underfill, allEmpty, oversizeStreak)
        capped == IF underfill = 0 THEN Least(size, MaxWindow) ELSE size
        end == Least(start + capped, now - Watermark)
    IN  IF end <= start THEN NoPrefetch
        ELSE [state |-> "running", cursor |-> start, end |-> end, raw |-> {}]

\* launchPrefetch: the next window, unless it reaches into the live zone.
PrefetchWindow(start, underfill, allEmpty) ==
    LET size == windowSize(underfill, allEmpty, oversizeStreak)
        capped == IF underfill = 0 THEN Least(size, MaxWindow) ELSE size
        end == Least(start + capped, now - Watermark)
    IN  IF now - end < ExportLag \/ end <= start THEN NoPrefetch
        ELSE [state |-> "running", cursor |-> start, end |-> end, raw |-> {}]

\* ExportRange: what is visible in [start, end).
Exported(start, end) == visible \cap C!InWindow(start, end)

\* The answer is too long to be accepted (N15).
TooLong(raw) == Cardinality(raw) > maxExportRespBytes

Lines(raw) == [s \in 1..Series |-> {p \in raw : p[1] = s}]
\* A table (@@ makes TLC compute it once).
FramesOf == [raw \in SUBSET Points |-> splitFrames(Lines(raw))] @@ <<>>

\* Encode returns ErrTooLarge for one of the frames.
TooLarge(raw) == \E k \in DOMAIN FramesOf[raw] : Bytes(FramesOf[raw][k]) > MaxFrameLen

Inc(n) == Least(n + 1, MaxStreak)

-----------------------------------------------------------------------------
(***************************************************************************)
(* The loop of Run and pollOnce.                                           *)
(***************************************************************************)

\* Mutant: a degraded poller does not look at the red mark.
Wake_DegradedForever ==
    /\ round.pc = "idle"
    /\ bp' = CASE bp = "normal" /\ frames >= bpRed -> "paused"
               [] bp = "normal" /\ frames >= bpYellow /\ frames < bpRed -> "degraded"
               [] bp # "normal" /\ frames < bpYellow -> "normal"
               [] OTHER -> bp
    /\ round' = IF bp' = "paused" THEN Idle ELSE [Idle EXCEPT !.pc = "begin"]
    /\ UNCHANGED <<source, walVars, streaks, prefetch, faults>>

\* One tick of Run: the disk decides the state, a paused poller skips the round.
\* (bpGreenResume is bpYellowTrigger.)
Wake ==
    /\ round.pc = "idle"
    /\ bp' = CASE bp # "paused" /\ frames >= bpRed -> "paused"
               [] bp = "normal" /\ frames >= bpYellow /\ frames < bpRed -> "degraded"
               [] bp # "normal" /\ frames < bpYellow -> "normal"
               [] OTHER -> bp
    /\ round' = IF bp' = "paused" THEN Idle ELSE [Idle EXCEPT !.pc = "begin"]
    /\ UNCHANGED <<source, walVars, streaks, prefetch, faults>>

\* The window is [cursor, end) as of time t, or there is none yet.
WindowRound(t, flushOK) ==
    LET end == windowEnd(t, flushOK)
    IN  IF end <= cursor THEN Idle
        ELSE [pc |-> "export", now |-> t, end |-> end, raw |-> {}]

\* pollOnce reads the clock; a window that ends in the live zone needs a flush.
Begin ==
    LET rawEnd == cursor + windowSize(underfillStreak, streakAllEmpty, oversizeStreak)
    IN  /\ round.pc = "begin"
        /\ round' = IF rawEnd > now - ExportLag THEN [Idle EXCEPT !.pc = "flush", !.now = now]
                    ELSE WindowRound(now, TRUE)
        /\ UNCHANGED <<source, walVars, streaks, prefetch, bp, faults>>

\* ForceFlush: everything written becomes visible, or the call fails, which at
\* a source without the endpoint it does every time.
ForceFlush(ok) == visible' = IF ok THEN written ELSE visible

FlushSource ==
    /\ round.pc = "flush"
    /\ \E flushOK \in BOOLEAN :
          /\ round' = WindowRound(round.now, flushOK)
          /\ ForceFlush(flushOK)
    /\ UNCHANGED <<now, written, walVars, streaks, prefetch, bp, faults>>

\* The export failed: the cursor stays, the window is the base window again.
ExportFailed ==
    /\ round' = Idle
    /\ underfillStreak' = 0 /\ streakAllEmpty' = TRUE /\ oversizeStreak' = 0

\* The prefetched answer, of its own window, if it is for this cursor.
Consume ==
    /\ round.pc = "export"
    /\ prefetch.cursor = cursor /\ prefetch.state \in {"done", "failed"}
    /\ \/ /\ prefetch.state = "done"
          /\ round' = [round EXCEPT !.pc = "process", !.end = prefetch.end, !.raw = prefetch.raw]
          /\ UNCHANGED streaks
       \/ prefetch.state = "failed" /\ ExportFailed
    /\ prefetch' = NoPrefetch
    /\ UNCHANGED <<source, walVars, bp, faults>>

\* Without one (or with one for another cursor, which is dropped) ExportRange.
Export ==
    LET raw == Exported(cursor, round.end)
    IN  /\ round.pc = "export"
        /\ prefetch.state = "none" \/ prefetch.cursor # cursor
        /\ \/ /\ ~TooLong(raw)
              /\ round' = [round EXCEPT !.pc = "process", !.raw = raw]
              /\ NoFault /\ UNCHANGED streaks
           \/ TooLong(raw) /\ ExportFailed /\ NoFault
           \/ ExportFailed /\ Fault
        /\ prefetch' = NoPrefetch
        /\ UNCHANGED <<source, walVars, bp>>

\* The answer is split, the streaks follow its size, the next window is
\* prefetched; then the frames are encoded, which fails if a line is too large.
Process ==
    LET empty == round.raw = {}
        sparse == ~empty /\ Cardinality(round.raw) < WindowTarget
        underfill == IF empty \/ sparse THEN Inc(underfillStreak) ELSE 0
        allEmpty == IF empty THEN streakAllEmpty ELSE ~sparse
    IN  /\ round.pc = "process"
        /\ underfillStreak' = underfill /\ streakAllEmpty' = allEmpty
        /\ IF TooLarge(round.raw)
           THEN /\ round' = Idle /\ prefetch' = NoPrefetch
                /\ oversizeStreak' = Inc(oversizeStreak)
           ELSE /\ round' = [round EXCEPT !.pc = IF empty THEN "cursor" ELSE "append"]
                /\ prefetch' = IF prefetch # NoPrefetch THEN prefetch
                               ELSE PrefetchWindow(round.end, underfill, allEmpty)
                /\ UNCHANGED oversizeStreak
        /\ UNCHANGED <<source, walVars, bp, faults>>

\* What every failure after the export leaves: no prefetch, the round is over.
Abandon == round' = Idle /\ prefetch' = NoPrefetch

\* Mutant: the prefetched window survives a failed append.
AppendBatch_KeepsPrefetch ==
    /\ round.pc = "append"
    /\ \/ /\ wal' = wal \cup round.raw
          /\ frames' = frames + Len(FramesOf[round.raw])
          /\ round' = [round EXCEPT !.pc = "cursor"]
          /\ NoFault
       \/ round' = Idle /\ Fault /\ UNCHANGED <<wal, frames>>
    /\ UNCHANGED <<source, cursor, saved, prefetch, streaks, bp>>

\* AppendBatch: the frames are in the WAL before the cursor moves.
AppendBatch ==
    /\ round.pc = "append"
    /\ \/ /\ wal' = wal \cup round.raw
          /\ frames' = frames + Len(FramesOf[round.raw])
          /\ round' = [round EXCEPT !.pc = "cursor"]
          /\ NoFault /\ UNCHANGED prefetch
       \/ Abandon /\ Fault /\ UNCHANGED <<wal, frames>>
    /\ UNCHANGED <<source, cursor, saved, streaks, bp>>

\* SetCursor: the cursor in memory moves even if the checkpoint is not saved.
SetCursor ==
    /\ round.pc = "cursor"
    /\ cursor' = round.end
    /\ \/ /\ saved' = round.end /\ round' = Idle /\ oversizeStreak' = 0
          /\ NoFault /\ UNCHANGED prefetch
       \/ /\ saved' \in {saved, round.end}
          /\ Abandon /\ Fault /\ UNCHANGED oversizeStreak
    /\ UNCHANGED <<source, wal, frames, underfillStreak, streakAllEmpty, bp>>

\* The goroutine of launchPrefetch runs its ExportRange.
PrefetchExport ==
    LET raw == Exported(prefetch.cursor, prefetch.end)
    IN  /\ prefetch.state = "running"
        /\ \/ ~TooLong(raw) /\ NoFault /\ prefetch' = [prefetch EXCEPT !.state = "done", !.raw = raw]
           \/ TooLong(raw) /\ NoFault /\ prefetch' = [prefetch EXCEPT !.state = "failed"]
           \/ Fault /\ prefetch' = [prefetch EXCEPT !.state = "failed"]
        /\ UNCHANGED <<source, walVars, round, streaks, bp>>

-----------------------------------------------------------------------------
(***************************************************************************)
(* The source, the sender behind the WAL, and restarts.                    *)
(***************************************************************************)

\* Points that are late by more than d at time t.
Overdue(d, t) == {p \in Points : C!Ts(p) + d < t}

\* A point arrives at the source, at most Watermark after its time.
Write ==
    /\ \E p \in Points \ written : C!Ts(p) <= now /\ written' = written \cup {p}
    /\ UNCHANGED <<now, visible, walVars, round, streaks, prefetch, bp, faults>>

\* A written point becomes visible on its own, at most VisibilityLag after its time.
Show ==
    /\ \E p \in written \ visible : visible' = visible \cup {p}
    /\ UNCHANGED <<now, written, walVars, round, streaks, prefetch, bp, faults>>

Tick ==
    /\ now < MaxTime
    /\ Overdue(Watermark, now + 1) \subseteq written
    /\ Overdue(VisibilityLag, now + 1) \subseteq visible
    /\ now' = now + 1
    /\ UNCHANGED <<written, visible, walVars, round, streaks, prefetch, bp, faults>>

\* The sender commits frames and the WAL deletes their segments; its commits
\* may save the checkpoint, the cursor with it.
Drain ==
    /\ \E n \in 0..(frames - 1) : frames' = n
    /\ saved' \in {saved, cursor}
    /\ UNCHANGED <<source, wal, cursor, round, streaks, prefetch, bp, faults>>

\* The process is killed, or stopped by a Close that saves the cursor.
Restart ==
    /\ Fault
    /\ cursor' \in {saved, cursor} /\ saved' = cursor'
    /\ round' = Idle /\ prefetch' = NoPrefetch /\ bp' = "normal"
    /\ underfillStreak' = 0 /\ streakAllEmpty' = TRUE /\ oversizeStreak' = 0
    /\ UNCHANGED <<source, wal, frames>>

Init ==
    /\ now = StartTime
    /\ written = Overdue(Watermark, now) /\ visible = Overdue(VisibilityLag, now)
    /\ wal = {} /\ frames = 0 /\ cursor = 0 /\ saved = 0
    /\ round = Idle /\ prefetch = NoPrefetch /\ bp = "normal"
    /\ underfillStreak = 0 /\ streakAllEmpty = TRUE /\ oversizeStreak = 0
    /\ faults = 0

Poll ==
    Wake \/ Begin \/ FlushSource \/ Consume \/ Export \/ Process \/ AppendBatch \/ SetCursor

Next == Poll \/ PrefetchExport \/ Write \/ Show \/ Tick \/ Drain \/ Restart

Spec == Init /\ [][Next]_vars

\* The ticker fires, calls return, the source keeps its deadlines and the
\* sender keeps draining.  Nothing is fair about failures and restarts; a
\* flush may fail every time.
FairSpec ==
    Spec /\ WF_vars(Poll) /\ WF_vars(PrefetchExport)
         /\ WF_vars(Write) /\ WF_vars(Show) /\ WF_vars(Tick) /\ WF_vars(Drain)

-----------------------------------------------------------------------------
\* Every variable has its type, and no cursor is ahead of the watermark.
TypeOK ==
    /\ now \in StartTime..MaxTime /\ faults \in 0..MaxFaults
    /\ wal \subseteq visible /\ visible \subseteq written /\ written \subseteq Points
    /\ frames \in Nat /\ {cursor, saved} \subseteq 0..(now - Watermark)
    /\ round \in [pc : {"idle", "begin", "flush", "export", "process", "append", "cursor"},
                  now : Nat, end : Int, raw : SUBSET Points]
    /\ prefetch \in [state : {"none", "running", "done", "failed"},
                     cursor : Nat, end : Int, raw : SUBSET Points]
    /\ {underfillStreak, oversizeStreak} \subseteq 0..MaxStreak /\ streakAllEmpty \in BOOLEAN
    /\ bp \in {"normal", "degraded", "paused"}

\* No point is skipped: whatever the source will ever hold with a time before
\* the cursor (in memory or saved) is in the WAL, although points arrive late,
\* flushes fail, and windows are prefetched before they are due
\* ("先 WAL 后游标", R24).
NoPointSkipped == {p \in Points : C!Ts(p) < Max({cursor, saved})} \subseteq wal

\* A prefetched window starts where the cursor is when a round comes to use
\* it: the case "prefetch discarded (cursor mismatch)" never occurs.
PrefetchFits == round.pc = "export" /\ prefetch # NoPrefetch => prefetch.cursor = cursor

\* splitFrames loses, reorders and divides no line of an answer, keeps both
\* limits ("单行绝不拆分"), and starts no frame that was not needed.
FramesPartitionLines == round.pc = "process" => SplitOf(Lines(round.raw), FramesOf[round.raw])

\* Back-pressure: the WAL outgrows the red mark by one round at most, of one
\* frame per series, whatever the windows, restarts and prefetches.
DiskBounded == frames < bpRed + Series

\* The poller implements what it promises to the rest of the sender.
ImplementsCapture == C!Spec

\* Every point old enough at the end of time is captured: no window is retried
\* for ever, be it grown and answered too long, too large for a frame, empty or
\* paused.  A window of the base size that is answered too long would be.
EveryPointCaptured == <>({p \in Points : C!Ts(p) < MaxTime - ExportLag} \subseteq wal)
=============================================================================
