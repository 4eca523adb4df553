------------------------------ MODULE Startup ------------------------------
(***************************************************************************)
(* How the sender starts (run and backfillInit of cmd/sender/main.go): the *)
(* setting sync.backfill decides from where history is exported, and the   *)
(* checkpoint remembers which setting was applied, so that the cursor goes *)
(* back when the setting changes and at no other time.                     *)
(*                                                                         *)
(* Startup is composed with the poller as Capture specifies it.  The       *)
(* source may be empty when the sender first starts and be given its       *)
(* history later.  A checkpoint may come from a version without back-fill. *)
(***************************************************************************)
EXTENDS Integers, FiniteSetsExt

CONSTANTS
    Points,             \* the points of the source, as <<series, timestamp>>
    History,            \* those that are older than the first start
    Settings,           \* values of sync.backfill: [kind, dur]
    Watermark, cfgExportLag, DefaultExportVisibilityLag,
    StartTime, MaxTime, \* bound: the time the runs last
    Budgets             \* bound: event -> how often it happens

\* Attempts to probe that are repeated, probes and saves that fail, kills,
\* orderly stops, changes of the setting, and whether the first checkpoint is
\* one without backfill_ns.
Events == {"retry", "probe", "save", "kill", "stop", "change", "legacy"}

ASSUME StartupAssumption ==
    /\ StartTime \in Nat \ {0} /\ MaxTime \in Nat /\ StartTime <= MaxTime
    /\ Points \subseteq Nat \X (Nat \ {0}) /\ History \subseteq Points
    /\ Settings \subseteq [kind : {"all", "0", "dur"}, dur : 0..(StartTime - 1)]
    /\ {Watermark, cfgExportLag, DefaultExportVisibilityLag} \subseteq 0..(StartTime - 1)
    /\ \A p \in History : p[2] < StartTime
    /\ Budgets \subseteq [Events -> Nat]

VARIABLES
    now,
    source, captured,   \* points of the source, points in the WAL
    setting,            \* sync.backfill in the configuration file
    saved,              \* the checkpoint file: [cursor, policy, legacy]
    cp,                 \* the checkpoint in memory
    pc,                 \* how far run is
    bootNow,            \* the time run passes to backfillInit
    probe,              \* what the probe found: [ok, oldest]
    range,              \* the interval of the bisection: [lo, hi]
    budget,
    owed,               \* history: points a recorded setting or the cursor promises
    seen,               \* history: points the probe's first query saw
    rewinds,            \* history: times the saved cursor went back for this setting
    upgrading           \* history: the setting is the one of the upgrade

external == <<now, source, setting>>
probing == <<probe, range, seen>>
history == <<owed, rewinds, upgrading>>
vars == <<external, captured, saved, cp, pc, bootNow, probing, budget, history>>

C == INSTANCE Capture WITH cursor <- cp.cursor

BackfillNoneNs == 0
BackfillAllNs == -1

NoCheckpoint == [cursor |-> 0, policy |-> BackfillNoneNs, legacy |-> FALSE]

\* EffectiveExportLag
InitLag == Max({Watermark, cfgExportLag, DefaultExportVisibilityLag})

\* BackfillSpec: the mode of a setting; "0" and "0s" mean none, any other
\* duration of zero means all.
Mode(s) ==
    CASE s.kind = "0" -> "none"
      [] s.kind = "dur" /\ s.dur > 0 -> "duration"
      [] OTHER -> "all"

Happens(e) == budget[e] > 0 /\ budget' = [budget EXCEPT ![e] = @ - 1]

\* persistLocked: the file always has the field backfill_ns.
Persisted(c) == [c EXCEPT !.legacy = FALSE]

From(t) == {p \in source : C!Ts(p) >= t}

-----------------------------------------------------------------------------
\* ExportHasData for [0, end).
HasData(end) == source \cap C!InWindow(0, end) # {}

-----------------------------------------------------------------------------
(***************************************************************************)
(* run, up to the start of the poller.                                     *)
(***************************************************************************)
Open ==
    /\ pc = "down"
    /\ cp' = saved
    /\ pc' = "probe"
    /\ bootNow' = now
    /\ UNCHANGED <<external, captured, saved, probing, budget, history>>

NoProbe == [ok |-> FALSE, oldest |-> 0]
NoRange == [lo |-> 0, hi |-> 0]

\* The first part of backfillInit if no history is wanted.
SkipProbe ==
    /\ pc = "probe" /\ Mode(setting) = "none"
    /\ probe' = [ok |-> TRUE, oldest |-> 0]
    /\ pc' = "apply"
    /\ UNCHANGED <<external, captured, saved, cp, bootNow, range, seen, budget, history>>

\* ProbeOldestData: the first query, whether there is any point before now.
ProbeOldestData ==
    /\ pc = "probe" /\ Mode(setting) # "none"
    /\ seen' = source \cap C!InWindow(0, now)
    /\ IF HasData(now)
       THEN pc' = "bisect" /\ range' = [lo |-> 0, hi |-> now] /\ UNCHANGED probe
       ELSE pc' = "apply" /\ probe' = [ok |-> TRUE, oldest |-> 0] /\ UNCHANGED range
    /\ UNCHANGED <<external, captured, saved, cp, bootNow, budget, history>>

\* One query of the bisection; the source may change between two of them.
Bisect ==
    /\ pc = "bisect" /\ range.hi - range.lo > 1
    /\ LET mid == range.lo + (range.hi - range.lo) \div 2
       IN  range' = IF HasData(mid) THEN [range EXCEPT !.hi = mid] ELSE [range EXCEPT !.lo = mid]
    /\ UNCHANGED <<external, captured, saved, cp, pc, bootNow, probe, seen, budget, history>>

\* Mutant: the upper end of the last interval is returned.
Converged_Hi ==
    /\ pc = "bisect" /\ range.hi - range.lo <= 1
    /\ probe' = [ok |-> TRUE, oldest |-> range.hi]
    /\ pc' = "apply" /\ range' = NoRange
    /\ UNCHANGED <<external, captured, saved, cp, bootNow, seen, budget, history>>

\* The interval is one millisecond long: its lower end is the time of the
\* oldest point.
Converged ==
    /\ pc = "bisect" /\ range.hi - range.lo <= 1
    /\ probe' = [ok |-> TRUE, oldest |-> range.lo]
    /\ pc' = "apply" /\ range' = NoRange
    /\ UNCHANGED <<external, captured, saved, cp, bootNow, seen, budget, history>>

\* A query fails, and backfillInit tries again from the beginning or, after
\* the fifth attempt, goes on without an answer.
QueryFails ==
    /\ pc = "bisect" \/ (pc = "probe" /\ Mode(setting) # "none")
    /\ \/ pc' = "probe" /\ Happens("retry")
       \/ pc' = "apply" /\ Happens("probe")
    /\ probe' = NoProbe /\ range' = NoRange /\ seen' = {}
    /\ UNCHANGED <<external, captured, saved, cp, bootNow, history>>

Stopped ==
    /\ pc' = "down" /\ cp' = NoCheckpoint /\ bootNow' = 0
    /\ probe' = NoProbe /\ range' = NoRange /\ seen' = {}

\* A call that saves the checkpoint c.  If it fails run returns, and the
\* deferred Close tries once more.
SaveDuringStart(c, nextPc) ==
    \/ /\ cp' = c /\ saved' = Persisted(c) /\ pc' = nextPc
       /\ UNCHANGED <<probing, bootNow, budget>>
    \/ Happens("save") /\ saved' \in {saved, Persisted(c)} /\ Stopped

\* The policy is applied: not if all history is wanted and the probe failed
\* (R19), nor if the database is empty (R23).
applyPolicy ==
    CASE Mode(setting) = "none" -> TRUE
      [] Mode(setting) = "all" -> probe.ok /\ probe.oldest # 0
      [] Mode(setting) = "duration" -> ~probe.ok \/ probe.oldest # 0

policyNs ==
    CASE Mode(setting) = "none" -> BackfillNoneNs
      [] Mode(setting) = "all" -> BackfillAllNs
      [] Mode(setting) = "duration" -> setting.dur

boundaryNs ==
    CASE ~applyPolicy \/ Mode(setting) = "none" -> 0
      [] applyPolicy /\ Mode(setting) = "all" -> probe.oldest
      [] applyPolicy /\ Mode(setting) = "duration" ->
            IF probe.ok THEN Max({bootNow - setting.dur, probe.oldest}) ELSE bootNow - setting.dur

\* Mutant: the policy is not remembered.
Recorded_Forgotten(c) == c

\* The checkpoint with the new policy.
Recorded(c) == [c EXCEPT !.policy = policyNs, !.legacy = FALSE]

\* The cursor does not go back: an old checkpoint, no history wanted, or the
\* boundary is not behind it.
keepsCursor == cp.legacy \/ policyNs = BackfillNoneNs \/ boundaryNs \notin 1..(cp.cursor - 1)

\* ApplyBackfillPolicy.  What the new policy promises is owed once it is in
\* the file, and replaces an older promise if there is no cursor yet; a bounded
\* policy only promises when it has a cursor to move.
ApplyBackfillPolicy ==
    /\ pc = "apply"
    /\ IF ~applyPolicy \/ (~cp.legacy /\ cp.policy = policyNs)
       THEN pc' = "init" /\ UNCHANGED <<saved, cp, probing, bootNow, budget, owed, rewinds>>
       ELSE LET c == IF keepsCursor THEN cp ELSE [cp EXCEPT !.cursor = boundaryNs]
                promises == /\ ~cp.legacy /\ policyNs # BackfillNoneNs
                            /\ policyNs = BackfillAllNs \/ cp.cursor # 0
            IN  /\ SaveDuringStart(Recorded(c), "init")
                /\ owed' = IF saved' = saved THEN owed
                           ELSE (IF cp.cursor = 0 THEN {} ELSE owed)
                                \cup (IF promises THEN From(boundaryNs) ELSE {})
                /\ rewinds' = IF saved'.cursor < saved.cursor THEN rewinds + 1 ELSE rewinds
    /\ UNCHANGED <<external, captured, upgrading>>

\* The first cursor.
initCursor ==
    CASE Mode(setting) = "all" /\ probe.ok /\ probe.oldest > 0 -> probe.oldest
      [] Mode(setting) = "duration" /\ boundaryNs > 0 -> boundaryNs
      [] OTHER -> bootNow - InitLag

\* Mutant: no first cursor without a probe.
InitCursor_NoProbe ==
    /\ pc = "init"
    /\ IF cp.cursor # 0 \/ ~probe.ok
       THEN pc' = "run" /\ UNCHANGED <<saved, cp, probing, bootNow, budget, owed>>
       ELSE /\ SaveDuringStart([cp EXCEPT !.cursor = initCursor], "run")
            /\ owed' = IF saved' # saved THEN owed \cup From(initCursor) ELSE owed
    /\ UNCHANGED <<external, captured, rewinds, upgrading>>

\* Mutant: the first cursor is always the live one.
InitCursor_Live ==
    /\ pc = "init"
    /\ IF cp.cursor # 0
       THEN pc' = "run" /\ UNCHANGED <<saved, cp, probing, bootNow, budget, owed>>
       ELSE /\ SaveDuringStart([cp EXCEPT !.cursor = bootNow - InitLag], "run")
            /\ owed' = owed
    /\ UNCHANGED <<external, captured, rewinds, upgrading>>

\* The end of backfillInit: a checkpoint without a cursor gets one.
InitCursor ==
    /\ pc = "init"
    /\ IF cp.cursor # 0
       THEN pc' = "run" /\ UNCHANGED <<saved, cp, probing, bootNow, budget, owed>>
       ELSE /\ SaveDuringStart([cp EXCEPT !.cursor = initCursor], "run")
            /\ owed' = IF saved' # saved THEN owed \cup From(initCursor) ELSE owed
    /\ UNCHANGED <<external, captured, rewinds, upgrading>>

-----------------------------------------------------------------------------
(***************************************************************************)
(* The poller, as Capture specifies it, the sender's checkpoints, and the  *)
(* end of the process.                                                     *)
(***************************************************************************)

\* Mutant: the window is open at its start.
AppendBatch_OpenStart ==
    /\ pc = "run"
    /\ \E end \in (cp.cursor + 1)..(now - Watermark) :
          captured' = captured \cup (source \cap C!InWindow(cp.cursor + 1, end))
    /\ UNCHANGED <<external, saved, cp, pc, bootNow, probing, budget, history>>
    /\ C!AppendBatch

\* The points of a window are in the WAL before the cursor moves.
AppendBatch ==
    /\ pc = "run"
    /\ \E end \in (cp.cursor + 1)..(now - Watermark) :
          captured' = captured \cup (source \cap C!InWindow(cp.cursor, end))
    /\ UNCHANGED <<external, saved, cp, pc, bootNow, probing, budget, history>>
    /\ C!AppendBatch

\* A save that fails leaves the cursor in memory moved.
SetCursor ==
    /\ pc = "run"
    /\ \E end \in (cp.cursor + 1)..(now - Watermark) : cp' = [cp EXCEPT !.cursor = end]
    /\ \/ saved' = Persisted(cp') /\ UNCHANGED budget
       \/ Happens("save") /\ UNCHANGED saved
    /\ UNCHANGED <<external, captured, pc, bootNow, probing, history>>
    /\ C!Advance

\* The sender commits a frame, which saves the checkpoint now and then; a save
\* that fails changes nothing.
Commit ==
    /\ pc = "run"
    /\ saved' = Persisted(cp)
    /\ UNCHANGED <<external, captured, cp, pc, bootNow, probing, budget, history>>

\* pollOnce has no new window.
Wait == pc = "run" /\ cp.cursor >= now - Watermark /\ UNCHANGED vars

\* SIGTERM: Close saves the checkpoint.
Shutdown ==
    /\ pc = "run" /\ Happens("stop")
    /\ saved' = Persisted(cp)
    /\ Stopped
    /\ UNCHANGED <<external, captured, history>>

Kill ==
    /\ pc # "down" /\ Happens("kill")
    /\ Stopped
    /\ UNCHANGED <<external, captured, saved, history>>

-----------------------------------------------------------------------------
(***************************************************************************)
(* The operator and the source.                                            *)
(***************************************************************************)
Configure ==
    /\ pc = "down" /\ Happens("change")
    /\ setting' \in Settings \ {setting}
    /\ rewinds' = 0 /\ upgrading' = FALSE
    /\ UNCHANGED <<now, source, captured, saved, cp, pc, bootNow, probing, owed>>

\* A new point, at most Watermark late.  Once there is a cursor it is owed,
\* unless it is older than where the first cursor began: with only recent data
\* in the source, or a short back-fill, that may be later than now - Watermark.
Arrive ==
    /\ \E p \in Points \ (History \cup source) :
          /\ C!Ts(p) \in (now - Watermark)..now
          /\ source' = source \cup {p}
          /\ owed' = IF saved.cursor # 0 /\ C!Ts(p) >= saved.cursor THEN owed \cup {p} ELSE owed
    /\ UNCHANGED <<now, setting, captured, saved, cp, pc, bootNow, probing, budget, rewinds, upgrading>>

\* History is imported into an empty database.
Import ==
    /\ source = {}
    /\ source' = History
    /\ UNCHANGED <<now, setting, captured, saved, cp, pc, bootNow, probing, budget, history>>

Tick ==
    /\ now < MaxTime
    /\ now' = now + 1
    /\ UNCHANGED <<source, setting, captured, saved, cp, pc, bootNow, probing, budget, history>>

-----------------------------------------------------------------------------
\* A first start, with or without data in the source, or the start after an
\* upgrade of a deployment that synchronised live data.
Init ==
    /\ now = StartTime
    /\ budget \in Budgets
    /\ setting \in Settings
    /\ IF budget["legacy"] > 0
       THEN /\ saved = [cursor |-> StartTime - InitLag, policy |-> BackfillNoneNs, legacy |-> TRUE]
            /\ source = History
       ELSE saved = NoCheckpoint /\ source \in {{}, History}
    /\ upgrading = saved.legacy
    /\ captured = {} /\ owed = {} /\ rewinds = 0
    /\ cp = NoCheckpoint /\ pc = "down" /\ bootNow = 0
    /\ probe = NoProbe /\ range = NoRange /\ seen = {}

Start ==
    \/ Open \/ SkipProbe \/ ProbeOldestData \/ Bisect \/ Converged \/ QueryFails
    \/ ApplyBackfillPolicy \/ InitCursor

Next ==
    \/ Start \/ AppendBatch \/ SetCursor \/ Commit \/ Wait \/ Shutdown \/ Kill
    \/ Configure \/ Arrive \/ Import \/ Tick

Spec == Init /\ [][Next]_vars

\* The process is started again, run goes on, the poller polls and time passes.
FairSpec ==
    Spec /\ WF_vars(Start) /\ WF_vars(AppendBatch) /\ WF_vars(SetCursor) /\ WF_vars(Tick)

-----------------------------------------------------------------------------
\* Every variable has its type, and the poller never starts without a cursor.
TypeOK ==
    /\ now \in StartTime..MaxTime /\ bootNow \in 0..MaxTime
    /\ captured \subseteq source /\ owed \subseteq source /\ source \subseteq Points
    /\ setting \in Settings
    /\ {saved, cp} \subseteq [cursor : 0..MaxTime, policy : -1..MaxTime, legacy : BOOLEAN]
    /\ pc \in {"down", "probe", "bisect", "apply", "init", "run"}
    /\ probe \in [ok : BOOLEAN, oldest : 0..MaxTime]
    /\ range \in [lo : 0..MaxTime, hi : 0..MaxTime] /\ seen \subseteq source
    /\ pc = "run" => 0 < saved.cursor /\ saved.cursor <= cp.cursor
    /\ budget \in [Events -> Nat] /\ rewinds \in Nat /\ upgrading \in BOOLEAN

\* The bisection ends at the oldest point, whatever arrives between its
\* queries: none that was there at the first query is before the result, and
\* there is a point at the result (or one that arrived since, before it).  One
\* more and the first window would miss the oldest point, any less and the
\* poller would walk through a void.
ProbeFindsOldest ==
    pc = "apply" /\ probe.ok /\ Mode(setting) # "none" =>
        /\ seen = {} <=> probe.oldest = 0
        /\ \A p \in seen : C!Ts(p) >= probe.oldest
        /\ seen # {} => \E p \in source : C!Ts(p) <= probe.oldest

\* Once the setting is recorded, the history it promises is not skipped: a
\* cursor, saved or in memory, never passes an owed point that is not in the
\* WAL.  (R19: a policy that is recorded and not applied is "历史数据永久漏发".)
NothingOwedSkipped ==
    \A p \in owed \ captured : C!Ts(p) >= saved.cursor /\ (pc = "run" => C!Ts(p) >= cp.cursor)

\* A setting moves the saved cursor back at most once, however often the
\* sender restarts or fails to ("正常重启绝不回拨").
OneRewindPerSetting == rewinds <= 1

\* What the comment of ApplyBackfillPolicy says of an upgrade: the first start
\* only records the setting and the cursor stays ("防升级即全库重发").  So the
\* saved cursor never goes back until the setting changes.
UpgradeNeverRewinds == [][upgrading => saved'.cursor >= saved.cursor]_vars

\* No history stays owed for ever: it is captured in the end, across restarts
\* and failures, or another setting withdraws the promise before it has begun.
OwedCaptured == []<>(owed \cap History \subseteq captured)
=============================================================================
