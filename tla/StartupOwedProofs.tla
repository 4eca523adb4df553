------------------------- MODULE StartupOwedProofs -------------------------
(***************************************************************************)
(* More proofs about Startup: as long as no probe fails for good, no point *)
(* that is owed is skipped, and an upgrade never moves the cursor back.    *)
(***************************************************************************)
EXTENDS StartupProofs

\* One of the five attempts of every probe succeeds.
ProbesAnswered == \A b \in Budgets : b["probe"] = 0

\* No probe fails for good.
Answered == budget["probe"] = 0 /\ (pc \in {"apply", "init"} => probe.ok)

\* While there is no cursor, what is owed is owed to the setting "all", and the
\* probe finds it.
OwedInv ==
    saved.cursor = 0 /\ owed # {} =>
        /\ saved.policy = BackfillAllNs /\ ~saved.legacy
        /\ HasData(now)
        /\ pc = "bisect" => \A p \in owed : p \in seen \/ C!Ts(p) >= range.hi
        /\ pc = "apply" /\ Mode(setting) # "none" =>
              0 < probe.oldest /\ \A p \in owed : C!Ts(p) >= probe.oldest
        /\ pc = "init" =>
              /\ Mode(setting) = "all" /\ 0 < probe.oldest
              /\ \A p \in owed : C!Ts(p) >= probe.oldest

\* The cursor in memory is where a checkpoint put it, or the poller did.
CursorInv == pc = "run" => cp.cursor = saved.cursor \/ cp.cursor <= now - Watermark

SkipInv == Answered /\ OwedInv /\ CursorInv /\ NothingOwedSkipped

\* After an upgrade the checkpoint is the old one until it has the setting,
\* and the poller only runs when it has.
UpgradeInv ==
    upgrading =>
        /\ History \subseteq source /\ saved.cursor > 0
        /\ saved.legacy \/ saved.policy = policyNs
        /\ pc \in {"bisect", "apply"} /\ Mode(setting) # "none" => seen # {}
        /\ pc \in {"init", "run"} => cp.policy = policyNs /\ ~cp.legacy

-----------------------------------------------------------------------------
(***************************************************************************)
(* What is owed, as long as no probe fails.                                *)
(***************************************************************************)

\* Every step keeps the probes answered.
LEMMA AnsweredStep == ASSUME StartInv, Answered, [Next]_vars PROVE Answered'
<1> USE DEF external, probing, history
<1>1. Types /\ Memory /\ budget["probe"] = 0 /\ budget \in [Events -> Nat]
  BY Zenon DEF StartInv, Types, Answered
<1>2. CASE QueryFails
  <2>1. ~Happens("probe")
    BY <1>1 DEF Happens
  <2>2. pc' = "probe" /\ Happens("retry")
    BY <1>2, <2>1, Zenon DEF QueryFails
  <2> QED
    BY <1>1, <2>2, Counts, Zenon DEF Answered, Events
<1>3. CASE SkipProbe \/ ProbeOldestData \/ Converged
  <2>1. budget' = budget /\ (pc' = "apply" => probe'.ok)
    BY <1>3 DEF SkipProbe, ProbeOldestData, Converged
  <2>2. pc' # "init"
    BY <1>3, Zenon DEF SkipProbe, ProbeOldestData, Converged
  <2> QED
    BY <1>1, <2>1, <2>2, Zenon DEF Answered
<1>4. CASE ApplyBackfillPolicy
  <2>1. pc = "apply"
    BY <1>4, Zenon DEF ApplyBackfillPolicy
  <2> QED
    BY <1>1, <1>4, <2>1, ApplyCases, Zenon DEF Answered, Saves, Stopped
<1>5. CASE InitCursor
  BY <1>1, <1>5, InitCases, Zenon DEF Answered, Saves, Stopped
<1>6. CASE Shutdown \/ Kill \/ Configure
  <2>1. pc' = "down"
    BY <1>6, Zenon DEF Shutdown, Kill, Configure, Stopped
  <2>2. PICK e \in Events : Happens(e)
    BY <1>6, Zenon DEF Shutdown, Kill, Configure, Events
  <2> QED
    BY <1>1, <2>1, <2>2, Counts, Zenon DEF Answered
<1>7. CASE SetCursor
  <2>1. pc' = "run"
    BY <1>7, Zenon DEF SetCursor
  <2>2. budget' = budget \/ Happens("save")
    BY <1>7, Zenon DEF SetCursor
  <2> QED
    BY <1>1, <2>1, <2>2, Counts DEF Answered, Events
<1>8. CASE Open \/ Bisect \/ AppendBatch \/ Commit
  BY <1>1, <1>8, Zenon DEF Answered, Open, Bisect, AppendBatch, Commit
<1>9. CASE Wait \/ Arrive \/ Import \/ Tick \/ UNCHANGED vars
  <2>1. UNCHANGED <<budget, pc, probe>>
    BY <1>9, Zenon DEF Wait, Arrive, Import, Tick, vars
  <2> QED
    BY <2>1, Zenon DEF Answered
<1> QED
  BY <1>2, <1>3, <1>4, <1>5, <1>6, <1>7, <1>8, <1>9, Zenon DEF Next, Start

\* Every step keeps the cursor where a checkpoint or the poller put it.
LEMMA CursorStep == ASSUME StartInv, CursorInv, [Next]_vars PROVE CursorInv'
<1> USE DEF external, probing, history
<1>1. Types /\ Memory
  BY Zenon DEF StartInv
<1>2. CASE InitCursor
  <2>1. pc = "init" /\ cp = saved
    BY <1>1, <1>2, Zenon DEF InitCursor, Memory
  <2> QED
    BY <1>1, <1>2, <2>1, InitCases, Zenon DEF CursorInv, Saves, Stopped
<1>3. CASE SetCursor
  <2>1. PICK end \in (cp.cursor + 1)..(now - Watermark) : cp' = [cp EXCEPT !.cursor = end]
    BY <1>3, Zenon DEF SetCursor
  <2>2. cp'.cursor = end /\ now' = now
    BY <1>1, <1>3, <2>1, Zenon DEF SetCursor, Types, Checkpoints
  <2> QED
    BY <1>1, <2>1, <2>2, Times DEF CursorInv, Types, Checkpoints
<1>4. CASE Tick
  <2>1. cp.cursor \in Int /\ now \in Int /\ now' = now + 1 /\ UNCHANGED <<cp, saved, pc>>
    BY <1>1, <1>4, Times DEF Types, Checkpoints, Tick
  <2> QED
    BY <2>1, Times DEF CursorInv
<1>5. CASE AppendBatch \/ Wait \/ Arrive \/ Import \/ Configure \/ UNCHANGED vars
  <2>1. UNCHANGED <<pc, cp, saved, now>>
    BY <1>5, Zenon DEF AppendBatch, Wait, Arrive, Import, Configure, vars
  <2> QED
    BY <2>1, Zenon DEF CursorInv
<1>6. CASE \/ Open \/ SkipProbe \/ ProbeOldestData \/ Bisect \/ Converged \/ QueryFails
           \/ ApplyBackfillPolicy \/ Shutdown \/ Kill
  <2>1. pc' # "run"
    BY <1>6, Zenon DEF Open, SkipProbe, ProbeOldestData, Bisect, Converged, QueryFails,
                ApplyBackfillPolicy, SaveDuringStart, Shutdown, Kill, Stopped
  <2> QED
    BY <2>1, Zenon DEF CursorInv
<1>7. CASE Commit
  <2>1. UNCHANGED <<pc, cp>> /\ saved'.cursor = cp.cursor
    BY <1>1, <1>7, Zenon DEF Commit, Types, Checkpoints, Persisted
  <2> QED
    BY <2>1, Zenon DEF CursorInv
<1> QED
  BY <1>2, <1>3, <1>4, <1>5, <1>6, <1>7, Zenon DEF Next, Start

\* Every step keeps the points that are owed before the cursors.
LEMMA SkipStep == ASSUME StartInv, SkipInv, [Next]_vars PROVE NothingOwedSkipped'
<1> USE DEF external, probing, history
<1>1. Types /\ Memory /\ Answered /\ OwedInv /\ CursorInv /\ NothingOwedSkipped
  BY Zenon DEF StartInv, SkipInv
<1>2. /\ saved.cursor \in Int /\ cp.cursor \in Int /\ now \in Int
      /\ \A p \in source : C!Ts(p) \in Int
  BY <1>1, PointTimes, Times DEF Types, Checkpoints
<1>3. CASE ApplyBackfillPolicy
  <2>1. pc = "apply" /\ captured' = captured
    BY <1>3, Zenon DEF ApplyBackfillPolicy
  <2>2. CASE pc' # "run" /\ UNCHANGED <<saved, owed>>
    BY <1>1, <2>1, <2>2, Zenon DEF NothingOwedSkipped
  <2>3. CASE /\ applyPolicy /\ saved' = Applied /\ pc' # "run"
             /\ owed' = (IF saved.cursor = 0 THEN {} ELSE owed)
                        \cup (IF Promises THEN From(boundaryNs) ELSE {})
    <3>1. saved'.cursor = IF keepsCursor THEN saved.cursor ELSE boundaryNs
      BY <2>3, Zenon DEF Applied
    <3>2. boundaryNs \in Int /\ (applyPolicy /\ Mode(setting) # "none" => boundaryNs > 0)
      BY <1>1, <2>1, BoundaryTypes, Times
    <3>3. cp = saved
      BY <1>1, <2>1, Zenon DEF Memory
    <3>4. saved'.cursor <= saved.cursor
      BY <1>2, <3>1, <3>2, <3>3 DEF keepsCursor
    <3>5. Promises => saved'.cursor <= boundaryNs
      <4>1. SUFFICES ASSUME Promises, keepsCursor PROVE saved.cursor <= boundaryNs
        BY <3>1, <3>2
      <4>2. boundaryNs > 0
        BY <1>1, <2>3, <3>2, <4>1, PolicyTypes, Zenon DEF Promises, Types
      <4>3. boundaryNs \notin 1..(saved.cursor - 1)
        BY <3>3, <4>1, Zenon DEF Promises, keepsCursor
      <4> QED
        BY <1>2, <3>2, <4>2, <4>3
    <3>6. \A p \in From(boundaryNs) : p \in source /\ C!Ts(p) >= boundaryNs
      BY Zenon DEF From
    <3>7. saved'.cursor \in Int
      BY <1>2, <3>1, <3>2, Zenon
    <3>8. \A p \in owed' \ captured : C!Ts(p) >= saved'.cursor
      <4>1. SUFFICES ASSUME NEW p \in owed', p \notin captured PROVE C!Ts(p) >= saved'.cursor
        BY Zenon
      <4>2. CASE p \in owed
        <5>1. C!Ts(p) >= saved.cursor /\ p \in source
          BY <1>1, <4>1, <4>2, Zenon DEF NothingOwedSkipped, Types
        <5> QED
          BY <1>2, <3>4, <3>7, <5>1
      <4>3. CASE Promises /\ p \in From(boundaryNs)
        BY <1>2, <3>2, <3>5, <3>6, <3>7, <4>3
      <4> QED
        BY <2>3, <4>1, <4>2, <4>3, Zenon
    <3> QED
      BY <2>1, <2>3, <3>8, Zenon DEF NothingOwedSkipped
  <2> QED
    BY <1>1, <1>3, <2>2, <2>3, ApplyCases, Zenon DEF Saves, Stopped
<1>4. CASE InitCursor
  <2>1. pc = "init" /\ captured' = captured /\ cp = saved
    BY <1>1, <1>4, Zenon DEF InitCursor, Memory
  <2>2. CASE UNCHANGED <<saved, cp, owed>>
    BY <1>1, <2>1, <2>2, Zenon DEF NothingOwedSkipped
  <2>3. CASE pc' = "down" /\ UNCHANGED <<saved, owed>>
    BY <1>1, <2>1, <2>3, Zenon DEF NothingOwedSkipped
  <2>4. CASE /\ saved.cursor = 0 /\ saved' = First
             /\ pc' = "down" \/ cp'.cursor = First.cursor
             /\ owed' = owed \cup From(initCursor)
    <3>1. saved'.cursor = initCursor /\ (pc' = "run" => cp'.cursor = initCursor)
      BY <2>4, Zenon DEF First
    <3>2. owed # {} => initCursor = probe.oldest /\ \A p \in owed : C!Ts(p) >= probe.oldest
      BY <1>1, <2>1, <2>4, FirstCursor, Zenon DEF OwedInv, Answered
    <3>3. \A p \in owed' : C!Ts(p) >= initCursor
      BY <2>4, <3>2, Zenon DEF From
    <3> QED
      BY <3>1, <3>3, Zenon DEF NothingOwedSkipped
  <2> QED
    BY <1>1, <1>4, <2>2, <2>3, <2>4, InitCases, Zenon DEF Saves, Stopped
<1>5. CASE AppendBatch
  <2>1. captured \subseteq captured' /\ UNCHANGED <<owed, saved, cp, pc>>
    BY <1>5, Zenon DEF AppendBatch
  <2> QED
    BY <1>1, <2>1, Zenon DEF NothingOwedSkipped
<1>6. CASE SetCursor
  <2>1. PICK end \in (cp.cursor + 1)..(now - Watermark) : cp' = [cp EXCEPT !.cursor = end]
    BY <1>6, Zenon DEF SetCursor
  <2>2. /\ pc = "run" /\ pc' = "run" /\ (saved' = Persisted(cp') \/ saved' = saved)
        /\ UNCHANGED <<owed, captured>>
    BY <1>6, Zenon DEF SetCursor
  <2>3. cp'.cursor = end /\ end \in Int /\ Persisted(cp').cursor = end /\ end > cp.cursor
    BY <1>1, <1>2, <2>1, Times DEF Types, Checkpoints, Persisted
  <2>4. source \cap C!InWindow(cp.cursor, end) \subseteq captured
    BY <1>6, <2>3, Zenon DEF SetCursor, C!Advance, C!InWindow
  <2>5. \A p \in owed \ captured : C!Ts(p) >= end
    <3>1. SUFFICES ASSUME NEW p \in owed, p \notin captured PROVE C!Ts(p) >= end
      BY Zenon
    <3>2. p \in source /\ p \in Points /\ C!Ts(p) >= cp.cursor
      BY <1>1, <2>2, <3>1, Zenon DEF Types, NothingOwedSkipped
    <3> QED
      BY <1>2, <2>3, <2>4, <3>1, <3>2 DEF C!InWindow
  <2>6. saved'.cursor = end \/ saved' = saved
    BY <2>2, <2>3, Zenon
  <2> QED
    BY <1>1, <2>2, <2>3, <2>5, <2>6, Zenon DEF NothingOwedSkipped
<1>7. CASE Commit \/ Shutdown
  <2>1. /\ pc = "run" /\ saved' = Persisted(cp) /\ UNCHANGED <<owed, captured>>
        /\ pc' = "down" \/ UNCHANGED <<pc, cp>>
    BY <1>7, Zenon DEF Commit, Shutdown, Stopped
  <2>2. saved'.cursor = cp.cursor
    BY <1>1, <2>1, Zenon DEF Types, Checkpoints, Persisted
  <2> QED
    BY <1>1, <2>1, <2>2, Zenon DEF NothingOwedSkipped
<1>8. CASE Arrive
  <2>1. PICK p \in Points : /\ C!Ts(p) \in (now - Watermark)..now
                            /\ owed' = IF saved.cursor # 0 /\ C!Ts(p) >= saved.cursor
                                       THEN owed \cup {p} ELSE owed
    BY <1>8, Zenon DEF Arrive
  <2>2. UNCHANGED <<saved, cp, pc, captured>>
    BY <1>8, Zenon DEF Arrive
  <2>3. C!Ts(p) >= saved.cursor /\ pc = "run" => C!Ts(p) >= cp.cursor
    BY <1>1, <1>2, <2>1, Times DEF CursorInv
  <2> QED
    BY <1>1, <2>1, <2>2, <2>3, Zenon DEF NothingOwedSkipped
<1>9. CASE \/ Open \/ SkipProbe \/ ProbeOldestData \/ Bisect \/ Converged \/ QueryFails
           \/ Wait \/ Kill \/ Configure \/ Import \/ Tick \/ UNCHANGED vars
  <2>1. UNCHANGED <<saved, owed, captured>> /\ (pc' # "run" \/ UNCHANGED <<pc, cp>>)
    BY <1>9, Zenon DEF Open, SkipProbe, ProbeOldestData, Bisect, Converged, QueryFails,
                Wait, Kill, Stopped, Configure, Import, Tick, vars
  <2> QED
    BY <1>1, <2>1, Zenon DEF NothingOwedSkipped
<1> QED
  BY <1>3, <1>4, <1>5, <1>6, <1>7, <1>8, <1>9, Zenon DEF Next, Start

\* Every step keeps what is owed without a cursor within reach of the probe.
LEMMA OwedStep ==
    ASSUME StartInv, StartInv', SkipInv, [Next]_vars,
           saved'.cursor = 0, owed' # {}
    PROVE  OwedInv'
<1> USE DEF external, probing, history
<1>1. Types /\ Memory /\ ProbeInv /\ Answered /\ OwedInv
  BY Zenon DEF StartInv, SkipInv
<1>2. /\ source \in SUBSET Points /\ owed \subseteq source /\ seen \subseteq source
      /\ now \in Int /\ range.lo \in Int /\ range.hi \in Int /\ probe.oldest \in Int
      /\ saved.cursor \in Int
      /\ \A p \in source : C!Ts(p) \in Int
  BY <1>1, PointTimes, Times DEF Types, Checkpoints
<1>3. ASSUME UNCHANGED <<saved, owed>>
      PROVE  saved.policy = BackfillAllNs /\ ~saved.legacy /\ HasData(now)
  BY <1>1, <1>3, Zenon DEF OwedInv
<1>4. CASE Open \/ SkipProbe \/ Kill \/ Configure \/ QueryFails
  <2>1. UNCHANGED <<saved, owed, source, now>>
    BY <1>4, Zenon DEF Open, SkipProbe, Kill, Configure, QueryFails
  <2>2. pc' \in {"probe", "down"} \/ (pc' = "apply" /\ Mode(setting)' = "none")
    <3>1. ~Happens("probe")
      BY <1>1 DEF Happens, Answered
    <3> QED
      BY <1>4, <3>1, Zenon DEF Open, SkipProbe, Kill, Stopped, Configure, QueryFails
  <2>3. HasData(now)'
    BY <1>3, <2>1, Zenon DEF HasData, C!InWindow
  <2> QED
    BY <1>3, <2>1, <2>2, <2>3, Zenon DEF OwedInv
<1>5. CASE ProbeOldestData
  <2>1. UNCHANGED <<saved, owed, source, now, setting>> /\ seen' = source \cap C!InWindow(0, now)
    BY <1>5, Zenon DEF ProbeOldestData
  <2>2. HasData(now) /\ HasData(now)'
    BY <1>3, <2>1, Zenon DEF HasData, C!InWindow
  <2>3. pc' = "bisect" /\ range'.hi = now
    BY <1>5, <2>2 DEF ProbeOldestData
  <2>4. \A p \in owed' : p \in seen' \/ C!Ts(p) >= range'.hi
    BY <1>2, <2>1, <2>3, PointTimes DEF C!InWindow
  <2> QED
    BY <1>3, <2>1, <2>2, <2>3, <2>4, Zenon DEF OwedInv
<1>6. CASE Bisect
  <2>1. UNCHANGED <<saved, owed, source, now, seen>> /\ pc = "bisect" /\ pc' = "bisect"
    BY <1>6, Zenon DEF Bisect
  <2>2. HasData(now)'
    BY <1>3, <2>1, Zenon DEF HasData, C!InWindow
  <2>3. range'.hi <= range.hi /\ range'.hi \in Int
    <3> DEFINE mid == range.lo + (range.hi - range.lo) \div 2
    <3>1. mid \in Int /\ mid < range.hi /\ range \in [lo : 0..MaxTime, hi : 0..MaxTime]
      BY <1>1, <1>2, <1>6 DEF Bisect, Types
    <3>2. range' = [range EXCEPT !.hi = mid] \/ range' = [range EXCEPT !.lo = mid]
      BY <1>6, Zenon DEF Bisect
    <3> HIDE DEF mid
    <3> QED
      BY <1>2, <3>1, <3>2
  <2>4. \A p \in owed' : p \in seen' \/ C!Ts(p) >= range'.hi
    BY <1>1, <1>2, <2>1, <2>3 DEF OwedInv
  <2> QED
    BY <1>3, <2>1, <2>2, <2>4, Zenon DEF OwedInv
<1>7. CASE Converged
  <2>1. /\ UNCHANGED <<saved, owed, source, now, seen, setting>> /\ pc = "bisect" /\ pc' = "apply"
        /\ probe'.oldest = range.lo /\ probe'.ok
    BY <1>7, Zenon DEF Converged
  <2>2. HasData(now)'
    BY <1>3, <2>1, Zenon DEF HasData, C!InWindow
  <2>3. seen # {} /\ range.lo < range.hi /\ Mode(setting)' # "none" /\ \A p \in seen : C!Ts(p) >= range.lo
    BY <1>1, <2>1, Zenon DEF ProbeInv
  <2>4. \A p \in owed' : C!Ts(p) >= probe'.oldest
    BY <1>1, <1>2, <2>1, <2>3 DEF OwedInv
  <2>5. probe'.oldest # 0
    BY <2>1, <2>3, Zenon DEF StartInv, ProbeInv, ProbeFindsOldest
  <2>6. 0 < probe'.oldest
    BY <1>1, <1>2, <2>1, <2>5, Times DEF Types
  <2> QED
    BY <1>3, <2>1, <2>2, <2>4, <2>6, Zenon DEF OwedInv
<1>8. CASE ApplyBackfillPolicy
  <2>1. pc = "apply" /\ UNCHANGED <<source, now, setting>> /\ probe.ok
    BY <1>1, <1>8, Zenon DEF ApplyBackfillPolicy, Answered
  <2>2. setting \in Settings /\ Mode(setting)' = Mode(setting)
    BY <1>1, <2>1, Zenon DEF Types
  <2>3. CASE pc' = "down" /\ UNCHANGED <<saved, owed>>
    <3>1. HasData(now)'
      BY <1>3, <2>1, <2>3, Zenon DEF HasData, C!InWindow
    <3> QED
      BY <1>3, <2>3, <3>1, Zenon DEF OwedInv
  <2>4. CASE /\ ~applyPolicy \/ (~saved.legacy /\ saved.policy = policyNs)
             /\ pc' = "init" /\ UNCHANGED <<saved, owed, probe>>
    <3>1. HasData(now)'
      BY <1>3, <2>1, <2>4, Zenon DEF HasData, C!InWindow
    <3>2. Mode(setting) # "none" => 0 < probe.oldest /\ \A p \in owed : C!Ts(p) >= probe.oldest
      BY <1>1, <2>1, <2>4, Zenon DEF OwedInv
    <3>3. applyPolicy
      BY <2>1, <2>2, <3>2, ProbedPolicy
    <3>4. Mode(setting) = "all"
      BY <1>3, <2>2, <2>4, <3>3, PolicyTypes, Zenon
    <3> QED
      BY <1>3, <2>2, <2>4, <3>1, <3>2, <3>4, Zenon DEF OwedInv
  <2>5. CASE /\ applyPolicy /\ saved' = Applied
             /\ (pc' = "init" /\ probe' = probe) \/ pc' = "down"
             /\ owed' = (IF saved.cursor = 0 THEN {} ELSE owed)
                        \cup (IF Promises THEN From(boundaryNs) ELSE {})
    <3>1. /\ saved'.cursor = (IF keepsCursor THEN saved.cursor ELSE boundaryNs)
          /\ saved'.policy = policyNs /\ saved'.legacy = FALSE
      BY <2>5, Zenon DEF Applied
    <3>2. /\ boundaryNs \in Int
          /\ applyPolicy /\ Mode(setting) = "all" => boundaryNs = probe.oldest
      BY <1>1, <2>1, BoundaryTypes, Times
    <3>3. cp = saved
      BY <1>1, <2>1, Zenon DEF Memory
    <3>4. saved.cursor = 0
      BY <1>2, <3>1, <3>2, <3>3 DEF keepsCursor
    <3>5. Promises /\ owed' = From(boundaryNs)
      BY <2>5, <3>4, Zenon
    <3>6. policyNs = BackfillAllNs /\ Mode(setting) = "all"
      BY <2>2, <3>4, <3>5, PolicyTypes, Zenon DEF Promises
    <3>7. boundaryNs = probe.oldest /\ probe.oldest # 0
      BY <2>5, <3>2, <3>6, Zenon DEF applyPolicy
    <3>8. 0 < probe.oldest
      BY <1>1, <1>2, <3>7, Times DEF Types
    <3>9. \A p \in owed' : C!Ts(p) >= probe.oldest
      BY <3>5, <3>7, Zenon DEF From
    <3>10. HasData(now)'
      <4>1. seen # {}
        BY <1>1, <2>1, <3>6, <3>7, Zenon DEF ProbeInv, ProbeFindsOldest
      <4>2. PICK p \in source : C!Ts(p) <= probe.oldest
        BY <1>1, <2>1, <3>6, <4>1, Zenon DEF ProbeInv, ProbeFindsOldest
      <4>3. probe.oldest < now
        BY <1>1, <2>1, Zenon DEF ProbeInv
      <4>4. C!Ts(p) < now
        BY <1>2, <4>2, <4>3
      <4>5. source \cap C!InWindow(0, now) # {}
        BY <1>2, <4>2, <4>4, DataBefore, Zenon
      <4> QED
        BY <2>1, <4>5, Zenon DEF HasData, C!InWindow
    <3> QED
      BY <2>2, <2>5, <3>1, <3>6, <3>8, <3>9, <3>10, Zenon DEF OwedInv
  <2> QED
    BY <1>1, <1>8, <2>3, <2>4, <2>5, ApplyCases, Zenon DEF Saves, Stopped
<1>9. CASE InitCursor
  <2>1. pc = "init" /\ UNCHANGED <<source, now>>
    BY <1>9, Zenon DEF InitCursor
  <2>2. saved' # First
    <3>1. First.cursor \in 1..MaxTime
      BY <1>1, <2>1, FirstCursor, Zenon DEF First
    <3> QED
      BY <3>1, Times
  <2>3. pc' = "down" /\ UNCHANGED <<saved, owed>>
    BY <1>1, <1>9, <2>2, InitCases, Zenon DEF Saves, Stopped
  <2>4. HasData(now)'
    BY <1>3, <2>1, <2>3, Zenon DEF HasData, C!InWindow
  <2> QED
    BY <1>3, <2>3, <2>4, Zenon DEF OwedInv
<1>10. CASE Arrive
  <2>1. UNCHANGED <<saved, now, pc, setting, seen, range, probe>> /\ source \subseteq source'
    BY <1>10, Zenon DEF Arrive
  <2>2. owed' = owed
    BY <1>10, <2>1, Zenon DEF Arrive
  <2>3. HasData(now)'
    BY <1>3, <2>1, <2>2, Zenon DEF HasData, C!InWindow
  <2> QED
    BY <1>1, <2>1, <2>2, <2>3, Zenon DEF OwedInv
<1>11. CASE Tick
  <2>1. UNCHANGED <<saved, owed, source, pc, setting, seen, range, probe>> /\ now' = now + 1
    BY <1>11, Zenon DEF Tick
  <2>2. PICK p \in source : C!Ts(p) < now
    BY <1>2, <1>3, <2>1, DataBefore, Zenon DEF HasData
  <2>3. C!Ts(p) < now' /\ C!Ts(p) >= 0
    BY <1>2, <2>1, <2>2, PointTimes
  <2>4. HasData(now)'
    BY <1>2, <2>1, <2>3, Zenon DEF HasData, C!InWindow
  <2> QED
    BY <1>1, <2>1, <2>4, Zenon DEF OwedInv
<1>12. CASE Import
  <2>1. owed' = {}
    BY <1>2, <1>12, Zenon DEF Import
  <2> QED
    BY <2>1, Zenon
<1>13. CASE AppendBatch \/ SetCursor \/ Commit \/ Wait
  <2>1. pc' = "run"
    BY <1>13, Zenon DEF AppendBatch, SetCursor, Commit, Wait, vars
  <2> QED
    BY <2>1 DEF StartInv, Memory
<1>14. CASE Shutdown
  <2>1. saved'.cursor = cp.cursor /\ pc = "run"
    BY <1>1, <1>14, Zenon DEF Shutdown, Persisted, Types, Checkpoints
  <2> QED
    BY <1>1, <1>2, <2>1 DEF Memory, Types, Checkpoints
<1>15. CASE UNCHANGED vars
  <2>1. UNCHANGED <<saved, owed, source, now, pc, setting, seen, range, probe>>
    BY <1>15, Zenon DEF vars
  <2>2. HasData(now)'
    BY <1>3, <2>1, Zenon DEF HasData, C!InWindow
  <2> QED
    BY <1>1, <2>1, <2>2, Zenon DEF OwedInv
<1> QED
  BY <1>4, <1>5, <1>6, <1>7, <1>8, <1>9, <1>10, <1>11, <1>12, <1>13, <1>14, <1>15, Zenon DEF Next, Start

\* As long as one of the five attempts of every probe succeeds, no point the
\* recorded setting or the cursor promises is ever passed by a cursor, saved or
\* in memory, without being in the WAL: over kills, failed saves, restarts and
\* changes of the setting.  (MCStartup_lost shows that a probe that fails after
\* a kill is enough to lose one.)
THEOREM OwedSafety == ProbesAnswered => (Spec => []NothingOwedSkipped)
<1> SUFFICES ASSUME ProbesAnswered PROVE Spec => []NothingOwedSkipped
  BY Zenon
<1>1. Init => SkipInv
  BY Zenon DEF Init, SkipInv, Answered, OwedInv, CursorInv, NothingOwedSkipped, ProbesAnswered
<1>2. ASSUME StartInv, StartInv', SkipInv, [Next]_vars PROVE SkipInv'
  <2>1. OwedInv'
    BY <1>2, OwedStep, Zenon DEF OwedInv
  <2> QED
    BY <1>2, <2>1, AnsweredStep, CursorStep, SkipStep, Zenon DEF SkipInv
<1>3. SkipInv => NothingOwedSkipped
  BY Zenon DEF SkipInv
<1> QED
  BY <1>1, <1>2, <1>3, StartInvariant, PTL DEF Spec

-----------------------------------------------------------------------------
(***************************************************************************)
(* The start after an upgrade, as long as no probe fails.                  *)
(***************************************************************************)

\* A deployment that synchronised live data has data before the first start.
LEMMA HistoryFound ==
    ASSUME Types, History # {}, History \subseteq source
    PROVE  source \cap C!InWindow(0, now) # {}
<1>1. PICK p \in History : TRUE
  BY Zenon
<1>2. p \in source /\ C!Ts(p) < now /\ source \in SUBSET Points
  BY <1>1, PointTimes, Times DEF Types
<1> QED
  BY <1>2, DataBefore, Zenon

\* A step after the upgrade keeps the invariant, and the saved cursor.
LEMMA UpgradeStep ==
    ASSUME History # {}, StartInv, StartInv', Answered, UpgradeInv, upgrading, [Next]_vars
    PROVE  saved'.cursor >= saved.cursor /\ UpgradeInv'
<1> USE DEF external, probing, history
<1>1. Types /\ Memory /\ ProbeInv
  BY Zenon DEF StartInv
<1>2. /\ History \subseteq source /\ saved.cursor > 0
      /\ saved.legacy \/ saved.policy = policyNs
      /\ pc \in {"bisect", "apply"} /\ Mode(setting) # "none" => seen # {}
      /\ pc \in {"init", "run"} => cp.policy = policyNs /\ ~cp.legacy
  BY Zenon DEF UpgradeInv
<1>3. saved.cursor \in Int /\ cp.cursor \in Int /\ setting \in Settings
  BY <1>1 DEF Types, Checkpoints
<1>4. ASSUME UNCHANGED <<saved, setting>>, source \subseteq source'
      PROVE  /\ saved'.cursor >= saved.cursor
             /\ History \subseteq source' /\ saved'.cursor > 0
             /\ saved'.legacy \/ saved'.policy = policyNs'
             /\ policyNs' = policyNs /\ Mode(setting)' = Mode(setting)
  BY <1>2, <1>3, <1>4, SamePolicy
<1>5. CASE Open \/ Kill \/ SkipProbe
  <2>1. UNCHANGED <<saved, setting, source>>
    BY <1>5, Zenon DEF Open, Kill, SkipProbe
  <2>2. pc' \in {"probe", "down"} \/ (pc' = "apply" /\ Mode(setting) = "none")
    BY <1>5, Zenon DEF Open, Kill, Stopped, SkipProbe
  <2> QED
    BY <1>4, <2>1, <2>2, Zenon DEF UpgradeInv
<1>6. CASE QueryFails
  <2>1. UNCHANGED <<saved, setting, source>> /\ pc' = "probe"
    <3>1. ~Happens("probe")
      BY DEF Happens, Answered
    <3> QED
      BY <1>6, <3>1, Zenon DEF QueryFails
  <2> QED
    BY <1>4, <2>1, Zenon DEF UpgradeInv
<1>7. CASE ProbeOldestData
  <2>1. UNCHANGED <<saved, setting, source>> /\ pc' \in {"bisect", "apply"}
    BY <1>7, Zenon DEF ProbeOldestData
  <2>2. seen' # {}
    BY <1>1, <1>2, <1>7, HistoryFound, Zenon DEF ProbeOldestData
  <2> QED
    BY <1>4, <2>1, <2>2, Zenon DEF UpgradeInv
<1>8. CASE Bisect \/ Converged
  <2>1. /\ UNCHANGED <<saved, setting, source, seen>>
        /\ pc = "bisect" /\ pc' \in {"bisect", "apply"}
    BY <1>8, Zenon DEF Bisect, Converged
  <2> QED
    BY <1>2, <1>4, <2>1, Zenon DEF UpgradeInv
<1>9. CASE ApplyBackfillPolicy
  <2>1. pc = "apply" /\ cp = saved /\ UNCHANGED <<setting, source, upgrading>> /\ probe.ok
    BY <1>1, <1>9, Zenon DEF ApplyBackfillPolicy, Memory, Answered
  <2>2. policyNs' = policyNs
    BY <2>1, SamePolicy, Zenon
  <2>3. applyPolicy
    <3>1. Mode(setting) # "none" => probe.oldest # 0
      BY <1>1, <1>2, <2>1, Zenon DEF ProbeInv, ProbeFindsOldest
    <3> QED
      BY <1>3, <2>1, <3>1, ProbedPolicy, Zenon
  <2>4. CASE /\ ~saved.legacy /\ saved.policy = policyNs
             /\ pc' = "init" /\ UNCHANGED <<saved, cp>>
    BY <1>3, <1>4, <2>1, <2>4, Zenon DEF UpgradeInv
  <2>5. CASE pc' = "down" /\ saved' = saved
    BY <1>4, <2>1, <2>5, Zenon DEF UpgradeInv
  <2>6. CASE /\ saved.legacy \/ saved.policy # policyNs
             /\ saved' = Applied
             /\ pc' = "down" \/ pc' = "init"
    <3>1. saved.legacy
      BY <1>2, <2>6, Zenon
    <3>2. keepsCursor
      BY <2>1, <3>1, Zenon DEF keepsCursor
    <3>3. saved'.cursor = saved.cursor /\ saved'.policy = policyNs /\ saved'.legacy = FALSE
      BY <2>6, <3>2, Zenon DEF Applied
    <3>4. pc' = "init" => cp' = saved'
      BY Zenon DEF StartInv, Memory
    <3> QED
      BY <1>2, <1>3, <2>1, <2>2, <2>6, <3>3, <3>4 DEF UpgradeInv
  <2> QED
    BY <1>1, <1>9, <2>3, <2>4, <2>5, <2>6, ApplyCases, Zenon DEF Saves, Stopped
<1>10. CASE InitCursor
  <2>1. pc = "init" /\ UNCHANGED <<setting, source>>
    BY <1>10, Zenon DEF InitCursor
  <2>2. pc' = "run" /\ UNCHANGED <<saved, cp>>
    BY <1>1, <1>2, <1>3, <1>10, InitCases
  <2> QED
    BY <1>2, <1>4, <2>1, <2>2, Zenon DEF UpgradeInv
<1>11. CASE SetCursor
  <2>1. PICK end \in (cp.cursor + 1)..(now - Watermark) : cp' = [cp EXCEPT !.cursor = end]
    BY <1>11, Zenon DEF SetCursor
  <2>2. /\ pc = "run" /\ pc' = "run" /\ (saved' = Persisted(cp') \/ saved' = saved)
        /\ UNCHANGED <<setting, source>>
    BY <1>11, Zenon DEF SetCursor
  <2>3. /\ cp'.policy = cp.policy /\ cp'.legacy = cp.legacy
        /\ Persisted(cp').policy = cp.policy /\ Persisted(cp').cursor = end
        /\ end \in Int /\ end > cp.cursor
    BY <1>1, <1>3, <2>1, Times DEF Types, Checkpoints, Persisted
  <2>4. saved.cursor <= cp.cursor
    BY <1>1, <2>2, Zenon DEF Memory
  <2>5. policyNs' = policyNs
    BY <2>2, SamePolicy, Zenon
  <2>6. CASE saved' = saved
    BY <1>2, <1>4, <2>2, <2>3, <2>5, <2>6, Zenon DEF UpgradeInv
  <2>7. CASE saved' = Persisted(cp')
    BY <1>2, <1>3, <2>2, <2>3, <2>4, <2>5, <2>7 DEF UpgradeInv
  <2> QED
    BY <2>2, <2>6, <2>7, Zenon
<1>12. CASE Commit \/ Shutdown
  <2>1. /\ pc = "run" /\ saved' = Persisted(cp) /\ UNCHANGED <<setting, source>>
        /\ pc' = "down" \/ UNCHANGED <<pc, cp>>
    BY <1>12, Zenon DEF Commit, Shutdown, Stopped
  <2>2. saved'.cursor = cp.cursor /\ saved'.policy = cp.policy
    BY <1>1, <2>1, Zenon DEF Types, Checkpoints, Persisted
  <2>3. saved.cursor <= cp.cursor /\ policyNs' = policyNs
    BY <1>1, <2>1, SamePolicy, Zenon DEF Memory
  <2> QED
    BY <1>2, <1>3, <2>1, <2>2, <2>3 DEF UpgradeInv
<1>13. CASE Configure
  BY <1>3, <1>13 DEF UpgradeInv, Configure
<1>14. CASE AppendBatch \/ Wait \/ Arrive \/ Import \/ Tick \/ UNCHANGED vars
  <2>1. UNCHANGED <<saved, setting, cp, pc, seen>> /\ source \subseteq source'
    BY <1>14, Zenon DEF AppendBatch, Wait, Arrive, Import, Tick, vars
  <2> QED
    BY <1>2, <1>4, <2>1, Zenon DEF UpgradeInv
<1> QED
  BY <1>5, <1>6, <1>7, <1>8, <1>9, <1>10, <1>11, <1>12, <1>13, <1>14, Zenon DEF Next, Start

\* As long as one of the five attempts of every probe succeeds, the saved cursor
\* never goes back after an upgrade until the setting is changed, however often
\* the sender is killed or restarted.  A deployment that is upgraded has history.
\* (MCStartup_upgrade shows that one failed probe is enough to move it back.)
THEOREM UpgradeSafety == ProbesAnswered /\ History # {} => (Spec => UpgradeNeverRewinds)
<1> SUFFICES ASSUME ProbesAnswered, History # {} PROVE Spec => UpgradeNeverRewinds
  BY Zenon
<1>1. Init => Answered /\ UpgradeInv
  <2> SUFFICES ASSUME Init PROVE Answered /\ UpgradeInv
    BY Zenon
  <2>1. Answered
    BY Zenon DEF Init, Answered, ProbesAnswered
  <2>2. CASE budget["legacy"] > 0
    <3>1. saved.cursor = StartTime - InitLag /\ saved.legacy /\ source = History /\ pc = "down"
      BY <2>2 DEF Init
    <3> QED
      BY <2>1, <3>1, Times DEF UpgradeInv
  <2>3. CASE ~(budget["legacy"] > 0)
    <3>1. ~upgrading
      BY <2>3 DEF Init, NoCheckpoint
    <3> QED
      BY <2>1, <3>1, Zenon DEF UpgradeInv
  <2> QED
    BY <2>2, <2>3, Zenon
<1>2. ASSUME StartInv, StartInv', Answered, UpgradeInv, [Next]_vars
      PROVE  /\ Answered' /\ UpgradeInv'
             /\ [upgrading => saved'.cursor >= saved.cursor]_vars
  <2>1. CASE upgrading
    BY <1>2, <2>1, AnsweredStep, UpgradeStep, Zenon
  <2>2. CASE ~upgrading
    <3>1. ~upgrading'
      BY <1>2, <2>2, Zenon DEF Next, Start, Open, SkipProbe, ProbeOldestData, Bisect, Converged, QueryFails,
           ApplyBackfillPolicy, InitCursor, AppendBatch, SetCursor, Commit, Wait, Shutdown, Kill,
           Configure, Arrive, Import, Tick, vars, history
    <3> QED
      BY <1>2, <2>2, <3>1, AnsweredStep, Zenon DEF UpgradeInv
  <2> QED
    BY <2>1, <2>2, Zenon
<1> QED
  BY <1>1, <1>2, StartInvariant, PTL DEF Spec, UpgradeNeverRewinds
=============================================================================
