--------------------------- MODULE StartupProofs ---------------------------
(***************************************************************************)
(* Proofs about Startup: the bisection of ProbeOldestData ends at the      *)
(* oldest point, and a setting moves the saved cursor back at most once.   *)
(***************************************************************************)
EXTENDS Startup, TLAPS

Checkpoints == [cursor : 0..MaxTime, policy : -1..MaxTime, legacy : BOOLEAN]

Types ==
    /\ now \in StartTime..MaxTime
    /\ bootNow \in 0..now /\ (pc # "down" => StartTime <= bootNow)
    /\ captured \subseteq source /\ owed \subseteq source /\ seen \subseteq source
    /\ source \subseteq Points
    /\ setting \in Settings
    /\ saved \in Checkpoints /\ cp \in Checkpoints
    /\ pc \in {"down", "probe", "bisect", "apply", "init", "run"}
    /\ probe \in [ok : BOOLEAN, oldest : 0..MaxTime]
    /\ range \in [lo : 0..MaxTime, hi : 0..MaxTime]
    /\ budget \in [Events -> Nat] /\ rewinds \in Nat /\ upgrading \in BOOLEAN

\* Until the poller runs the checkpoint in memory is the one in the file, and
\* then it differs by the cursor, which is the later one.
Memory ==
    /\ pc \in {"probe", "bisect", "apply", "init"} => cp = saved
    /\ pc = "run" => /\ 0 < saved.cursor /\ saved.cursor <= cp.cursor
                     /\ cp.policy = saved.policy

\* No point seen is before the interval of the bisection, and there is one
\* before its end.
ProbeInv ==
    /\ pc = "bisect" =>
          /\ Mode(setting) # "none" /\ seen # {}
          /\ range.lo < range.hi /\ range.hi <= now
          /\ HasData(range.hi)
          /\ \A p \in seen : C!Ts(p) >= range.lo
    /\ pc = "apply" => probe.oldest < now
    /\ ProbeFindsOldest

\* Once the cursor has gone back the file has the policy of the setting.
RewindInv ==
    /\ rewinds \in {0, 1}
    /\ rewinds = 1 => saved.policy = policyNs /\ ~saved.legacy

StartInv == Types /\ Memory /\ ProbeInv /\ RewindInv

-----------------------------------------------------------------------------
\* The times and the lags: the lag of a first cursor is at least the watermark
\* and shorter than the time before the first start.
LEMMA Times ==
    /\ StartTime \in Nat /\ 0 < StartTime /\ MaxTime \in Nat /\ StartTime <= MaxTime
    /\ Watermark \in Nat /\ InitLag \in Nat /\ Watermark <= InitLag /\ InitLag < StartTime
<1>1. StartTime \in Nat \ {0} /\ MaxTime \in Nat /\ StartTime <= MaxTime
  BY StartupAssumption, Zenon
<1>2. {Watermark, cfgExportLag, DefaultExportVisibilityLag} \subseteq 0..(StartTime - 1)
  BY StartupAssumption, Zenon
<1> DEFINE S == {Watermark, cfgExportLag, DefaultExportVisibilityLag}
<1>3. \E x \in S : \A y \in S : x >= y
  BY <1>1, <1>2
<1>4. InitLag \in S /\ \A y \in S : InitLag >= y
  BY <1>3, Zenon DEF InitLag, Max
<1> QED
  BY <1>1, <1>2, <1>4

\* The larger of two numbers.
LEMMA MaxOfTwo ==
    ASSUME NEW a \in Int, NEW b \in Int
    PROVE  Max({a, b}) = IF a >= b THEN a ELSE b
<1>1. \E x \in {a, b} : \A y \in {a, b} : x >= y
  OBVIOUS
<1>2. Max({a, b}) \in {a, b} /\ \A y \in {a, b} : Max({a, b}) >= y
  BY <1>1, Zenon DEF Max
<1> QED
  BY <1>2

\* Points have positive times, those of the history before the first start.
LEMMA PointTimes ==
    /\ \A p \in Points : C!Ts(p) \in Nat /\ C!Ts(p) > 0
    /\ History \subseteq Points /\ \A p \in History : C!Ts(p) < StartTime
<1>1. Points \subseteq Nat \X (Nat \ {0}) /\ History \subseteq Points
  BY StartupAssumption, Zenon
<1>2. \A p \in History : p[2] < StartTime
  BY StartupAssumption, Zenon
<1>3. \A p \in Nat \X (Nat \ {0}) : p[2] \in Nat /\ p[2] > 0
  OBVIOUS
<1> QED
  BY <1>1, <1>2, <1>3, Zenon DEF C!Ts

\* What BackfillSpec makes of a setting, and the policy it stands for.
LEMMA SettingTypes ==
    ASSUME setting \in Settings
    PROVE  /\ Mode(setting) \in {"none", "all", "duration"}
           /\ setting.dur \in Nat /\ setting.dur < StartTime
           /\ Mode(setting) = "duration" => setting.dur > 0
<1>1. Settings \subseteq [kind : {"all", "0", "dur"}, dur : 0..(StartTime - 1)]
  BY StartupAssumption, Zenon
<1>2. setting \in [kind : {"all", "0", "dur"}, dur : 0..(StartTime - 1)]
  BY <1>1, Zenon
<1>3. setting.dur \in Nat /\ setting.dur < StartTime
  BY <1>2, Times
<1> QED
  BY <1>2, <1>3, Zenon DEF Mode

\* The policy tells the modes apart.
LEMMA PolicyTypes ==
    ASSUME setting \in Settings
    PROVE  /\ policyNs \in -1..MaxTime
           /\ Mode(setting) = "none" <=> policyNs = BackfillNoneNs
           /\ Mode(setting) = "all" <=> policyNs = BackfillAllNs
<1>1. CASE Mode(setting) = "none"
  BY <1>1, Times DEF policyNs, BackfillNoneNs, BackfillAllNs
<1>2. CASE Mode(setting) = "all"
  BY <1>2, Times DEF policyNs, BackfillNoneNs, BackfillAllNs
<1>3. CASE Mode(setting) = "duration"
  <2>1. policyNs = setting.dur
    BY <1>3, Zenon DEF policyNs
  <2> QED
    BY <1>3, <2>1, Times, SettingTypes DEF BackfillNoneNs, BackfillAllNs
<1> QED
  BY <1>1, <1>2, <1>3, SettingTypes, Zenon

\* A policy is applied if the probe has found a point, or if none is wanted.
LEMMA ProbedPolicy ==
    ASSUME setting \in Settings, probe.ok, Mode(setting) # "none" => probe.oldest # 0
    PROVE  applyPolicy
<1>1. CASE Mode(setting) = "none"
  BY <1>1, Zenon DEF applyPolicy
<1>2. CASE Mode(setting) = "all"
  <2>1. applyPolicy = (probe.ok /\ probe.oldest # 0)
    BY <1>2, Zenon DEF applyPolicy
  <2>2. probe.oldest # 0
    BY <1>2, Zenon
  <2> QED
    BY <2>1, <2>2, Zenon
<1>3. CASE Mode(setting) = "duration"
  <2>1. applyPolicy = (~probe.ok \/ probe.oldest # 0)
    BY <1>3, Zenon DEF applyPolicy
  <2>2. probe.oldest # 0
    BY <1>3, Zenon
  <2> QED
    BY <2>1, <2>2, Zenon
<1> QED
  BY <1>1, <1>2, <1>3, SettingTypes, Zenon

\* The boundary of a policy that is applied is a time, and for "all" it is the
\* time the probe found.
LEMMA BoundaryTypes ==
    ASSUME Types, pc \in {"apply", "init"}
    PROVE  /\ boundaryNs \in 0..MaxTime
           /\ applyPolicy /\ Mode(setting) # "none" => boundaryNs > 0
           /\ applyPolicy /\ Mode(setting) = "all" => boundaryNs = probe.oldest
           /\ boundaryNs > 0 => applyPolicy /\ Mode(setting) # "none"
<1>1. /\ bootNow \in Nat /\ StartTime <= bootNow /\ bootNow <= MaxTime
      /\ probe.oldest \in Nat /\ probe.oldest <= MaxTime
  BY Times DEF Types
<1>2. setting \in Settings
  BY Zenon DEF Types
<1>3. CASE ~applyPolicy \/ Mode(setting) = "none"
  <2>1. boundaryNs = 0
    BY <1>3, Zenon DEF boundaryNs
  <2> QED
    BY <1>3, <2>1, Times
<1>4. CASE applyPolicy /\ Mode(setting) = "all"
  <2>1. boundaryNs = probe.oldest
    BY <1>4, Zenon DEF boundaryNs
  <2>2. probe.oldest # 0
    BY <1>4, Zenon DEF applyPolicy
  <2> QED
    BY <1>1, <1>4, <2>1, <2>2, Times
<1>5. CASE applyPolicy /\ Mode(setting) = "duration"
  <2> DEFINE d == bootNow - setting.dur
  <2>1. boundaryNs = IF probe.ok THEN Max({d, probe.oldest}) ELSE d
    BY <1>5, Zenon DEF boundaryNs
  <2>2. d \in Int /\ d > 0 /\ d <= MaxTime
    BY <1>1, <1>2, SettingTypes, Times
  <2>3. Max({d, probe.oldest}) = IF d >= probe.oldest THEN d ELSE probe.oldest
    BY <1>1, <2>2, MaxOfTwo
  <2> HIDE DEF d
  <2> QED
    BY <1>1, <1>5, <2>1, <2>2, <2>3, Times
<1> QED
  BY <1>2, <1>3, <1>4, <1>5, SettingTypes, Zenon

\* The first cursor is a time.
LEMMA FirstCursor ==
    ASSUME Types, pc = "init"
    PROVE  /\ initCursor \in 1..MaxTime
           /\ Mode(setting) = "all" /\ probe.ok /\ probe.oldest > 0 => initCursor = probe.oldest
<1>1. /\ bootNow \in Nat /\ StartTime <= bootNow /\ bootNow <= MaxTime
      /\ probe.oldest \in Nat /\ probe.oldest <= MaxTime
  BY Times DEF Types
<1>2. boundaryNs \in 0..MaxTime
  BY BoundaryTypes, Zenon
<1>3. initCursor \in {probe.oldest, boundaryNs, bootNow - InitLag}
  BY Zenon DEF initCursor
<1>4. initCursor = probe.oldest \/ initCursor = boundaryNs => initCursor > 0 \/ initCursor = bootNow - InitLag
  BY <1>1, <1>2, Times, Zenon DEF initCursor
<1>5. Mode(setting) = "all" /\ probe.ok /\ probe.oldest > 0 => initCursor = probe.oldest
  BY Zenon DEF initCursor
<1> QED
  BY <1>1, <1>2, <1>3, <1>4, <1>5, Times

-----------------------------------------------------------------------------
(***************************************************************************)
(* The two steps that save the checkpoint during the start.                *)
(***************************************************************************)

\* A save of the checkpoint c, which succeeds, or fails and ends the process.
Saves(c, nextPc) ==
    \/ saved' = c /\ cp' \in Checkpoints /\ cp'.cursor = c.cursor /\ cp'.policy = c.policy
       /\ pc' = nextPc /\ UNCHANGED <<probing, bootNow, budget>>
    \/ saved' \in {saved, c} /\ Stopped /\ budget' \in [Events -> Nat]
       /\ (budget["probe"] = 0 => budget'["probe"] = 0)

\* Two checkpoints with the same fields are the same.
LEMMA SameCheckpoint ==
    ASSUME NEW a \in Checkpoints, NEW b \in Checkpoints,
           a.cursor = b.cursor, a.policy = b.policy, a.legacy = b.legacy
    PROVE  a = b
BY DEF Checkpoints

\* A bounded event happens: the others can happen as often as before.
LEMMA Counts ==
    ASSUME budget \in [Events -> Nat], NEW e \in Events, Happens(e)
    PROVE  /\ budget' \in [Events -> Nat]
           /\ budget["probe"] = 0 => e # "probe" /\ budget'["probe"] = 0
BY DEF Happens, Events

\* SaveDuringStart saves what it is given, and without the mark of an old file.
LEMMA SaveStep ==
    ASSUME Types, NEW c \in Checkpoints, NEW n, SaveDuringStart(c, n)
    PROVE  Saves(Persisted(c), n) /\ Persisted(c) \in Checkpoints
<1>1. /\ Persisted(c) \in Checkpoints
      /\ Persisted(c).cursor = c.cursor /\ Persisted(c).policy = c.policy
  BY Zenon DEF Persisted, Checkpoints
<1>2. CASE cp' = c /\ saved' = Persisted(c) /\ pc' = n /\ UNCHANGED <<probing, bootNow, budget>>
  BY <1>1, <1>2, Zenon DEF Saves
<1>3. CASE Happens("save") /\ saved' \in {saved, Persisted(c)} /\ Stopped
  <2>1. budget' \in [Events -> Nat] /\ (budget["probe"] = 0 => budget'["probe"] = 0)
    BY <1>3, Counts, Zenon DEF Types, Events
  <2> QED
    BY <1>1, <1>3, <2>1, Zenon DEF Saves
<1> QED
  BY <1>1, <1>2, <1>3, Zenon DEF SaveDuringStart

\* The checkpoint ApplyBackfillPolicy saves.
Applied == [cursor |-> IF keepsCursor THEN saved.cursor ELSE boundaryNs,
            policy |-> policyNs, legacy |-> FALSE]

\* What a policy that is applied promises.
Promises ==
    /\ ~saved.legacy /\ policyNs # BackfillNoneNs
    /\ policyNs = BackfillAllNs \/ saved.cursor # 0

\* ApplyBackfillPolicy leaves everything as it is, or saves the new policy.
LEMMA ApplyCases ==
    ASSUME Types, Memory, ApplyBackfillPolicy
    PROVE  \/ /\ ~applyPolicy \/ (~saved.legacy /\ saved.policy = policyNs)
              /\ pc' = "init"
              /\ UNCHANGED <<saved, cp, probing, bootNow, budget, owed, rewinds>>
           \/ /\ applyPolicy /\ (saved.legacy \/ saved.policy # policyNs)
              /\ Applied \in Checkpoints /\ Applied # saved
              /\ Saves(Applied, "init")
              /\ owed' = IF saved' = saved THEN owed
                         ELSE (IF saved.cursor = 0 THEN {} ELSE owed)
                              \cup (IF Promises THEN From(boundaryNs) ELSE {})
              /\ rewinds' = IF saved'.cursor < saved.cursor THEN rewinds + 1 ELSE rewinds
<1>1. pc = "apply" /\ cp = saved /\ saved \in Checkpoints
  BY Zenon DEF ApplyBackfillPolicy, Memory, Types
<1>2. policyNs \in -1..MaxTime /\ boundaryNs \in 0..MaxTime
  BY <1>1, PolicyTypes, BoundaryTypes, Zenon DEF Types
<1>3. CASE ~applyPolicy \/ (~cp.legacy /\ cp.policy = policyNs)
  BY <1>1, <1>3, Zenon DEF ApplyBackfillPolicy
<1>4. CASE ~(~applyPolicy \/ (~cp.legacy /\ cp.policy = policyNs))
  <2> DEFINE c == IF keepsCursor THEN cp ELSE [cp EXCEPT !.cursor = boundaryNs]
  <2>1. c \in Checkpoints /\ c.cursor = IF keepsCursor THEN saved.cursor ELSE boundaryNs
    BY <1>1, <1>2, Zenon DEF Checkpoints
  <2> HIDE DEF c
  <2>2. Recorded(c) = Applied /\ Applied \in Checkpoints
    <3>1. Applied \in Checkpoints /\ Recorded(c) \in Checkpoints
      BY <1>1, <1>2, <2>1, Zenon DEF Recorded, Applied, Checkpoints
    <3>2. /\ Recorded(c).cursor = Applied.cursor
          /\ Recorded(c).policy = Applied.policy /\ Recorded(c).legacy = Applied.legacy
      BY <2>1, Zenon DEF Recorded, Applied, Checkpoints
    <3> QED
      BY <3>1, <3>2, SameCheckpoint, Zenon
  <2>3. Persisted(Applied) = Applied
    <3> DEFINE a == Applied
    <3>1. a \in Checkpoints /\ a.legacy = FALSE
      BY <2>2, Zenon DEF Applied
    <3> HIDE DEF a
    <3>2. /\ Persisted(a) \in Checkpoints /\ Persisted(a).cursor = a.cursor
          /\ Persisted(a).policy = a.policy /\ Persisted(a).legacy = a.legacy
      BY <3>1, Zenon DEF Persisted, Checkpoints
    <3>3. Persisted(a) = a
      BY <3>1, <3>2, SameCheckpoint, Zenon
    <3> QED
      BY <3>3, Zenon DEF a
  <2>4. Applied # saved
    BY <1>1, <1>4 DEF Applied
  <2>5. /\ SaveDuringStart(Recorded(c), "init")
        /\ owed' = IF saved' = saved THEN owed
                   ELSE (IF cp.cursor = 0 THEN {} ELSE owed)
                        \cup (IF Promises THEN From(boundaryNs) ELSE {})
        /\ rewinds' = IF saved'.cursor < saved.cursor THEN rewinds + 1 ELSE rewinds
    BY <1>1, <1>4, Zenon DEF ApplyBackfillPolicy, Promises, c
  <2>6. Saves(Applied, "init")
    BY <2>2, <2>3, <2>5, SaveStep, Zenon
  <2> QED
    BY <1>1, <1>4, <2>2, <2>4, <2>5, <2>6, Zenon
<1> QED
  BY <1>3, <1>4, Zenon

\* The checkpoint with the first cursor.
First == [cursor |-> initCursor, policy |-> saved.policy, legacy |-> FALSE]

\* The end of backfillInit leaves everything as it is, or saves a first cursor.
LEMMA InitCases ==
    ASSUME Types, Memory, InitCursor
    PROVE  \/ /\ saved.cursor # 0 /\ pc' = "run"
              /\ UNCHANGED <<saved, cp, probing, bootNow, budget, owed>>
           \/ /\ saved.cursor = 0 /\ First \in Checkpoints /\ First # saved
              /\ Saves(First, "run")
              /\ owed' = IF saved' # saved THEN owed \cup From(initCursor) ELSE owed
<1>1. pc = "init" /\ cp = saved /\ saved \in Checkpoints
  BY Zenon DEF InitCursor, Memory, Types
<1>2. CASE cp.cursor # 0
  BY <1>1, <1>2, Zenon DEF InitCursor
<1>3. CASE cp.cursor = 0
  <2> DEFINE c == [cp EXCEPT !.cursor = initCursor]
  <2>1. initCursor \in 1..MaxTime
    BY <1>1, FirstCursor, Zenon
  <2>2. initCursor \in 0..MaxTime /\ initCursor # 0
    BY <2>1, Times
  <2>3. c \in Checkpoints /\ Persisted(c) = First /\ First \in Checkpoints
    <3>1. /\ c \in Checkpoints /\ First \in Checkpoints
          /\ c.cursor = First.cursor /\ c.policy = First.policy
      BY <1>1, <2>2, Zenon DEF Checkpoints, First
    <3>2. First.legacy = FALSE
      BY Zenon DEF First
    <3> HIDE DEF c
    <3>3. /\ Persisted(c) \in Checkpoints /\ Persisted(c).cursor = c.cursor
          /\ Persisted(c).policy = c.policy /\ Persisted(c).legacy = FALSE
      BY <3>1, Zenon DEF Persisted, Checkpoints
    <3> QED
      BY <3>1, <3>2, <3>3, SameCheckpoint, Zenon
  <2>4. First # saved
    BY <1>1, <1>3, <2>2 DEF First
  <2>5. /\ SaveDuringStart(c, "run")
        /\ owed' = IF saved' # saved THEN owed \cup From(initCursor) ELSE owed
    BY <1>1, <1>3, Zenon DEF InitCursor
  <2> HIDE DEF c
  <2>6. Saves(First, "run")
    BY <2>3, <2>5, SaveStep, Zenon
  <2> QED
    BY <1>1, <1>3, <2>3, <2>4, <2>5, <2>6, Zenon
<1> QED
  BY <1>2, <1>3, Zenon

-----------------------------------------------------------------------------
(***************************************************************************)
(* Types and the checkpoint in memory.                                     *)
(***************************************************************************)

\* A process that ends leaves nothing in memory.
LEMMA StoppedTypes ==
    ASSUME Types, Stopped
    PROVE  /\ pc' = "down" /\ bootNow' = 0 /\ cp' \in Checkpoints
           /\ probe' \in [ok : BOOLEAN, oldest : 0..MaxTime]
           /\ range' \in [lo : 0..MaxTime, hi : 0..MaxTime] /\ seen' = {}
BY Times DEF Stopped, NoCheckpoint, NoProbe, NoRange, BackfillNoneNs, Checkpoints

\* A save during the start keeps the types.
LEMMA SavesTypes ==
    ASSUME Types, NEW c \in Checkpoints,
           NEW n \in {"init", "run"}, Saves(c, n), pc # "down", now' = now
    PROVE  /\ bootNow' \in 0..now' /\ (pc' # "down" => StartTime <= bootNow')
           /\ seen' \subseteq source
           /\ saved' \in Checkpoints /\ cp' \in Checkpoints
           /\ pc' \in {"down", "init", "run"}
           /\ probe' \in [ok : BOOLEAN, oldest : 0..MaxTime]
           /\ range' \in [lo : 0..MaxTime, hi : 0..MaxTime]
           /\ budget' \in [Events -> Nat]
<1>1. CASE /\ saved' = c /\ cp' \in Checkpoints /\ pc' = n
           /\ UNCHANGED <<probing, bootNow, budget>>
  BY <1>1, Zenon DEF Types, probing
<1>2. CASE saved' \in {saved, c} /\ Stopped /\ budget' \in [Events -> Nat]
  BY <1>2, StoppedTypes, Times DEF Types
<1> QED
  BY <1>1, <1>2, Zenon DEF Saves

\* Every step of the start keeps the types.
LEMMA StartTypes == ASSUME StartInv, Start PROVE Types'
<1> USE DEF external, probing, history
<1>1. Types /\ Memory
  BY Zenon DEF StartInv
<1>2. CASE Open
  BY <1>1, <1>2, Times DEF Types, Open
<1>3. CASE SkipProbe
  BY <1>1, <1>3, Times DEF Types, SkipProbe
<1>4. CASE ProbeOldestData
  <2>1. now \in 0..MaxTime /\ 0 \in 0..MaxTime
    BY <1>1, Times DEF Types
  <2>2. /\ probe' \in [ok : BOOLEAN, oldest : 0..MaxTime]
        /\ range' \in [lo : 0..MaxTime, hi : 0..MaxTime]
    <3>1. \/ range' = [lo |-> 0, hi |-> now] /\ probe' = probe
          \/ range' = range /\ probe' = [ok |-> TRUE, oldest |-> 0]
      BY <1>4, Zenon DEF ProbeOldestData
    <3>2. /\ [lo |-> 0, hi |-> now] \in [lo : 0..MaxTime, hi : 0..MaxTime]
          /\ [ok |-> TRUE, oldest |-> 0] \in [ok : BOOLEAN, oldest : 0..MaxTime]
      BY <2>1, Zenon
    <3>3. /\ range \in [lo : 0..MaxTime, hi : 0..MaxTime]
          /\ probe \in [ok : BOOLEAN, oldest : 0..MaxTime]
      BY <1>1, Zenon DEF Types
    <3> QED
      BY <3>1, <3>2, <3>3, Zenon
  <2>3. seen' \subseteq source /\ pc' \in {"bisect", "apply"}
    BY <1>4, Zenon DEF ProbeOldestData
  <2> QED
    BY <1>1, <1>4, <2>2, <2>3, Zenon DEF Types, ProbeOldestData
<1>5. CASE Bisect
  <2> DEFINE mid == range.lo + (range.hi - range.lo) \div 2
  <2>1. range \in [lo : 0..MaxTime, hi : 0..MaxTime]
    BY <1>1, Zenon DEF Types
  <2>2. mid \in 0..MaxTime
    BY <1>5, <2>1, Times DEF Bisect
  <2>3. \/ range' = [range EXCEPT !.hi = mid]
        \/ range' = [range EXCEPT !.lo = mid]
    BY <1>5, Zenon DEF Bisect
  <2> HIDE DEF mid
  <2>4. range' \in [lo : 0..MaxTime, hi : 0..MaxTime]
    BY <2>1, <2>2, <2>3, Zenon
  <2> QED
    BY <1>1, <1>5, <2>4, Zenon DEF Types, Bisect
<1>6. CASE Converged
  <2>1. probe' \in [ok : BOOLEAN, oldest : 0..MaxTime] /\ range' \in [lo : 0..MaxTime, hi : 0..MaxTime]
    BY <1>1, <1>6, Times DEF Types, Converged, NoRange
  <2> QED
    BY <1>1, <1>6, <2>1, Zenon DEF Types, Converged
<1>7. CASE QueryFails
  <2>1. /\ probe' \in [ok : BOOLEAN, oldest : 0..MaxTime]
        /\ range' \in [lo : 0..MaxTime, hi : 0..MaxTime] /\ seen' = {}
    BY <1>7, Times DEF QueryFails, NoProbe, NoRange
  <2>2. PICK e \in Events : Happens(e)
    BY <1>7, Zenon DEF QueryFails, Events
  <2>3. budget' \in [Events -> Nat]
    BY <1>1, <2>2, Counts, Zenon DEF Types
  <2> QED
    BY <1>1, <1>7, <2>1, <2>3, Zenon DEF Types, QueryFails
<1>8. CASE ApplyBackfillPolicy
  <2>1. UNCHANGED <<external, captured, upgrading>> /\ pc = "apply"
    BY <1>8, Zenon DEF ApplyBackfillPolicy
  <2>2. CASE pc' = "init" /\ UNCHANGED <<saved, cp, probing, bootNow, budget, owed, rewinds>>
    BY <1>1, <2>1, <2>2, Zenon DEF Types
  <2>3. CASE /\ Applied \in Checkpoints /\ Saves(Applied, "init")
             /\ owed' = IF saved' = saved THEN owed
                        ELSE (IF saved.cursor = 0 THEN {} ELSE owed)
                             \cup (IF Promises THEN From(boundaryNs) ELSE {})
             /\ rewinds' = IF saved'.cursor < saved.cursor THEN rewinds + 1 ELSE rewinds
    <3>1. owed' \subseteq source /\ rewinds' \in Nat
      BY <1>1, <2>3 DEF Types, From
    <3> QED
      BY <1>1, <2>1, <2>3, <3>1, SavesTypes, Zenon DEF Types
  <2> QED
    BY <1>1, <1>8, <2>2, <2>3, ApplyCases, Zenon
<1>9. CASE InitCursor
  <2>1. UNCHANGED <<external, captured, rewinds, upgrading>> /\ pc = "init"
    BY <1>9, Zenon DEF InitCursor
  <2>2. CASE pc' = "run" /\ UNCHANGED <<saved, cp, probing, bootNow, budget, owed>>
    BY <1>1, <2>1, <2>2, Zenon DEF Types
  <2>3. CASE /\ First \in Checkpoints /\ Saves(First, "run")
             /\ owed' = IF saved' # saved THEN owed \cup From(initCursor) ELSE owed
    <3>1. owed' \subseteq source
      BY <1>1, <2>3, Zenon DEF Types, From
    <3> QED
      BY <1>1, <2>1, <2>3, <3>1, SavesTypes, Zenon DEF Types
  <2> QED
    BY <1>1, <1>9, <2>2, <2>3, InitCases, Zenon
<1> QED
  BY <1>2, <1>3, <1>4, <1>5, <1>6, <1>7, <1>8, <1>9, Zenon DEF Start

\* Every other step keeps the types.
LEMMA OtherTypes ==
    ASSUME StartInv,
           \/ AppendBatch \/ SetCursor \/ Commit \/ Shutdown \/ Kill
           \/ Configure \/ Arrive \/ Import \/ Tick \/ UNCHANGED vars
    PROVE  Types'
<1> USE DEF external, probing, history
<1>1. Types /\ Memory
  BY Zenon DEF StartInv
<1>2. CASE AppendBatch
  <2>1. captured' \subseteq source
    BY <1>1, <1>2, Zenon DEF AppendBatch, Types
  <2> QED
    BY <1>1, <1>2, <2>1, Zenon DEF Types, AppendBatch
<1>3. CASE SetCursor
  <2>1. PICK end \in (cp.cursor + 1)..(now - Watermark) : cp' = [cp EXCEPT !.cursor = end]
    BY <1>3, Zenon DEF SetCursor
  <2>2. end \in 0..MaxTime
    BY <1>1, <2>1, Times DEF Types, Checkpoints
  <2>3. cp' \in Checkpoints
    BY <1>1, <2>1, <2>2, Zenon DEF Types, Checkpoints
  <2>4. saved' \in Checkpoints
    BY <1>1, <1>3, <2>3, Zenon DEF Types, SetCursor, Persisted, Checkpoints
  <2>5. budget' \in [Events -> Nat]
    BY <1>1, <1>3, Counts, Zenon DEF Types, SetCursor, Events
  <2> QED
    BY <1>1, <1>3, <2>3, <2>4, <2>5, Zenon DEF Types, SetCursor
<1>4. CASE Shutdown
  <2>1. saved' \in Checkpoints
    BY <1>1, <1>4, Zenon DEF Types, Shutdown, Persisted, Checkpoints
  <2>2. budget' \in [Events -> Nat]
    BY <1>1, <1>4, Counts, Zenon DEF Types, Shutdown, Events
  <2>3. Stopped
    BY <1>4, Zenon DEF Shutdown
  <2> QED
    BY <1>1, <1>4, <2>1, <2>2, <2>3, StoppedTypes, Times DEF Types, Shutdown
<1>5. CASE Kill
  <2>1. budget' \in [Events -> Nat]
    BY <1>1, <1>5, Counts, Zenon DEF Types, Kill, Events
  <2>2. Stopped
    BY <1>5, Zenon DEF Kill
  <2> QED
    BY <1>1, <1>5, <2>1, <2>2, StoppedTypes, Times DEF Types, Kill
<1>6. CASE Configure
  <2>1. budget' \in [Events -> Nat]
    BY <1>1, <1>6, Counts, Zenon DEF Types, Configure, Events
  <2> QED
    BY <1>1, <1>6, <2>1, Zenon DEF Types, Configure
<1>7. CASE Arrive
  BY <1>1, <1>7, Zenon DEF Types, Arrive
<1>8. CASE Import
  BY <1>1, <1>8, PointTimes, Zenon DEF Types, Import
<1>9. CASE Tick
  BY <1>1, <1>9, Times DEF Types, Tick
<1>10. CASE UNCHANGED vars
  BY <1>1, <1>10, Zenon DEF Types, vars
<1>11. CASE Commit
  <2>1. saved' \in Checkpoints
    BY <1>1, <1>11, Zenon DEF Types, Commit, Persisted, Checkpoints
  <2> QED
    BY <1>1, <1>11, <2>1, Zenon DEF Types, Commit
<1> QED
  BY <1>2, <1>3, <1>4, <1>5, <1>6, <1>7, <1>8, <1>9, <1>10, <1>11, Zenon

\* Every step keeps the checkpoint in memory and the file together.
LEMMA MemoryStep == ASSUME StartInv, [Next]_vars PROVE Memory'
<1> USE DEF external, probing, history
<1>1. Types /\ Memory
  BY Zenon DEF StartInv
<1>2. CASE Open
  BY <1>2, Zenon DEF Memory, Open
<1>3. CASE SkipProbe \/ ProbeOldestData \/ Bisect \/ Converged \/ QueryFails
  <2>1. /\ pc \in {"probe", "bisect"} /\ pc' \in {"probe", "bisect", "apply"}
        /\ UNCHANGED <<cp, saved>>
    BY <1>3, Zenon DEF SkipProbe, ProbeOldestData, Bisect, Converged, QueryFails
  <2> QED
    BY <1>1, <2>1, Zenon DEF Memory
<1>4. CASE ApplyBackfillPolicy
  <2>1. pc = "apply"
    BY <1>4, Zenon DEF ApplyBackfillPolicy
  <2>2. CASE pc' = "init" /\ UNCHANGED <<saved, cp>>
    BY <1>1, <2>1, <2>2, Zenon DEF Memory
  <2>3. CASE pc' = "down"
    BY <2>3, Zenon DEF Memory
  <2>4. CASE ApplyBackfillPolicy /\ saved' = Applied /\ pc' = "init" /\ pc' # "down"
             /\ ~UNCHANGED <<saved, cp>>
    <3> DEFINE c == IF keepsCursor THEN cp ELSE [cp EXCEPT !.cursor = boundaryNs]
    <3>1. SaveDuringStart(Recorded(c), "init")
      BY <2>4, Zenon DEF ApplyBackfillPolicy
    <3>2. cp' = Recorded(c) /\ saved' = Persisted(Recorded(c))
      BY <2>4, <3>1, Zenon DEF SaveDuringStart, Stopped
    <3>3. c \in Checkpoints
      BY <1>1, <2>1, BoundaryTypes, Zenon DEF Types, Checkpoints
    <3> HIDE DEF c
    <3>4. cp' \in Checkpoints /\ cp'.legacy = FALSE
      BY <1>1, <3>2, <3>3, PolicyTypes, Zenon DEF Types, Recorded, Checkpoints
    <3>5. /\ saved' \in Checkpoints /\ saved'.cursor = cp'.cursor
          /\ saved'.policy = cp'.policy /\ saved'.legacy = FALSE
      BY <3>2, <3>4, Zenon DEF Persisted, Checkpoints
    <3>6. saved' = cp'
      BY <3>4, <3>5, SameCheckpoint, Zenon
    <3> QED
      BY <2>4, <3>6, Zenon DEF Memory
  <2> QED
    BY <1>1, <1>4, <2>2, <2>3, <2>4, ApplyCases, Zenon DEF Saves, Stopped
<1>5. CASE InitCursor
  <2>1. pc = "init" /\ cp = saved
    BY <1>1, <1>5, Zenon DEF InitCursor, Memory
  <2>2. CASE saved.cursor # 0 /\ pc' = "run" /\ UNCHANGED <<saved, cp>>
    BY <1>1, <2>1, <2>2 DEF Memory, Types, Checkpoints
  <2>3. CASE pc' = "down"
    BY <2>3, Zenon DEF Memory
  <2>4. CASE saved' = First /\ pc' = "run" /\ cp'.cursor = First.cursor /\ cp'.policy = First.policy
    <3>1. saved'.cursor \in 1..MaxTime
      BY <1>1, <2>1, <2>4, FirstCursor, Zenon DEF First
    <3> QED
      BY <2>4, <3>1, Times DEF Memory
  <2> QED
    BY <1>1, <1>5, <2>2, <2>3, <2>4, InitCases, Zenon DEF Saves, Stopped
<1>6. CASE SetCursor
  <2>1. PICK end \in (cp.cursor + 1)..(now - Watermark) : cp' = [cp EXCEPT !.cursor = end]
    BY <1>6, Zenon DEF SetCursor
  <2>2. pc = "run" /\ pc' = "run" /\ (saved' = Persisted(cp') \/ saved' = saved)
    BY <1>6, Zenon DEF SetCursor
  <2>3. /\ cp'.cursor = end /\ cp'.policy = cp.policy /\ end \in Int /\ end > cp.cursor
        /\ Persisted(cp').cursor = end /\ Persisted(cp').policy = cp.policy
    BY <1>1, <2>1, Times DEF Types, Checkpoints, Persisted
  <2> QED
    BY <1>1, <2>2, <2>3 DEF Memory, Types, Checkpoints
<1>7. CASE Shutdown \/ Kill
  BY <1>7, Zenon DEF Memory, Shutdown, Kill, Stopped
<1>8. CASE AppendBatch \/ Wait \/ Configure \/ Arrive \/ Import \/ Tick \/ UNCHANGED vars
  <2>1. UNCHANGED <<pc, cp, saved>>
    BY <1>8, Zenon DEF AppendBatch, Wait, Configure, Arrive, Import, Tick, vars
  <2> QED
    BY <1>1, <2>1, Zenon DEF Memory
<1>9. CASE Commit
  <2>1. pc = "run" /\ UNCHANGED <<pc, cp>> /\ saved'.cursor = cp.cursor /\ saved'.policy = cp.policy
    BY <1>1, <1>9, Zenon DEF Commit, Types, Checkpoints, Persisted
  <2> QED
    BY <1>1, <2>1 DEF Memory, Types, Checkpoints
<1> QED
  BY <1>2, <1>3, <1>4, <1>5, <1>6, <1>7, <1>8, <1>9, Zenon DEF Next, Start

-----------------------------------------------------------------------------
(***************************************************************************)
(* The bisection.                                                          *)
(***************************************************************************)

\* There is data before a time if one of the points is.
LEMMA DataBefore ==
    ASSUME NEW S \in SUBSET Points, NEW t
    PROVE  S \cap C!InWindow(0, t) # {} <=> \E p \in S : C!Ts(p) < t
BY PointTimes DEF C!InWindow

\* Every step keeps the bisection around the oldest point.
LEMMA ProbeStep == ASSUME StartInv, [Next]_vars, Types' PROVE ProbeInv'
<1> USE DEF external, probing, history
<1>1. Types /\ ProbeInv
  BY Zenon DEF StartInv
<1>2. source \in SUBSET Points /\ source' \in SUBSET Points /\ source \subseteq source'
  <2>1. source \subseteq Points /\ source' \subseteq Points
    BY <1>1, Zenon DEF Types
  <2>2. source \subseteq source'
    BY Zenon DEF Next, Start, Open, SkipProbe, ProbeOldestData, Bisect, Converged, QueryFails,
           ApplyBackfillPolicy, InitCursor, AppendBatch, SetCursor, Commit, Wait, Shutdown, Kill,
           Configure, Arrive, Import, Tick, vars
  <2> QED
    BY <2>1, <2>2, Zenon
<1>3. CASE SkipProbe
  <2>1. pc' = "apply" /\ Mode(setting)' = "none" /\ probe'.oldest = 0 /\ now' = now
    BY <1>3, Zenon DEF SkipProbe
  <2> QED
    BY <1>1, <2>1, Times DEF ProbeInv, ProbeFindsOldest, Types
<1>4. CASE ProbeOldestData
  <2>1. /\ pc = "probe" /\ Mode(setting)' # "none" /\ source' = source /\ now' = now
        /\ seen' = source \cap C!InWindow(0, now)
    BY <1>4, Zenon DEF ProbeOldestData
  <2>2. now \in Nat /\ now > 0
    BY <1>1, Times DEF Types
  <2>3. CASE HasData(now)
    <3>1. pc' = "bisect" /\ range' = [lo |-> 0, hi |-> now]
      BY <1>4, <2>3, Zenon DEF ProbeOldestData
    <3>2. range'.lo = 0 /\ range'.hi = now
      BY <3>1, Zenon
    <3>3. seen' # {} /\ source' \cap C!InWindow(0, now) # {}
      BY <2>1, <2>3, Zenon DEF HasData
    <3>4. \A p \in seen' : C!Ts(p) >= 0
      BY <1>2, <2>1, PointTimes
    <3>5. HasData(range.hi)'
      BY <3>2, <3>3, Zenon DEF HasData, C!InWindow
    <3> QED
      BY <2>1, <2>2, <3>1, <3>2, <3>3, <3>4, <3>5 DEF ProbeInv, ProbeFindsOldest
  <2>4. CASE ~HasData(now)
    <3>1. pc' = "apply" /\ probe' = [ok |-> TRUE, oldest |-> 0]
      BY <1>4, <2>4, Zenon DEF ProbeOldestData
    <3>2. seen' = {} /\ probe'.oldest = 0
      BY <2>1, <2>4, <3>1, Zenon DEF HasData
    <3> QED
      BY <2>1, <2>2, <3>1, <3>2, Zenon DEF ProbeInv, ProbeFindsOldest
  <2> QED
    BY <2>3, <2>4, Zenon
<1>5. CASE Bisect
  <2> DEFINE mid == range.lo + (range.hi - range.lo) \div 2
  <2>1. /\ pc = "bisect" /\ pc' = "bisect" /\ range.hi - range.lo > 1
        /\ UNCHANGED <<source, seen, now, setting>>
    BY <1>5, Zenon DEF Bisect
  <2>2. /\ Mode(setting) # "none" /\ seen # {} /\ range.hi <= now
        /\ HasData(range.hi) /\ \A p \in seen : C!Ts(p) >= range.lo
    BY <1>1, <2>1, Zenon DEF ProbeInv
  <2>3. range.lo < mid /\ mid < range.hi /\ mid \in Int /\ range \in [lo : 0..MaxTime, hi : 0..MaxTime]
    BY <1>1, <2>1, Times DEF Types
  <2>4. now \in Int
    BY <1>1, Times DEF Types
  <2>5. CASE HasData(mid)
    <3>1. range' = [range EXCEPT !.hi = mid]
      BY <1>5, <2>5, Zenon DEF Bisect
    <3> HIDE DEF mid
    <3>2. range'.lo = range.lo /\ range'.hi = mid
      BY <2>3, <3>1, Zenon
    <3>3. HasData(range.hi)'
      BY <2>1, <2>5, <3>2, Zenon DEF HasData, C!InWindow
    <3> QED
      BY <2>1, <2>2, <2>3, <2>4, <3>2, <3>3, Times DEF ProbeInv, ProbeFindsOldest
  <2>6. CASE ~HasData(mid)
    <3>1. range' = [range EXCEPT !.lo = mid]
      BY <1>5, <2>6, Zenon DEF Bisect
    <3> HIDE DEF mid
    <3>2. range'.lo = mid /\ range'.hi = range.hi
      BY <2>3, <3>1, Zenon
    <3>3. HasData(range.hi)'
      BY <2>1, <2>2, <3>2, Zenon DEF HasData, C!InWindow
    <3>4. \A p \in source : ~(C!Ts(p) < mid)
      BY <1>2, <2>6, DataBefore, Zenon DEF HasData
    <3>5. \A p \in seen' : C!Ts(p) >= mid
      BY <1>1, <1>2, <2>1, <2>3, <3>4, PointTimes DEF Types
    <3> QED
      BY <2>1, <2>2, <2>3, <2>4, <3>2, <3>3, <3>5, Times, Zenon DEF ProbeInv, ProbeFindsOldest
  <2> QED
    BY <2>5, <2>6, Zenon
<1>6. CASE Converged
  <2>1. /\ pc = "bisect" /\ pc' = "apply" /\ range.hi - range.lo <= 1
        /\ probe'.oldest = range.lo /\ UNCHANGED <<source, seen, now, setting>>
    BY <1>6, Zenon DEF Converged
  <2>2. /\ seen # {} /\ range.lo < range.hi /\ range.hi <= now
        /\ HasData(range.hi) /\ \A p \in seen : C!Ts(p) >= range.lo
    BY <1>1, <2>1, Zenon DEF ProbeInv
  <2>3. range.lo \in Int /\ range.hi \in Int /\ now \in Int /\ range.lo >= 0
    BY <1>1, Times DEF Types
  <2>4. PICK p \in source : C!Ts(p) < range.hi
    BY <1>2, <2>2, DataBefore, Zenon DEF HasData
  <2>5. C!Ts(p) <= range.lo /\ range.lo # 0 /\ range.lo < now
    BY <1>2, <2>1, <2>2, <2>3, <2>4, PointTimes
  <2> QED
    BY <2>1, <2>2, <2>5, Zenon DEF ProbeInv, ProbeFindsOldest
<1>7. CASE QueryFails
  <2>1. pc' \in {"probe", "apply"} /\ probe'.ok = FALSE /\ probe'.oldest = 0 /\ now' = now
    BY <1>7, Zenon DEF QueryFails, NoProbe
  <2> QED
    BY <1>1, <2>1, Times DEF ProbeInv, ProbeFindsOldest, Types
<1>8. CASE Arrive \/ Import \/ Tick \/ AppendBatch \/ SetCursor \/ Commit \/ Wait \/ UNCHANGED vars
  <2>1. /\ UNCHANGED <<pc, setting, seen, probe, range>> /\ (now' = now \/ now' = now + 1)
    BY <1>8, Zenon DEF Arrive, Import, Tick, AppendBatch, SetCursor, Commit, Wait, vars
  <2>2. now \in Int /\ probe.oldest \in Int /\ range.hi \in Int
    BY <1>1, Times DEF Types
  <2>3. HasData(range.hi) => HasData(range.hi)'
    BY <1>2, <2>1, Zenon DEF HasData, C!InWindow
  <2>4. CASE pc = "bisect"
    BY <1>1, <2>1, <2>2, <2>3, <2>4 DEF ProbeInv, ProbeFindsOldest
  <2>5. CASE pc = "apply"
    BY <1>1, <1>2, <2>1, <2>2, <2>5 DEF ProbeInv, ProbeFindsOldest
  <2> QED
    BY <2>1, <2>4, <2>5, Zenon DEF ProbeInv, ProbeFindsOldest
<1>9. CASE Open \/ ApplyBackfillPolicy \/ InitCursor \/ Shutdown \/ Kill \/ Configure
  <2>1. pc' \in {"down", "probe", "init", "run"}
    BY <1>9, Zenon DEF Open, ApplyBackfillPolicy, InitCursor, SaveDuringStart, Shutdown, Kill, Stopped, Configure
  <2> QED
    BY <2>1, Zenon DEF ProbeInv, ProbeFindsOldest
<1> QED
  BY <1>3, <1>4, <1>5, <1>6, <1>7, <1>8, <1>9, Zenon DEF Next, Start

-----------------------------------------------------------------------------
(***************************************************************************)
(* How often the cursor goes back.                                         *)
(***************************************************************************)

\* The policy depends on the setting alone.
LEMMA SamePolicy == ASSUME setting' = setting PROVE policyNs' = policyNs
BY Zenon DEF policyNs, Mode

\* Every step keeps the count of rewinds at most one.
LEMMA RewindStep == ASSUME StartInv, [Next]_vars PROVE RewindInv'
<1> USE DEF external, probing, history
<1>1. Types /\ Memory /\ RewindInv
  BY Zenon DEF StartInv
<1>2. CASE ApplyBackfillPolicy
  <2>1. policyNs' = policyNs
    BY <1>2, SamePolicy, Zenon DEF ApplyBackfillPolicy
  <2>2. CASE UNCHANGED <<saved, rewinds>>
    BY <1>1, <2>1, <2>2, Zenon DEF RewindInv
  <2>3. CASE /\ saved.legacy \/ saved.policy # policyNs
             /\ saved' = Applied
             /\ rewinds' = IF saved'.cursor < saved.cursor THEN rewinds + 1 ELSE rewinds
    <3>1. rewinds = 0
      BY <1>1, <2>3, Zenon DEF RewindInv
    <3>2. saved'.policy = policyNs /\ saved'.legacy = FALSE
      BY <2>3, Zenon DEF Applied
    <3> QED
      BY <2>1, <2>3, <3>1, <3>2 DEF RewindInv
  <2>4. CASE /\ saved' = saved
             /\ rewinds' = IF saved'.cursor < saved.cursor THEN rewinds + 1 ELSE rewinds
    <3>1. saved.cursor \in Int
      BY <1>1 DEF Types, Checkpoints
    <3> QED
      BY <2>2, <2>4, <3>1
  <2> QED
    BY <1>1, <1>2, <2>2, <2>3, <2>4, ApplyCases, Zenon DEF Saves
<1>3. CASE InitCursor
  <2>1. policyNs' = policyNs /\ rewinds' = rewinds
    BY <1>3, SamePolicy, Zenon DEF InitCursor
  <2>2. CASE saved' = saved
    BY <1>1, <2>1, <2>2, Zenon DEF RewindInv
  <2>3. CASE saved' = First
    <3>1. saved'.policy = saved.policy /\ saved'.legacy = FALSE
      BY <2>3, Zenon DEF First
    <3> QED
      BY <1>1, <2>1, <3>1, Zenon DEF RewindInv
  <2> QED
    BY <1>1, <1>3, <2>2, <2>3, InitCases, Zenon DEF Saves
<1>4. CASE SetCursor \/ Commit \/ Shutdown
  <2>1. policyNs' = policyNs /\ rewinds' = rewinds /\ pc = "run"
    BY <1>4, SamePolicy, Zenon DEF SetCursor, Commit, Shutdown
  <2>2. CASE saved' = saved
    BY <1>1, <2>1, <2>2, Zenon DEF RewindInv
  <2>3. CASE saved' = Persisted(cp') \/ saved' = Persisted(cp)
    <3>1. PICK c \in Checkpoints : c.policy = cp.policy /\ saved' = Persisted(c)
      <4>1. CASE saved' = Persisted(cp)
        BY <1>1, <4>1, Zenon DEF Types
      <4>2. CASE SetCursor /\ saved' = Persisted(cp')
        <5>1. cp' \in Checkpoints
          BY <4>2, OtherTypes, Zenon DEF Types
        <5>2. cp'.policy = cp.policy
          BY <1>1, <4>2, Zenon DEF SetCursor, Types, Checkpoints
        <5> QED
          BY <4>2, <5>1, <5>2, Zenon
      <4> QED
        BY <1>4, <2>3, <4>1, <4>2, Zenon DEF Commit, Shutdown
    <3>2. saved'.policy = cp.policy /\ saved'.legacy = FALSE
      BY <3>1, Zenon DEF Persisted, Checkpoints
    <3> QED
      BY <1>1, <2>1, <3>2, Zenon DEF RewindInv, Memory
  <2> QED
    BY <1>4, <2>2, <2>3, Zenon DEF SetCursor, Commit, Shutdown
<1>5. CASE Configure
  BY <1>5 DEF RewindInv, Configure
<1>6. CASE \/ Open \/ SkipProbe \/ ProbeOldestData \/ Bisect \/ Converged \/ QueryFails
           \/ AppendBatch \/ Wait \/ Kill \/ Arrive \/ Import \/ Tick \/ UNCHANGED vars
  <2>1. UNCHANGED <<saved, rewinds, setting>>
    BY <1>6, Zenon DEF Open, SkipProbe, ProbeOldestData, Bisect, Converged, QueryFails, AppendBatch,
                Wait, Kill, Arrive, Import, Tick, vars
  <2> QED
    BY <1>1, <2>1, SamePolicy, Zenon DEF RewindInv
<1> QED
  BY <1>2, <1>3, <1>4, <1>5, <1>6, Zenon DEF Next, Start

\* The first start and the start after an upgrade.
LEMMA InitStart == ASSUME Init PROVE StartInv
<1>1. \E b \in Budgets : budget = b
  BY Zenon DEF Init
<1>2. budget \in [Events -> Nat]
  BY <1>1, StartupAssumption, Zenon
<1>3. StartTime - InitLag \in 0..MaxTime /\ 0 \in 0..MaxTime /\ 0 \in -1..MaxTime
  BY Times
<1>4. saved \in Checkpoints /\ cp \in Checkpoints
  <2>1. cp = NoCheckpoint /\ NoCheckpoint \in Checkpoints
    BY <1>3, Zenon DEF Init, NoCheckpoint, BackfillNoneNs, Checkpoints
  <2>2. [cursor |-> StartTime - InitLag, policy |-> BackfillNoneNs, legacy |-> TRUE] \in Checkpoints
    BY <1>3, Zenon DEF BackfillNoneNs, Checkpoints
  <2> QED
    BY <2>1, <2>2, Zenon DEF Init
<1>5. source \subseteq Points /\ upgrading \in BOOLEAN
  BY <1>4, PointTimes, Zenon DEF Init, Checkpoints
<1>6. Types
  <2>1. /\ probe \in [ok : BOOLEAN, oldest : 0..MaxTime]
        /\ range \in [lo : 0..MaxTime, hi : 0..MaxTime]
    BY <1>3, Zenon DEF Init, NoProbe, NoRange
  <2>2. now \in StartTime..MaxTime /\ bootNow \in 0..now
    BY Times DEF Init
  <2> QED
    BY <1>2, <1>4, <1>5, <2>1, <2>2, Zenon DEF Init, Types
<1> QED
  BY <1>6 DEF Init, StartInv, Memory, ProbeInv, ProbeFindsOldest, RewindInv

\* Every step keeps the invariant.
LEMMA NextStart == ASSUME StartInv, [Next]_vars PROVE StartInv'
<1>1. Types'
  <2>1. CASE Wait
    BY <2>1, OtherTypes, Zenon DEF Wait
  <2> QED
    BY <2>1, StartTypes, OtherTypes, Zenon DEF Next
<1> QED
  BY <1>1, MemoryStep, ProbeStep, RewindStep, Zenon DEF StartInv

\* In every reachable state of the sender's start, for any source, settings and
\* failures, the invariant of the probe, the checkpoint and the rewinds holds.
THEOREM StartInvariant == Spec => []StartInv
BY InitStart, NextStart, PTL DEF Spec

\* Every variable has its type, and the poller never starts without a cursor.
THEOREM StartTypeCorrect == Spec => []TypeOK
<1>1. StartInv => TypeOK
  <2> SUFFICES ASSUME StartInv PROVE TypeOK
    BY Zenon
  <2>1. bootNow \in 0..MaxTime
    BY Times DEF StartInv, Types
  <2> QED
    BY <2>1, Zenon DEF StartInv, Types, Memory, TypeOK, Checkpoints
<1> QED
  BY <1>1, StartInvariant, PTL

\* ProbeOldestData returns the time of the oldest point, whatever arrives
\* between the queries of its bisection.
THEOREM ProbeSafety == Spec => []ProbeFindsOldest
<1>1. StartInv => ProbeFindsOldest
  BY Zenon DEF StartInv, ProbeInv
<1> QED
  BY <1>1, StartInvariant, PTL

\* ApplyBackfillPolicy moves the saved cursor back at most once for a setting,
\* over any number of restarts, kills, and failed probes and saves.
THEOREM RewindSafety == Spec => []OneRewindPerSetting
<1>1. StartInv => OneRewindPerSetting
  BY DEF StartInv, RewindInv, OneRewindPerSetting
<1> QED
  BY <1>1, StartInvariant, PTL
=============================================================================
