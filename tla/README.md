# vm-sync in TLA+

TLA+ models of vm-sync, the program that copies the data of one VictoriaMetrics
instance to another over a slow or unreliable link. TLC checks the models on
small instances; TLAPS proves the main safety results about the receiver, the
link, the poller and the start of the sender for every size. The models follow the
Go code under `src/`; `PROJECT.json` maps every definition to the lines it stands for.

## 1. The system

```
source VM -> Poller -> WAL (+ checkpoint) -> Sender -> TCP client
                                                          |   frames
                                                          v   1 ACK byte each
target VM <- Receiver <- HandleFrame calls <- TCP server <-+
               |  last_seq file, dead letter queue
```

| Part | Source | State | Operations |
|---|---|---|---|
| WAL | `internal/wal/wal.go`, `cursor.go` | segment files, checkpoint (cursor, next seq, first segment, acknowledged bytes), in-memory frame index | Open (recovery scan), AppendBatch, SetCursor, Peek/PeekBatch, Commit (removes segments), Close |
| Poller | `internal/sender/poller.go` | streaks that set the window length, prefetch slot, back-pressure state | flush the source, export a window, split it into frames, append them, move the cursor; export the next window ahead |
| Sender | `internal/sender/sender.go` | window of frames being sent | stop-and-wait or pipelined sending, go-back-N, heartbeats |
| TCP client | `internal/transport/tcp_client.go` | one connection | connect, send, wait for an ACK, close |
| TCP server | `internal/transport/tcp_server.go` | connections, running handlers, order of ACKs | read frames, run handlers, write ACKs in order |
| Receiver | `internal/receiver/receiver.go` | last_seq, seqTracker, in-flight counts, dedup window, last_seq file | HandleFrame, restart |
| Receiver DLQ | `internal/receiver/dlq.go` | JSON file | write a refused frame |
| Frame protocol | `internal/protocol` | none | encode, decode, checksum, compression |
| VM client | `internal/vm/client.go` | none | export, import, flush, probe the oldest data |
| Sender process | `cmd/sender/main.go` | back-fill policy (in the checkpoint) | decide where the cursor starts or goes back to |
| Receiver process, configuration, metrics, logger, WAL DLQ, link proxy | | none that the protocol depends on | |

Two orders carry the correctness of the whole. First the WAL, then the cursor:
a window's frames are fsynced before the cursor passes the window. First the
store, then the ACK: a frame is acknowledged only when it is in the target or
in the dead letter queue, and committed in the WAL only when acknowledged. The
result is at-least-once delivery; VictoriaMetrics makes the second copy of a
point harmless.

Four things make this hard to test: crashes between the file-system calls of
one WAL operation, or between two steps of the start; calls of HandleFrame that
run side by side, also for two copies of one frame; frames and ACK bytes of
several connections that are under way at the same time; and a source whose
points arrive late and become visible to an export later still, while the cursor
follows the present and an export of the next window is already running.

## 2. The modules

| Module | Models | Extends |
|---|---|---|
| `WalScan` | the record layout of a segment and the scan `indexSegment`/`resyncRecord` | |
| `Wal` | the WAL with the poller and the sender as its users, crash by crash | `WalScan` |
| `Frame` | frames after Decode, ACK bytes | |
| `FrameHandler` | what the TCP server is promised by its handler (abstract) | `Frame` |
| `Receiver` | HandleFrame in detail | `Frame`, instance of `FrameHandler` |
| `Link` | sender loop, TCP client and server, with `FrameHandler` as the other end | `Frame`, instance of `FrameHandler` |
| `Capture` | what the poller promises to the rest of the sender (abstract) | |
| `SplitFrames` | `splitFrames` and a definition of what its result must be | |
| `Poller` | Run and pollOnce in detail, with the source | `SplitFrames`, instance of `Capture` |
| `Startup` | run and backfillInit over many starts, with `Capture` as the poller | instance of `Capture` |
| `MCWal`, `MCReceiver`, `MCLink`, `MCPoller`, `MCStartup` | values of the constants for TLC | |
| `ReceiverProofs` | what HandleFrame stores and counts | `Receiver`, `TLAPS` |
| `ReceiverSeqProofs` | its sequence numbers, and that it implements `FrameHandler` | `ReceiverProofs` |
| `LinkSenderProofs`, `LinkProofs` | theorems about `Link`: the sender's steps, the server's steps and the results | `Link`, `TLAPS` |
| `PollerProofs` | theorems about `Poller`, and that it implements `Capture` | `Poller`, `TLAPS` |
| `StartupProofs`, `StartupOwedProofs` | theorems about `Startup`: the probe and the rewinds; what is owed | `Startup`, `TLAPS` |

`FrameHandler` is the joint: `Receiver` is proved to implement it, and `Link`
uses only what it promises. `Link`'s WAL is an abstract queue; that the real
one hands out intact frames in seq order after a crash is checked in `Wal`
(`IndexPointsAtRecords`, `SeqsInOrder`), within the limits of section 6.

`Capture` is the joint on the other side: points enter the WAL first, then the
cursor passes them, and no point enters the source behind the cursor. `Poller` is
proved to implement it, and `Startup` builds on it: what the poller does between
two starts is any behaviour `Capture` allows.

### WalScan and Wal

A segment is a sequence of cells; cell `k` of record `r` is `<<r, k>>`. A record
is a length head, a frame header and a payload, so a torn record is simply a
sequence whose cells do not line up. `indexSegment` works on cells the way the
code works on bytes: it reads only the head and the header, skips the
acknowledged prefix, searches for the next record after damage, truncates a torn
tail and refuses damage inside the acknowledged prefix.

`WAL.mu` makes an operation atomic for the other goroutine, not for a crash.
`op` is the operation that holds the lock and its next file-system call:

| Action | Code |
|---|---|
| `Open`, `OpenRefused` | `Open`, `loadCheckpoint`, `scanSegments`, `lastSegmentIdx`; its error return |
| `AppendBatch`, `ensureSpace`, `WriteHead`, `WriteFrame`, `SyncBatch` | the poll round, `AppendBatch`, `ensureSpace` and `rotate`: each write and the one fsync is a step |
| `WriteFails`, the fault branches of `ensureSpace` and `SyncBatch` | its error returns |
| `SetCursor`, `saveCheckpoint` | `SetCursor`, `persistLocked`, `saveCheckpoint`; a failing save may or may not have renamed |
| `Commit`, `Retry`, `RemoveSegment`, `PersistRemoval` | a frame that cannot be read is tried again; `commitLocked`: index, removal loop, immediate (`persistLocked`) or throttled (`persistLockedThrottled`) checkpoint |
| `Close` | orderly shutdown; its checkpoint may fail |
| `Kill` | SIGKILL at any step: the file system keeps what was written, a write may be cut |
| `PowerLoss` | each file keeps what was fsynced and some prefix of the rest; a directory entry changed since the last directory fsync is there or not |

A write may be cut after any of its cells, by a kill, a power failure or an error.
Truncating a torn tail is not fsynced (`indexSegment`), so `undone` keeps the
contents a power failure may bring back.

`disk` (`files`, `dir`, `synced`, `undone`, `durableDir`, `saved`) survives a crash,
`memory` does not. Two history variables are read by no step. `done` holds the
points of committed frames. `flaws` holds the weak spots of the code a behaviour has
run into (section 6); a property that one of them breaks names it as its exception:

| Weak spot | What happened |
|---|---|
| `torn` | a record is cut in its payload; `indexSegment` takes it for whole |
| `offset` | a write failed half-way; `curOffset` is not the end of the file |
| `closed` | opening the next segment failed; `curFile` is a closed handle |
| `lag` | the segment the checkpoint file names was deleted and is created anew |
| `rotate` | a power failure cut a segment that was closed without fsync |
| `acked` | a power failure cut a segment below its acknowledged bytes |

### Receiver

One `Handlers` element is one running call. Every access to shared state is a
step: the atomic `lastSeq`, the tracker behind its mutex, `inflightSeq` behind
`inflightMu` (which `tryCloseGap` keeps until `advanceSeq` has returned:
`InflightMuFree`), the dedup window, the import, the DLQ, the file. The action
names are the functions of `receiver.go`. Import succeeds, is refused for good
(to the DLQ) or ends in a transient error after which the frame may be in the
database or not. The caller may present any frame and call it the first of its
connection, so the results hold for every sender. `Restart` may come anywhere.

### Link

`snd` is the sender goroutine, `wire[c]` and `acks[c]` are all that was written
to connection `c` in the two directions, `read`, `next` and `got` say how far
each side is. `pipeline` is the width of the window: the sender reads it when it
starts, so a restart may change it, and 1 is stop-and-wait. A connection the client has given up can still deliver frames.
Faults are a failed dial, send or wait (of a heartbeat too), a damaged frame or header, a connection
the server drops, a handler that refuses an intact frame, a restart of either
side and a failing PeekBatch of the pipelined loop; `WalRebuilt` is a sender that lost its WAL directory
and reuses seqs for other contents.

### SplitFrames and Poller

A point is `<<series, time>>`, an exported line is the points of one series and is as
long as it has points. The WAL is the set of points it was given and a number of
frames. `round` is how far pollOnce is and what it has in hand:

| Action | Code |
|---|---|
| `Wake` | a tick of `Run`: the back-pressure state follows the disk, a paused poller skips the round |
| `Begin`, `FlushSource` | pollOnce reads the clock; near the present it flushes the source, which may fail every time; `windowEnd` |
| `Consume`, `Export` | the prefetched answer, or `ExportRange`; too long an answer or a failed call resets the window (`ExportFailed`) |
| `Process` | `splitFrames`, the streaks, `launchPrefetch`, `Encode`; a line too large for a frame halves the window |
| `AppendBatch`, `SetCursor` | the two calls of the WAL, each of which may fail; a failed `SetCursor` has moved the cursor in memory |
| `PrefetchExport` | the goroutine of `launchPrefetch` |
| `Write`, `Show`, `Tick` | the source (external): points arrive at most `Watermark` late and become visible at most `VisibilityLag` after their time |
| `Drain`, `Restart` | the sender's commits; a kill or an orderly stop |

`now` moves between any two of these steps, so the clock a round has read is old
when it is used.

### Startup

`saved` is the checkpoint file (cursor, policy, and whether it was written by a
version without back-fill), `cp` its copy in memory, `pc` how far `run` is. A start is
`Open`; the queries of ProbeOldestData (`ProbeOldestData` the first, then `Bisect` and
`Converged`, with the interval in `range`); `ApplyBackfillPolicy`; `InitCursor`. From then
on the poller's `AppendBatch` and `SetCursor` and the sender's `Commit` run; the last two
save the checkpoint. Points
arrive and time passes between any two of them. A query may fail (`QueryFails`), after
which backfillInit probes again from the beginning or gives up; the five attempts are not
counted. The process may be killed anywhere, and each save may fail, after which the
deferred `Close` tries once more. `Configure` is the operator changing `sync.backfill`
while the sender is down, `Import` gives an empty database its history.

Four history variables state what the start is for. `owed` holds the points that a
recorded policy or a saved first cursor promises; a new policy replaces the promise of
one that never got a cursor. A late point older than the first cursor is not promised
(section 6). `seen` is what the first query of a probe saw. `rewinds` counts how often
the saved cursor went back for the present setting, `upgrading` says that the setting is still the one of the upgrade.

## 3. The runs

`tlc -config <cfg> <module>` in this directory.

| Run | Shows |
|---|---|
| `wal_crash` (`MCWal_crash.cfg`) | A kill or a power failure at any file-system call, with a second crash, a failing write, fsync, open, removal or checkpoint, or an orderly shutdown: every index entry is an intact record (`IndexPointsAtRecords`), no point below the cursor is lost (`NoPointLost`), Open does not refuse to start (`RecoverySucceeds`), seqs stay ordered (`SeqsInOrder`), the checkpoint never goes back (`CheckpointMonotone`) and all points are committed in the end (`AllCommitted`). The weak spots a property depends on are part of its statement. `SeqsInOrder` and `CheckpointMonotone` hold with all of them. |
| `receiver_tracker` | Seqs 1, 3 and 4, completing out of order, with gaps closed, jumps passed, pending seqs dropped, a full dedup window, a restart: file, last_seq and tracker are ordered (`SeqsAgree`), no advance is lost (`NoAdvanceLost`), counts are exact (`InflightCounts`), nothing goes back (`SeqsMonotone`), map and order of the dedup window agree (`DedupWindowConsistent`). |
| `receiver_calls` | Two calls, two contents for every seq, a window of one entry, a restart: 0xff means stored (`AckMeansStored`), the window describes stored frames (`DedupMeansStored`), HandleFrame implements `FrameHandler` (`ImplementsFrameHandler`) and every call returns (`CallsReturn`). |
| `link_deliver` | Stop-and-wait and a window of three frames, against a server that runs two handlers, with a heartbeat and one fault anywhere, a lost WAL among them: a committed frame is stored (`CommittedMeansStored`), ACK bytes answer frames in order (`AcksInOrder`), Commit never panics (`CommitNeverPanics`), everything is committed in the end (`AllCommitted`). |
| `poller_poll` | Old and live points of three series, two failed calls or restarts anywhere, and flushes that fail at will: no point is skipped (`NoPointSkipped`), a prefetched window always fits the cursor (`PrefetchFits`), frames are the lines of the answer within the limits (`FramesPartitionLines`), the disk stays near the red mark (`DiskBounded`), the poller implements `Capture` (`ImplementsCapture`) and captures every point that is old enough (`EveryPointCaptured`). |
| `startup_boot` | First starts with and without data, upgrades, restarts and changed settings; with failing probes, or with kills and a failing save: the probe finds the oldest point (`ProbeFindsOldest`), owed points are not skipped (`NothingOwedSkipped`) and are captured in the end (`OwedCaptured`), a setting moves the cursor back at most once (`OneRewindPerSetting`). |
| `wal_torn`, `wal_lag`, `wal_rotate`, `link_first`, `startup_lost`, `startup_upgrade` | expected to be violated, see section 6 |

### Bounds

*WAL.* A segment holds two records (`segSize` 8; a record is a length head of two cells,
a header and a payload of one each), so batches cross segment boundaries, segments are
removed while others hold pending frames, and the current segment is removed too. Two
series and two times give windows of one and two frames, a second export after a crash,
and batches torn between frames. With these sizes a write can be cut before the head,
inside it, between head and header and inside the payload. Every pair of a crash and
another fault is explored. `MaxSeg` and `MaxSeq` are above what the runs reach. `wal_lag`
uses one series and three times: the loss needs a frame behind the two that filled the
removed segment.

*Receiver.* Two concurrent calls are every pairwise interleaving; in
`receiver_tracker` a third call meets what the first two left. `seqJumpLimit`, `seqPendingLimit` and
`dedupWindowCap` are small enough to be exceeded: with seqs 1, 3 and 4, a jump limit of 3
and room for one pending seq, `receiver_tracker` passes a jump (4 from 0), drops the
pending set (3 and 4 above 1), drains it (4 after 3) and both closes a gap and finds one
busy. The proofs remove these bounds
for the properties they cover.

*Link.* One fault at any place and three frames, with a window of one or of all three
(`Pipelines`), more than the server's two handlers; `MaxConns` and `MaxWire` are above
what the sender uses with that many faults.

*Poller.* Base window 4, grown windows of 8 and 16, a lag of 3 and a watermark of 1 in
a run of 18 time units: the cursor starts in history, reaches the present and meets
every regime. The run contains rounds that grow over empty and over sparse windows,
answers that are too long when grown, a line that is too large, prefetches that are
used, fail or are dropped, and both back-pressure marks. Streaks saturate at `MaxStreak`,
from where they no longer change the window (`PollerAssumption`).

*Startup.* Four settings (all, none, a duration, a duration of zero) and a budget for each kind of event, so
that failing probes and kills are explored each with the ordinary events, from an empty
directory and from a checkpoint of an older version. The proofs remove the bounds for what
they cover. A kill together with a failing probe is what `startup_lost` is about.

### Fairness

`Wal!FairSpec`: the two goroutines loop until they are stopped and the process is
started again after a crash (a service manager), so `Open`, `Poller` and `Sender`
are weakly fair. `Receiver!FairSpec`: a goroutine that can run is scheduled, and an
import comes to an end because the HTTP client has a timeout. `Link!FairSpec`: the
same for the sender, the read loops, the ACK writers and the handlers, each
restricted to steps without a fault (`NoFault`): a fault is never owed, and the
number of faults is finite. `Poller!FairSpec`: the ticker fires, calls return (they have
timeouts), the source keeps its deadlines and the sender keeps draining the WAL; a flush
is never owed to succeed. `Startup!FairSpec`: the process is started again, `run` goes
on, the poller polls. Failures and restarts are limited in number. Strong fairness is used nowhere.

## 4. Assumptions

- A checkpoint rename that reaches the disk carries the directory changes made
  before it (an ordered journal); file contents need their own fsync.
- Two payloads under one seq differ in CRC32 (`FrameAssumption`). The code relies
  on it: a collision would be acknowledged as a duplicate.
- In `Wal` the points of the source do not change; `Poller` is about a source that does.
- A point reaches the source at most `Watermark` after its time, and is visible to export
  at most `VisibilityLag` after its time, where `VisibilityLag` is no more than the
  effective lag, max(watermark, export_lag, 15 s) (`PollerAssumption`). The code relies on
  both: a point that is later than that is passed by the cursor.
- The answer to a base window is within `maxExportRespBytes` (section 6).
- In `Poller` and `Startup` what was appended to the WAL stays there; kills, power failures
  and failing calls inside the WAL are `Wal`'s subject.
- The probe sees every point the source has at the time of each query.
- The clock is later than any lag or duration of the configuration: times count from an
  epoch long before the first start (`StartupAssumption`, `PollerAssumption`).
- `Watermark <= VisibilityLag`: a point may come as late as the watermark, and is not
  visible before (`PollerAssumption`).
- The disk usage of the WAL's file system is that of the WAL, and can be read.
- Points are compared as a set: delivering one twice is harmless.
- Delays, back-off, throttles and timeouts are nondeterministic choices.
- The server writes only 0xff and 0x00; the client's branch for another byte does
  what its read error does.

## 5. The proofs

`tlapm <module>.tla` in this directory. The theorems hold for every value of the
constants that satisfies the assumptions of section 4: any number of calls, connections,
frames, points, series and settings, any windows, lags and limits, and any number of
faults and restarts. Each invariant was checked by TLC on the runs' instances before it
was proved. In every proof one lemma per action shows that the action keeps the invariant.

| Module | Theorem | Statement |
|---|---|---|
| `ReceiverProofs` | `StoreInvariant` | `Spec => []StoreInv` |
| | `TypeCorrect` | `Spec => []TypeOK` |
| | `AckSafety` | `Spec => []AckMeansStored` |
| | `DedupSafety` | `Spec => []DedupMeansStored` |
| | `CountSafety` | `Spec => []InflightCounts` |
| `ReceiverSeqProofs` | `SeqsSafety` | `Spec => []SeqsAgree` |
| | `SeqsGrow` | `Spec => SeqsMonotone` |
| | `AdvanceSafety` | `Spec => []NoAdvanceLost` |
| | `WindowSafety` | `Spec => []DedupWindowConsistent` |
| | `HandlerRefines` | `Spec => ImplementsFrameHandler` |
| `LinkProofs` | `LinkInvariant` | `Spec => []LinkInv` |
| | `LinkTypes` | `Spec => []TypeOK` |
| | `CommitSafety` | `Spec => []CommittedMeansStored` |
| | `NoCommitPanic` | `Spec => []CommitNeverPanics` |
| | `AckOrder` | `Spec => []AcksInOrder` |
| | `HeadFirst` | `Pipelines = {1} => (Spec => []FirstFrameIsHead)` |
| `PollerProofs` | `PollInvariant` | `Spec => []PollInv` |
| | `NothingSkipped` | `Spec => []NoPointSkipped` |
| | `PrefetchUsable` | `Spec => []PrefetchFits` |
| | `PollerRefines` | `Spec => ImplementsCapture` |
| `StartupProofs` | `StartInvariant` | `Spec => []StartInv` |
| | `StartTypeCorrect` | `Spec => []TypeOK` |
| | `ProbeSafety` | `Spec => []ProbeFindsOldest` |
| | `RewindSafety` | `Spec => []OneRewindPerSetting` |
| `StartupOwedProofs` | `OwedSafety` | `ProbesAnswered => (Spec => []NothingOwedSkipped)` |
| | `UpgradeSafety` | `ProbesAnswered /\ History # {} => (Spec => UpgradeNeverRewinds)` |

Together the first and the third group say: 0xff means stored, whatever the calls of
HandleFrame do to one another; HandleFrame keeps the contract of `FrameHandler`; and with
any handler that keeps it, what the sender commits is stored. The fourth adds that every
point of the source is in the WAL before the cursor passes it.

*Receiver.* `AckMeansStored` is not inductive: a call that is about to return 0xff says
nothing about the stores. `StoreInv` adds what a call knows at each program counter
(`CallKnows`): from `done` on its frame is stored; a call that returns 0xff has a
stored frame or a heartbeat; before it registers and after its reply a call is not
counted. `DedupMeansStored` is
needed because a hit is answered without an import, and here `FrameAssumption`
turns equal seq and CRC into the same frame. A call's move leaves the others alone
(`Moves`, `KnowStep`), and the stores only grow.

`SeqsAgree` needs a second invariant, `SeqInv`: the value a call is about to advance
last_seq to is at most the tracker's, and the value it is about to write to the file is
at most last_seq. This is what makes it harmless that `load`,
compare-and-swap and the write of the file are separate steps. `SeqsGrow` follows
from the same invariant. `NoAdvanceLost` is inductive beside it: a call that has nothing
in hand leaves both values alone, and a call that gives up its value has stored one as
large. `DedupWindowConsistent` compares two cardinalities; the proof replaces it by
`Orders`, that the FIFO order lists each key of the map once. For the refinement, `Abs`
is the abstract record of a call; a step of a call is an abstract step of that call or
leaves its record alone.

*Link.* `LinkInv` ties the two ends together. `WindowInv` says what the sender's window
is: frames of this WAL in ascending order, those not answered not committed. `SentInv` says
which frames of the connection are not answered yet: exactly those of the window from
`snd.i` on, so the byte the sender reads next belongs to frame `i`. `AckInv` says what the
bytes mean: until a 0x00 they answer the frames in their order. It is needed twice, from
the first byte of every connection and from the byte the sender reads next, because
stop-and-wait goes on after a 0x00 on the same connection. A bad header is the hard case:
its 0x00 is written by the read loop, before those of earlier handlers, so after it a 0xff
may stand in the wrong place. `AckInv` claims nothing beyond the first unread 0x00, and
that is enough: with a window the sender closes the connection at a 0x00, and in
stop-and-wait no earlier handler is running when the next frame is sent.
`HeadFirst` needs `Pipelines = {1}`, a sender that is never configured with a window: with
one it is false (`link_first`).

*Poller.* `NoPointSkipped` needs that a window is `Complete` when it is exported: every
point it will ever have is visible. Either the window ends `ExportLag` before a clock that
was read earlier, or a flush came after the last of its points was due. The prefetched
window has to be complete as well, long before it is used, and to start where the cursor
will be (`SlotInv`). `PowerAssumption` states that powers of two are positive, which the
provers do not know; TLC evaluates it. The refinement follows from the invariant: points arrive no
earlier than `now - Watermark`, and the cursor is never beyond it.

*Startup.* `ProbeInv` is the loop invariant of the bisection: no point seen is before
`lo`, and there is a point before `hi`. It holds although the source changes between the
queries, because points are only added. `RewindInv`: once the cursor has gone back, the
file has the policy of the setting, so the next start leaves it. `NothingOwedSkipped` is
false if a probe fails for good (`startup_lost`), and so is `UpgradeNeverRewinds`
(`startup_upgrade`). `ProbesAnswered` says that one of the five attempts of every probe succeeds,
and both are proved from it: the failing probe is the only way to either loss. `OwedInv`
is the reason: what is owed before there is a cursor is owed to `all`, so the next start
either finds it or has another policy, which withdraws the promise. `UpgradeInv`: after an
upgrade the checkpoint is the old one until it has the setting, and the poller runs only
when it has.

Only model-checked:

- every liveness property (`CallsReturn`, both `AllCommitted`, `EveryPointCaptured`,
  `OwedCaptured`): fairness and ENABLED are outside the prover's reach;
- `FramesPartitionLines`, `DiskBounded` and, of Poller's `TypeOK`, that `frames` is a
  natural number: they depend on what the recursive functions of `SplitFrames` return for
  every answer, which needs induction over sequences. The rest of that `TypeOK` is part of
  `PollInv`;
- all of `Wal`.

## 6. What the code does not do

Six runs are expected to fail; each shows a place where the code departs from what a
comment says of it (`PROJECT.json`, `findings`).

- `wal_torn`: `indexSegment` reads only the head and the header of a record
  (`wal.go:312`), so a record cut in its payload is indexed and not cut off. The next
  append goes behind it. The next scan steps over the length the header states, lands
  inside the record behind it and cuts that off, although the cursor was saved.
- `wal_lag`: a segment is removed before the checkpoint says so (`wal.go:591`). After a
  crash in between, Open finds no segment and resets the acknowledged bytes in memory only.
  If the process ends again before a checkpoint is written, the next Open applies the old
  value to the new file and skips frames that were never sent.
- `wal_rotate`: a batch that crosses a segment boundary fsyncs only the last segment
  (`wal.go:499`). A power failure after the cursor is saved may lose the frames in the first.
- `link_first`: when a send fails inside a window, the window is resent from there
  (`sender.go:231`), so the first frame on the new connection is not the head of the WAL,
  which `receiver.go:52` takes for granted when it closes gaps. No frame is lost by it:
  `CommittedMeansStored` and `AckMeansStored` do not rest on it.
- `startup_lost`: backfillInit records the policy in one save and sets the first cursor in
  another. Killed in between, with a probe that fails at the next start, the sender starts
  from the present although `all` is recorded; later starts find the policy unchanged, so
  the history is never copied.
- `startup_upgrade`: when the first start after an upgrade cannot probe, the policy is not
  recorded, but any other save (a commit, a cursor, the shutdown) writes `backfill_ns`. The
  following start no longer sees an old checkpoint and goes back (`wal.go:666`).

The exceptions in the statements of `wal_crash` are needed. With one of them left out TLC
finds within a minute:

| Exception | Property | Why |
|---|---|---|
| `torn` | `IndexPointsAtRecords`, `AllCommitted` | the fragment is indexed; when it comes to the head of the index, the sender tries it for ever |
| `offset` | `IndexPointsAtRecords`, `AllCommitted` | later records are indexed at the wrong offset until the next start (`wal.go:445`) |
| `closed` | `AllCommitted` | no append succeeds until the next start (`wal.go:502`) |
| `lag` | `RecoverySucceeds` | the stale acknowledged bytes lie beyond a torn record, so Open takes the tear for damage in the acknowledged prefix and refuses (`wal.go:252`) |
| `rotate` | `AllCommitted` | the points `wal_rotate` loses |
| `acked` | `RecoverySucceeds`, `AllCommitted` | frames a kill or a failed fsync left unsynced are committed; a power failure then cuts the file below the acknowledged bytes the checkpoint counts, and Open refuses (`wal.go:582`) |

`NoPointLost` holds with `offset` and with `closed`: both last until the next start, which
finds everything the cursor has passed.

One departure of the poller lies outside its bounds. With `maxExportRespBytes = 5`
`poller_poll` violates `EveryPointCaptured`: a base window whose answer is too long is
retried unchanged, because a failed export resets the window to the base and clears the
halving (`poller.go:344`), while `client.go:93` expects the caller to shrink it.

The proof of `OwedSafety` met one more. The first cursor may be later than
`now - Watermark`: with `all` it is the time of the oldest point, and a database may hold
only recent ones; with a duration shorter than the watermark it is that (`main.go:206-212`). A
late point that is older than this cursor is never exported. `Startup` does not count it as
owed.

Two more were seen while reading: `sync.backfill: 0d` is accepted and means all history
(`config.go:467`); and when `SetCursor` cannot save, the comment says the cursor has not
moved (`poller.go:377`), but in memory it has. `Poller` models the latter, and shows that
nothing depends on it.

## 7. Not modelled

- *Poller*: a failing `statfs`, which the code takes for an empty disk; the 5 s delay of
  the degraded state, which is any delay in the model.
- *WAL*: a failing truncation, open or removal inside `Open`. It ends the start with an
  error, and the next start finds the same files, or some of the torn tails already cut.
- *Relay*: `Append`, `AppendEncoded` and the receiver's relay branch, which
  `cmd/receiver` does not switch on.
- *Receiver's disk*: no power failure; the DLQ file's missing fsync is a listed hazard.
- `MaxConns` of the server; gzip and zstd.
- `MoveToDLQ` and the WAL's DLQ (no caller); configuration, metrics, logging, wiring
  and the benchmark proxy (no state the protocol depends on).

## 8. Plan

1. Proofs about `Wal`: `SeqsInOrder`, `CheckpointMonotone`, and `IndexPointsAtRecords`
   outside the weak spots.
2. The server's connection limit, the relay branch and the DLQ's durability.
