-------------------------------- MODULE Wal --------------------------------
(***************************************************************************)
(* The segmented write-ahead log of vm-sync (internal/wal), driven by its  *)
(* two users: the poller goroutine, which appends the frames of a time     *)
(* window with AppendBatch and then moves the cursor with SetCursor, and   *)
(* the sender goroutine, which commits the oldest pending frame once it is *)
(* acknowledged.  WAL.mu makes each operation atomic for the other user,   *)
(* but not for a crash: an operation is a series of file-system calls, and *)
(* each call is a step, between which the process can be killed or the     *)
(* machine can lose power.                                                 *)
(*                                                                         *)
(* A point is <<series, time>>.  An exported window has one line per       *)
(* series, holding the points of that series in the window, and every line *)
(* makes a frame of its own.                                               *)
(***************************************************************************)
EXTENDS WalScan, FiniteSets

CONSTANTS
    Points,     \* the points of the source, pairs <<series, time>>
    MaxTs,      \* bound: the end of the last window the poller exports
    BatchMax,   \* bound: the longest window of one poll, in time units
    segSize,    \* cells a segment may hold
    MaxSeg,     \* bound: the highest segment number
    MaxSeq,     \* bound: the highest frame sequence number
    Budgets     \* bound: sets of faults, as fault kind -> how many of that kind

\* The ways a process ends, and the file-system calls that can fail.
FaultKinds == {"kill", "power", "shutdown", "close", "write", "sync", "open", "remove", "checkpoint"}

ASSUME WalAssumption ==
    /\ Points \subseteq Nat \X (0..(MaxTs - 1))
    /\ BatchMax \in Nat \ {0}
    /\ RecordLen <= segSize
    /\ MaxSeg \in Nat /\ MaxSeq \in Nat
    /\ Budgets \subseteq [FaultKinds -> Nat]

VARIABLES
    files,      \* segment number -> cells of the file with that name
    dir,        \* names of the segments in the directory
    synced,     \* segment number -> cells of it that fsync made durable
    undone,     \* segment number -> contents before a truncation not yet durable
    durableDir, \* names in the directory as of its last fsync
    saved,      \* the checkpoint file
    up,         \* the process runs and has opened the WAL
    cp,         \* WAL.cp, the checkpoint in memory
    index,      \* WAL.index, entries [seg, offset, seq]
    acked,      \* WAL.acked, length of the confirmed prefix of index
    curSeg, curFile, curOffset,
    op,         \* the operation that holds WAL.mu and its next step
    window,     \* poller: end of the window whose frames are appended, or 0
    faults,     \* fault kind -> faults of that kind still to come
    done,       \* history: points of the committed frames
    flaws       \* history: the weak spots of the code that were hit so far

disk == <<files, dir, synced, undone, durableDir, saved>>
memory == <<cp, index, acked, curSeg, curFile, curOffset>>
vars == <<disk, up, memory, op, window, faults, done, flaws>>

Segs == 0..MaxSeg

Idle == [pc |-> "idle", batch |-> <<>>, end |-> 0]

Fault(kind) ==
    /\ faults[kind] > 0
    /\ faults' = [faults EXCEPT ![kind] = @ - 1]

(***************************************************************************)
(* The weak spots.  No step depends on flaws; the properties say which of  *)
(* them break what.                                                        *)
(*   torn    a record is cut in its payload: indexSegment reads only the   *)
(*           length head and the frame header and takes it for whole       *)
(*   offset  a write failed half-way: curOffset is not the end of the file *)
(*   closed  opening the next segment failed: curFile is a closed handle   *)
(*   lag     the segment that the checkpoint file names was deleted and is *)
(*           created anew, and the file still counts acknowledged bytes    *)
(*   rotate  a power failure cut a segment that was closed without fsync   *)
(*   acked   a power failure cut a segment below the acknowledged bytes    *)
(***************************************************************************)
Flaws == {"torn", "offset", "closed", "lag", "rotate", "acked"}

Hit(flaw, condition) == IF condition THEN {flaw} ELSE {}

-----------------------------------------------------------------------------
(***************************************************************************)
(* Recovery: what Open makes of the files (scanSegments, indexSegment).    *)
(***************************************************************************)
Ascending(S) == SetToSortSeq(S, <)

Alive == {s \in dir : s >= saved.SegStart}

SegStartOnOpen == IF Alive = {} THEN saved.SegStart ELSE Min(Alive)

\* Mutant: the acknowledged bytes of a deleted segment are kept.
AckedBytesOnOpen_Stale == saved.AckedBytes

\* The acknowledged bytes count only for the segment the checkpoint names.
AckedBytesOnOpen == IF saved.SegStart \in Alive THEN saved.AckedBytes ELSE 0

Scan(s) == indexSegment(files[s], IF s = SegStartOnOpen THEN AckedBytesOnOpen ELSE 0)

\* The seq in the frame header at offset o.
SeqAt(s, o) == files[s][o + 1][1].seq

scanSegments ==
    LET segs == Ascending(Alive)
        entries(s) ==
            LET offs == Scan(s).offs
            IN  [i \in DOMAIN offs |-> [seg |-> s, offset |-> offs[i], seq |-> SeqAt(s, offs[i])]]
    IN  FlattenSeq([i \in DOMAIN segs |-> entries(segs[i])])

\* The seqs of the frames the scan finds.
ScannedSeqs == UNION {{SeqAt(s, o) : o \in Range(Scan(s).offs)} : s \in Alive}

\* Mutant: the counter of the checkpoint, which lags behind the frames.
NextSeqOnOpen_Saved == Max({saved.NextSeq, 1})

\* Mutant: the counter of the frames, which are gone when all are committed.
NextSeqOnOpen_Scanned == Max({1} \cup {n + 1 : n \in ScannedSeqs})

NextSeqOnOpen == Max({saved.NextSeq, 1} \cup {n + 1 : n \in ScannedSeqs})

lastSegmentIdx == IF Alive = {} THEN saved.SegStart ELSE Max(Alive)

ScanSucceeds == \A s \in Alive : Scan(s).ok

\* The segments below the checkpoint's are removed first; there are none, see
\* RecoverySucceeds.  Torn tails are cut off, without an fsync.
Open ==
    /\ ~up
    /\ ScanSucceeds
    /\ lastSegmentIdx \in Segs
    /\ up' = TRUE
    /\ cp' = [saved EXCEPT !.SegStart = SegStartOnOpen,
                           !.AckedBytes = AckedBytesOnOpen,
                           !.NextSeq = NextSeqOnOpen]
    /\ index' = scanSegments
    /\ acked' = 0
    /\ files' = [s \in Segs |-> CASE s \in Alive         -> SubSeq(files[s], 1, Scan(s).size)
                                    [] s = lastSegmentIdx -> <<>>
                                    [] OTHER              -> files[s]]
    /\ synced' = [s \in Segs |-> Min({synced[s], Len(files'[s])})]
    /\ undone' = [s \in Segs |-> IF s \notin Alive THEN {}
                                 ELSE IF files'[s] # files[s] THEN undone[s] \cup {files[s]}
                                 ELSE undone[s]]
    /\ dir' = Alive \cup {lastSegmentIdx}
    /\ curSeg' = lastSegmentIdx
    /\ curFile' = "open"
    /\ curOffset' = Len(files'[lastSegmentIdx])
    /\ flaws' = flaws \cup Hit("lag", Alive = {} /\ saved.AckedBytes > 0)
    /\ UNCHANGED <<durableDir, saved, op, window, faults, done>>

\* indexSegment refuses the oldest segment, the first it scans: the process
\* ends with an error, and so does every later start.
OpenRefused ==
    /\ ~up
    /\ ~ScanSucceeds
    /\ UNCHANGED vars

-----------------------------------------------------------------------------
(***************************************************************************)
(* The poller: AppendBatch of the window [cursor, end), then SetCursor.    *)
(***************************************************************************)
Export(start, end) ==
    LET exported == {p \in Points : p[2] \in start..(end - 1)}
        series == Ascending({p[1] : p \in exported})
    IN  [i \in DOMAIN series |-> {p \in exported : p[1] = series[i]}]

AppendBatch ==
    /\ up /\ op = Idle /\ window = 0
    /\ \E end \in (cp.CursorNs + 1)..Min({cp.CursorNs + BatchMax, MaxTs}) :
          LET batch == Export(cp.CursorNs, end)
          IN  /\ cp.NextSeq + Len(batch) <= MaxSeq + 1
              /\ IF batch = <<>>
                 THEN window' = end /\ UNCHANGED op
                 ELSE op' = [pc |-> "space", batch |-> batch, end |-> end] /\ UNCHANGED window
    /\ UNCHANGED <<disk, up, memory, faults, done, flaws>>

\* Mutant: the record is written as long as the segment is not over its size.
Fits_NoNeed == curOffset <= segSize

Fits == curOffset + RecordLen <= segSize

\* Mutant: the file that commit closed with its segment is not opened again.
NeedsFile_NotNil == curFile = "open" /\ ~Fits

\* There is no current file, or no room in it.
NeedsFile == curFile = "nil" \/ (curFile = "open" /\ ~Fits)

\* ensureSpace: keep the current segment, or (re)open the next one.
ensureSpace ==
    /\ up /\ op.pc = "space"
    /\ \/ /\ curFile = "open" /\ Fits
          /\ op' = [op EXCEPT !.pc = "head"]
          /\ UNCHANGED <<disk, memory, faults, flaws>>
       \/ /\ NeedsFile
          /\ LET s == IF curFile = "nil" THEN curSeg ELSE curSeg + 1
             IN  /\ s \in Segs
                 /\ curSeg' = s
                 /\ \/ /\ dir' = dir \cup {s}
                       /\ files' = IF s \in dir THEN files ELSE [files EXCEPT ![s] = <<>>]
                       /\ synced' = IF s \in dir THEN synced ELSE [synced EXCEPT ![s] = 0]
                       /\ undone' = IF s \in dir THEN undone ELSE [undone EXCEPT ![s] = {}]
                       /\ curFile' = "open"
                       /\ curOffset' = Len(files'[s])
                       /\ op' = [op EXCEPT !.pc = "head"]
                       /\ UNCHANGED <<faults, flaws>>
                    \/ /\ Fault("open")
                       /\ curFile' = IF curFile = "nil" THEN "nil" ELSE "closed"
                       /\ op' = Idle
                       /\ flaws' = flaws \cup Hit("closed", curFile = "open")
                       /\ UNCHANGED <<dir, files, synced, undone, curOffset>>
          /\ UNCHANGED <<durableDir, saved, cp, index, acked>>
       \/ /\ curFile # "open" /\ ~NeedsFile     \* Close and Write of a closed file fail
          /\ op' = Idle
          /\ UNCHANGED <<disk, memory, faults, flaws>>
    /\ UNCHANGED <<up, window, done>>

NewRecord == [seq |-> cp.NextSeq, data |-> Head(op.batch)]

\* The file after a write that added cells first..last of the new record.
Written(first, last) ==
    [files EXCEPT ![curSeg] = @ \o SubSeq(Record(NewRecord), first, last)]

\* The first of the two writes of a record: its length head.
WriteHead ==
    /\ up /\ op.pc = "head"
    /\ files' = Written(1, recordHeadLen)
    /\ op' = [op EXCEPT !.pc = "frame"]
    /\ UNCHANGED <<dir, synced, undone, durableDir, saved, up, memory, window, faults, done, flaws>>

\* The second write, and the bookkeeping that follows it.
WriteFrame ==
    /\ up /\ op.pc = "frame"
    /\ files' = Written(recordHeadLen + 1, RecordLen)
    /\ index' = Append(index, [seg |-> curSeg, offset |-> curOffset, seq |-> cp.NextSeq])
    /\ curOffset' = curOffset + RecordLen
    /\ cp' = [cp EXCEPT !.NextSeq = @ + 1]
    /\ op' = [op EXCEPT !.batch = Tail(@), !.pc = IF Len(op.batch) = 1 THEN "sync" ELSE "space"]
    /\ UNCHANGED <<dir, synced, undone, durableDir, saved, up, acked, curSeg, curFile, window, faults, done, flaws>>

\* How many cells of the record being written a torn write can leave.
TornWrites ==
    CASE op.pc = "head"  -> 0..(recordHeadLen - 1)
      [] op.pc = "frame" -> recordHeadLen..(RecordLen - 1)
      [] OTHER           -> {}

Torn(n) == Written(IF op.pc = "head" THEN 1 ELSE recordHeadLen + 1, n)

\* A write fails (disk full) after n cells: AppendBatch returns the error.
WriteFails ==
    /\ up /\ Fault("write")
    /\ \E n \in TornWrites :
          /\ files' = Torn(n)
          /\ flaws' = flaws \cup Hit("offset", n > 0) \cup Hit("torn", n >= ReadLen)
    /\ op' = Idle
    /\ UNCHANGED <<dir, synced, undone, durableDir, saved, up, memory, window, done>>

\* One fsync, of the current segment, ends the batch.
SyncBatch ==
    /\ up /\ op.pc = "sync"
    /\ \/ /\ synced' = [synced EXCEPT ![curSeg] = Len(files[curSeg])]
          /\ undone' = [undone EXCEPT ![curSeg] = {}]
          /\ window' = op.end
          /\ UNCHANGED faults
       \/ /\ Fault("sync")
          /\ UNCHANGED <<synced, undone, window>>
    /\ op' = Idle
    /\ UNCHANGED <<files, dir, durableDir, saved, up, memory, done, flaws>>

(***************************************************************************)
(* saveCheckpoint: tmp, fsync, rename, fsync of the directory.  When it    *)
(* fails, the rename may or may not have happened.  A rename that reaches  *)
(* the disk carries the directory changes made before it.                  *)
(***************************************************************************)
saveCheckpoint(c) ==
    \/ saved' = c /\ durableDir' = dir /\ UNCHANGED faults
    \/ /\ Fault("checkpoint")
       /\ \/ UNCHANGED <<saved, durableDir>>
          \/ saved' = c /\ durableDir' = dir

SetCursor ==
    /\ up /\ op = Idle /\ window # 0
    /\ cp' = [cp EXCEPT !.CursorNs = window]
    /\ saveCheckpoint(cp')
    /\ window' = 0
    /\ UNCHANGED <<files, dir, synced, undone, up, index, acked, curSeg, curFile, curOffset, op, done, flaws>>

-----------------------------------------------------------------------------
(***************************************************************************)
(* The sender: Commit of the oldest pending frame, which it has read with  *)
(* Peek and for which it got the acknowledgement.                          *)
(***************************************************************************)
Pending == SubSeq(index, acked + 1, Len(index))

\* Peek returns the frame of entry e intact.
Readable(e) == e.seg \in dir /\ FrameAt(files[e.seg], e.offset)

PointsOf(e) == RecordAt(files[e.seg], e.offset).data

\* Mutant: off by one, the last pending frame of the segment is overlooked.
SegDone_OffByOne(n, segStart) == n + 1 >= Len(index) \/ index[n + 2].seg # segStart

\* The oldest segment holds no pending frame once n entries are confirmed.
SegDone(n, segStart) == n >= Len(index) \/ index[n + 1].seg # segStart

Commit ==
    /\ up /\ op = Idle
    /\ Pending # <<>> /\ Readable(Head(Pending))
    /\ done' = done \cup PointsOf(Head(Pending))
    /\ acked' = acked + 1
    /\ cp' = [cp EXCEPT !.AckedBytes = Head(Pending).offset + RecordLen]
    /\ IF SegDone(acked + 1, cp.SegStart)
       THEN op' = [op EXCEPT !.pc = "remove"] /\ UNCHANGED <<saved, durableDir, faults>>
       ELSE /\ UNCHANGED op
            /\ \/ saveCheckpoint(cp')
               \/ UNCHANGED <<saved, durableDir, faults>>   \* throttled
    /\ UNCHANGED <<files, dir, synced, undone, up, index, curSeg, curFile, curOffset, window, flaws>>

\* The frame cannot be read, or the receiver rejects its bytes: try again.
Retry ==
    /\ up /\ op = Idle
    /\ Pending # <<>> /\ ~Readable(Head(Pending))
    /\ UNCHANGED vars

\* One turn of the loop that deletes confirmed segments.
RemoveSegment ==
    /\ up /\ op.pc = "remove"
    /\ \/ LET s == cp.SegStart
              rest == Pending
          IN  /\ s + 1 \in Segs
              /\ dir' = dir \ {s}
              /\ cp' = [cp EXCEPT !.SegStart = s + 1, !.AckedBytes = 0]
              /\ index' = rest
              /\ acked' = 0
              /\ IF s = curSeg
                 THEN curFile' = "nil" /\ curSeg' = curSeg + 1 /\ curOffset' = 0
                 ELSE UNCHANGED <<curFile, curSeg, curOffset>>
              /\ IF rest # <<>> /\ rest[1].seg # s + 1
                 THEN UNCHANGED op
                 ELSE op' = [op EXCEPT !.pc = "persist"]
              /\ UNCHANGED faults
       \/ /\ Fault("remove")
          /\ op' = Idle
          /\ UNCHANGED <<dir, memory>>
    /\ UNCHANGED <<files, synced, undone, durableDir, saved, up, window, done, flaws>>

\* A deleted segment is followed by an immediate checkpoint.
PersistRemoval ==
    /\ up /\ op.pc = "persist"
    /\ saveCheckpoint(cp)
    /\ op' = Idle
    /\ UNCHANGED <<files, dir, synced, undone, up, memory, window, done, flaws>>

-----------------------------------------------------------------------------
(***************************************************************************)
(* The end of the process, orderly (Close) or not.                         *)
(***************************************************************************)
NoCheckpoint == [CursorNs |-> 0, NextSeq |-> 0, SegStart |-> 0, AckedBytes |-> 0]

\* What a process that is not running has in memory.
Stopped ==
    /\ up' = FALSE
    /\ cp' = NoCheckpoint
    /\ index' = <<>>
    /\ acked' = 0
    /\ curSeg' = 0 /\ curFile' = "nil" /\ curOffset' = 0
    /\ op' = Idle
    /\ window' = 0

\* Both goroutines have returned; the last checkpoint is written, or that fails.
Close ==
    /\ up /\ op = Idle
    /\ \/ Fault("shutdown") /\ saved' = cp /\ durableDir' = dir
       \/ Fault("close") /\ UNCHANGED <<saved, durableDir>>
    /\ Stopped
    /\ UNCHANGED <<files, dir, synced, undone, done, flaws>>

\* SIGKILL: the file system keeps what was written, a write may be cut short.
Kill ==
    /\ up /\ Fault("kill")
    /\ \/ UNCHANGED <<files, flaws>>
       \/ \E n \in TornWrites : files' = Torn(n) /\ flaws' = flaws \cup Hit("torn", n >= ReadLen)
    /\ Stopped
    /\ UNCHANGED <<dir, synced, undone, durableDir, saved, done>>

\* What a power failure leaves of a segment: what was fsynced and any prefix of
\* the rest, or a tail that was cut off.
Survivors(s) ==
    UNION {{SubSeq(f, 1, n) : n \in synced[s]..Len(f)} : f \in {files[s]} \cup undone[s]}

\* Power failure: an entry of the directory that changed since the directory
\* was last fsynced is there or not.
PowerLoss ==
    /\ Fault("power")
    /\ \E undecided \in SUBSET SymDiff(dir, durableDir) :
          LET left == (dir \cap durableDir) \cup undecided
          IN  \E content \in {f \in [left -> UNION {Survivors(s) : s \in left}] :
                                  \A s \in left : f[s] \in Survivors(s)} :
                 /\ dir' = left
                 /\ durableDir' = left
                 /\ files' = [s \in Segs |-> IF s \in left THEN content[s] ELSE <<>>]
                 /\ flaws' = flaws
                        \cup Hit("torn", \E s \in left : CutInPayload(content[s]))
                        \cup Hit("rotate", \E s \in left, t \in dir : s < t /\ Len(content[s]) < Len(files[s]))
                        \cup Hit("acked", \E s \in left : s = saved.SegStart /\ Len(content[s]) < saved.AckedBytes)
    /\ synced' = [s \in Segs |-> Len(files'[s])]
    /\ undone' = [s \in Segs |-> {}]
    /\ Stopped
    /\ UNCHANGED <<saved, done>>

-----------------------------------------------------------------------------
\* An empty directory, before the first start.
Init ==
    /\ files = [s \in Segs |-> <<>>]
    /\ dir = {}
    /\ synced = [s \in Segs |-> 0]
    /\ undone = [s \in Segs |-> {}]
    /\ durableDir = {}
    /\ saved = NoCheckpoint
    /\ up = FALSE
    /\ cp = NoCheckpoint
    /\ index = <<>>
    /\ acked = 0
    /\ curSeg = 0 /\ curFile = "nil" /\ curOffset = 0
    /\ op = Idle
    /\ window = 0
    /\ faults \in Budgets
    /\ done = {} /\ flaws = {}

Poller == AppendBatch \/ ensureSpace \/ WriteHead \/ WriteFrame \/ WriteFails \/ SyncBatch \/ SetCursor

Sender == Commit \/ Retry \/ RemoveSegment \/ PersistRemoval

\* Both goroutines wait: the source has no more data and nothing is pending.
Wait ==
    /\ up /\ op = Idle /\ window = 0
    /\ cp.CursorNs = MaxTs /\ Pending = <<>>
    /\ UNCHANGED vars

Next == Open \/ OpenRefused \/ Poller \/ Sender \/ Close \/ Kill \/ PowerLoss \/ Wait

Spec == Init /\ [][Next]_vars

\* Both goroutines loop until they are stopped, and the process is restarted.
FairSpec ==
    /\ Spec
    /\ WF_vars(Open)
    /\ WF_vars(Poller)
    /\ WF_vars(Sender)

-----------------------------------------------------------------------------
(***************************************************************************)
(* Properties.                                                             *)
(***************************************************************************)

\* Every variable has the shape of the state it models; a segment is not longer
\* than segSize, unless a failed write left bytes that curOffset does not count.
TypeOK ==
    /\ DOMAIN files = Segs /\ dir \subseteq Segs /\ durableDir \subseteq Segs
    /\ \A s \in Segs : synced[s] \in 0..Len(files[s])
    /\ "offset" \notin flaws => \A s \in dir : Len(files[s]) <= segSize
    /\ {saved, cp} \subseteq [CursorNs : 0..MaxTs, NextSeq : 0..(MaxSeq + 1),
                             SegStart : Segs, AckedBytes : Nat]
    /\ up \in BOOLEAN
    /\ \A i \in DOMAIN index : index[i] \in [seg : Segs, offset : Nat, seq : 1..MaxSeq]
    /\ acked \in 0..Len(index)
    /\ curSeg \in Segs /\ curFile \in {"nil", "open", "closed"} /\ curOffset \in Nat
    /\ op.pc \in {"idle", "space", "head", "frame", "sync", "remove", "persist"}
    /\ window \in 0..MaxTs
    /\ faults \in [FaultKinds -> Nat]
    /\ done \subseteq Points
    /\ flaws \subseteq Flaws

\* frameIndex.offset is where the record of the frame starts: Peek of every
\* pending entry returns the intact frame that was appended under its seq,
\* whatever crashes, rotations and failed calls came before, unless one of them
\* left a record cut in its payload or bytes that curOffset does not count.
IndexPointsAtRecords ==
    flaws \cap {"torn", "offset"} = {} =>
        \A i \in DOMAIN Pending :
            /\ Readable(Pending[i])
            /\ RecordAt(files[Pending[i].seg], Pending[i].offset).seq = Pending[i].seq

\* The points Open would queue again if the process died now.
Recovered ==
    LET scanned == scanSegments
    IN  UNION {PointsOf(scanned[i]) : i \in {j \in DOMAIN scanned : Readable(scanned[j])}}

\* A point below the cursor of the checkpoint file is never exported again, so it
\* must have been committed or still be found by the recovery scan.
PointsSafe ==
    \A p \in Points : p[2] < saved.CursorNs => p \in done \cup Recovered

\* First the WAL, then the cursor (SetCursor): no point below the cursor is
\* lost, whatever crashes and failing calls there are, unless one of them hits
\* a weak spot other than the two that block the process until its next start.
NoPointLost == flaws \subseteq {"offset", "closed"} => PointsSafe

\* What the comment of indexSegment says of a torn record: it is the last one,
\* and it is cut off.  So a torn write alone must not lose a point.
TornTailHarmless == flaws \subseteq {"torn"} => PointsSafe

\* What the comment in commitLocked says of a checkpoint that lags behind the
\* removal of a segment: scanSegments tolerates it.
LagHarmless == flaws \subseteq {"lag"} => PointsSafe

\* What the comment of AppendBatch says of its single fsync: a tail that is not
\* fsynced is exported again, because the cursor has not moved.
OneSyncEnough == flaws \subseteq {"rotate"} => PointsSafe

\* indexSegment refuses a segment damaged inside its acknowledged prefix.  A
\* crash must not cause that, for the sender could not start again, unless the
\* acknowledged bytes are those of another file or were never fsynced.  Nor
\* does a start find a segment to remove, which might fail.
RecoverySucceeds ==
    /\ flaws \cap {"lag", "acked"} = {} => ScanSucceeds
    /\ Alive = dir

\* PeekBatch hands out frames in seq order, and a frame appended later gets
\* a seq above all of them, also after the seq counter went back in a crash.
SeqsInOrder ==
    /\ \A i, j \in DOMAIN Pending : i < j => Pending[i].seq < Pending[j].seq
    /\ up => \A i \in DOMAIN Pending : Pending[i].seq < cp.NextSeq

\* No step takes the durable cursor or the durable seq counter back.
CheckpointMonotone ==
    [][saved'.CursorNs >= saved.CursorNs /\ saved'.NextSeq >= saved.NextSeq]_vars

\* Every point of the source is exported, survives the crashes and is
\* committed, unless a weak spot is hit: a frame at the head of the index that
\* cannot be read stops the sender for good.
AllCommitted == <>(Points \subseteq done \/ flaws # {})
=============================================================================
