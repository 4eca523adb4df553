------------------------------ MODULE WalScan ------------------------------
(***************************************************************************)
(* The contents of a WAL segment file and the scan that rebuilds the frame *)
(* index from it when the WAL is opened (internal/wal/wal.go).             *)
(*                                                                         *)
(* A segment is a sequence of cells.  A record is a length head of         *)
(* recordHeadLen cells followed by a frame: a header of HeaderSize cells   *)
(* and a payload of PayloadSize cells.  Cell k of record r is <<r, k>>, so *)
(* a torn or misplaced record is a file whose cells do not line up, as in  *)
(* the real byte stream.  A record is [seq, data].                         *)
(***************************************************************************)
EXTENDS Integers, Sequences, SequencesExt

CONSTANTS
    recordHeadLen,  \* cells of the length head (4 bytes in the code)
    HeaderSize,     \* cells of the frame header (20 bytes in the code)
    PayloadSize,    \* cells of the payload of every frame
    MaxFrameLen     \* longest legal frame, header included (1 MiB in the code)

ASSUME ScanAssumption ==
    /\ recordHeadLen \in Nat \ {0}
    /\ HeaderSize \in Nat \ {0}
    /\ PayloadSize \in Nat \ {0}
    /\ MaxFrameLen \in Nat
    /\ HeaderSize + PayloadSize <= MaxFrameLen

\* The part of a record that indexSegment reads: length head and frame header.
ReadLen == recordHeadLen + HeaderSize

RecordLen == ReadLen + PayloadSize

Record(r) == [k \in 1..RecordLen |-> <<r, k>>]

\* Offset o holds a length head and a frame header of one record: the length
\* is legal, the header parses and the two lengths agree.
HeaderAt(file, o) ==
    /\ o + ReadLen <= Len(file)
    /\ \A k \in 1..ReadLen : file[o + k] = <<file[o + 1][1], k>>

\* The file ends in the payload of a record.
CutInPayload(file) == \E o \in 0..Len(file) : HeaderAt(file, o) /\ o + RecordLen > Len(file)

\* What Peek reads for an index entry at offset o is a complete frame.
FrameAt(file, o) ==
    /\ o + RecordLen <= Len(file)
    /\ \A k \in (recordHeadLen + 1)..RecordLen :
            file[o + k] = <<file[o + recordHeadLen + 1][1], k>>

\* The record whose frame Peek reads at offset o.
RecordAt(file, o) == file[o + recordHeadLen + 1][1]

\* The first offset after badOff at which a whole record starts, or -1.
resyncRecord(file, badOff) ==
    LET limit == Min({badOff + MaxFrameLen + recordHeadLen, Len(file)})
        starts == {p \in (badOff + 1)..Len(file) :
                        /\ p + ReadLen <= limit
                        /\ p + RecordLen <= Len(file)
                        /\ HeaderAt(file, p)}
    IN  IF starts = {} THEN -1 ELSE Min(starts)

\* Mutant: a torn tail is an error, as before the crash tolerance.
TornTail_Fatal(o, skip) == [offs |-> <<>>, size |-> o, ok |-> FALSE]

\* No record starts at o or after it: the file is cut there, unless o is inside
\* the acknowledged prefix, where indexSegment refuses to guess.
TornTail(o, skip) == [offs |-> <<>>, size |-> o, ok |-> o >= skip]

(***************************************************************************)
(* indexSegment: the offsets of the records that go into the index (their  *)
(* end is beyond the acknowledged prefix skip), the size to which the file *)
(* is truncated, and whether the scan succeeds; it refuses a segment whose *)
(* acknowledged prefix is damaged beyond resynchronisation.                *)
(***************************************************************************)
indexSegment(file, skip) ==
    LET size == Len(file)
        end  == [offs |-> <<>>, size |-> size, ok |-> TRUE]
        scan[o \in 0..size] ==
            IF o = size THEN end
            ELSE IF HeaderAt(file, o)
            THEN LET rest == IF o + RecordLen <= size THEN scan[o + RecordLen] ELSE end
                 IN  IF o + RecordLen <= skip THEN rest
                     ELSE [rest EXCEPT !.offs = <<o>> \o @]
            ELSE LET next == resyncRecord(file, o)
                 IN  IF next >= 0 THEN scan[next]
                     ELSE TornTail(o, skip)
    IN  scan[0]
=============================================================================
