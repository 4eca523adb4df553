---------------------------- MODULE SplitFrames ----------------------------
(***************************************************************************)
(* splitFrames of internal/sender/poller.go: the lines of an export, each  *)
(* the points of one series, are cut into frames of at most FrameLines     *)
(* lines and FrameBytes bytes; a line is never divided.  A line is the set *)
(* of its points and as long as it has points.                             *)
(***************************************************************************)
EXTENDS Integers, Sequences, FiniteSetsExt

CONSTANTS FrameLines, FrameBytes

\* The length of the lines of a frame, joined by newlines.
Bytes(frame) == Len(frame) - 1 + MapThenSumSet(LAMBDA i : Cardinality(frame[i]), DOMAIN frame)

\* The closure flush: a started frame is complete.
Flush(s) ==
    IF s.cur = <<>> THEN s
    ELSE [frames |-> Append(s.frames, s.cur), cur |-> <<>>]

\* One iteration: flush when the line does not fit, add it, flush when it is
\* too long on its own.
AddLine(s, line) ==
    LET full == /\ s.cur # <<>>
                /\ \/ Len(s.cur) >= FrameLines
                   \/ Bytes(s.cur) + Cardinality(line) + 1 > FrameBytes
        started == IF full THEN Flush(s) ELSE s
        added == [started EXCEPT !.cur = Append(@, line)]
    IN  IF Bytes(added.cur) > FrameBytes THEN Flush(added) ELSE added

\* The loop over the lines: the frames that are complete, and the one that is
\* being filled.
AddLines(lines) ==
    LET added[n \in 0..Len(lines)] ==
            IF n = 0 THEN [frames |-> <<>>, cur |-> <<>>] ELSE AddLine(added[n - 1], lines[n])
    IN  added[Len(lines)]

NonEmpty(lines) == SelectSeq(lines, LAMBDA l : l # {})

\* Mutant: the last frame is not flushed.
splitFrames_NoLastFlush(lines) == AddLines(NonEmpty(lines)).frames

splitFrames(lines) == Flush(AddLines(NonEmpty(lines))).frames

\* What the frames of lines must be, whatever the algorithm: all the lines in
\* their order, within the limits, and no frame that the next one's first
\* line would have fitted into.
SplitOf(lines, frames) ==
    /\ LET joined[k \in 0..Len(frames)] == IF k = 0 THEN <<>> ELSE joined[k - 1] \o frames[k]
       IN  joined[Len(frames)] = NonEmpty(lines)
    /\ \A k \in DOMAIN frames :
          /\ Len(frames[k]) \in 1..FrameLines
          /\ Bytes(frames[k]) <= FrameBytes \/ Len(frames[k]) = 1
          /\ k < Len(frames) =>
                \/ Len(frames[k]) = FrameLines
                \/ Bytes(Append(frames[k], frames[k + 1][1])) > FrameBytes
=============================================================================
