------------------------------ MODULE Capture ------------------------------
(***************************************************************************)
(* What the poller promises to the rest of the sender: the points of the   *)
(* source enter the WAL first, then the cursor passes them, and no point   *)
(* enters the source behind the cursor.  Poller is shown to implement      *)
(* this; Startup is built on it.                                           *)
(***************************************************************************)
EXTENDS Integers

CONSTANT Points     \* the points of the source, as <<series, timestamp>>

VARIABLES
    source,     \* points the source database has accepted
    cursor,     \* everything before this time is in the WAL
    captured    \* points that were appended to the WAL

vars == <<source, cursor, captured>>

Ts(p) == p[2]

\* The points of the half-open window [start, end) of ExportRange.
InWindow(start, end) == {p \in Points : start <= Ts(p) /\ Ts(p) < end}

Init ==
    /\ cursor \in Int
    /\ source \subseteq Points /\ captured \subseteq source
    /\ source \cap InWindow(0, cursor) \subseteq captured

\* Points arrive at or after the cursor.
Arrive ==
    /\ source \subseteq source' /\ source' \subseteq Points
    /\ \A p \in source' \ source : Ts(p) >= cursor
    /\ UNCHANGED <<cursor, captured>>

\* AppendBatch: frames of the source are in the WAL, before the cursor moves.
AppendBatch ==
    /\ captured \subseteq captured' /\ captured' \subseteq captured \cup source
    /\ UNCHANGED <<source, cursor>>

\* SetCursor: what the cursor passes is in the WAL.
Advance ==
    /\ cursor' > cursor
    /\ source \cap InWindow(cursor, cursor') \subseteq captured
    /\ UNCHANGED <<source, captured>>

\* A restart from an older checkpoint, or a new back-fill policy.
Rewind ==
    /\ cursor' < cursor
    /\ UNCHANGED <<source, captured>>

Next == Arrive \/ AppendBatch \/ Advance \/ Rewind

Spec == Init /\ [][Next]_vars
=============================================================================
