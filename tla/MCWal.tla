------------------------------- MODULE MCWal -------------------------------
(* An instance of Wal for TLC: two series, so a window has one or two frames. *)
EXTENDS Wal

\* Series 1 has a point at times 0 and 1, series 2 at time 1.
MCPoints == {<<1, 0>>, <<1, 1>>, <<2, 1>>}

\* One series with a point at each of three times: three windows of a frame each.
OneSeries == {<<1, ts>> : ts \in 0..2}

NoFaults == [k \in FaultKinds |-> 0]

\* A kill or a power failure, with a second one or with any other fault.
MCBudgets ==
    {[[NoFaults EXCEPT ![crash] = 1] EXCEPT ![other] = @ + 1] :
        crash \in {"kill", "power"}, other \in FaultKinds}
=============================================================================
