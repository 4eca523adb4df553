----------------------------- MODULE MCStartup -----------------------------
(* Instances of Startup: history at times 2 and 5, a live point at 9.        *)
EXTENDS Startup

MCHistory == {<<1, 2>>, <<2, 5>>}
MCPoints == MCHistory \cup {<<1, 9>>}

\* "all", "0", "4ms" and "0d".
MCSettings ==
    {[kind |-> "all", dur |-> 0], [kind |-> "0", dur |-> 0]}
    \cup {[kind |-> "dur", dur |-> d] : d \in {0, 4}}

OnlyAll == {[kind |-> "all", dur |-> 0]}

Nothing == [e \in Events |-> 0]

\* The probe fails but nothing else does, or everything else fails; each from
\* an empty WAL directory and from a checkpoint of the version before.
ProbeFails == [Nothing EXCEPT !["probe"] = 2, !["retry"] = 1, !["stop"] = 2, !["change"] = 1]
Crashes == [Nothing EXCEPT !["kill"] = 2, !["save"] = 1, !["stop"] = 1, !["change"] = 1]
MCBudgets == {[b EXCEPT !["legacy"] = n] : b \in {ProbeFails, Crashes}, n \in {0, 1}}

\* A kill and a probe that fails at the next start.
KillThenProbeFails == {[Nothing EXCEPT !["kill"] = 1, !["probe"] = 1]}
=============================================================================
