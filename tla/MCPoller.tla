------------------------------ MODULE MCPoller ------------------------------
(***************************************************************************)
(* An instance of Poller: a dense series between two sparse ones in the    *)
(* past, so that the line too long for a frame is neither the first nor    *)
(* the last, an empty stretch, and points that arrive while it runs.       *)
(***************************************************************************)
EXTENDS Poller

Past == {<<2, 4>>, <<2, 5>>, <<2, 6>>, <<2, 7>>, <<1, 5>>, <<3, 5>>, <<1, 9>>}
Live == {<<1, 12>>, <<3, 13>>, <<2, 15>>}
PastAndLive == Past \cup Live
=============================================================================
