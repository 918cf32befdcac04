------------------------------ MODULE MCMaker ------------------------------
(***************************************************************************)
(* Instances of Maker: a handful of ticks, each of which takes another way *)
(* through the kill switches.                                              *)
(***************************************************************************)
EXTENDS Maker

Calm == [price |-> "fair", silent |-> FALSE, alarm |-> FALSE, degraded |-> FALSE,
         tvl |-> 100, imbalance |-> 0, accumulating |-> "bid", moved |-> FALSE]

Moving == [Calm EXCEPT !.moved = TRUE]
\* Freezes a side only because the composition is degraded.
Heavy == [Calm EXCEPT !.imbalance = 30, !.degraded = TRUE, !.accumulating = "ask"]
\* Halts only because the composition is degraded: 85 % of the launch TVL.
Drawn == [Calm EXCEPT !.tvl = 85, !.degraded = TRUE]
Absent == [Calm EXCEPT !.price = "absent"]
Stalled == [Calm EXCEPT !.price = "stalled"]

\* An active maker arms one shape of profile here, a passive one has only one.
MCInputs == [m \in {"active", "passive"} |->
                IF m = "active" THEN {Heavy, Drawn, Absent}
                ELSE {Calm, Moving, Heavy, Drawn, Stalled, Absent}]
=============================================================================
