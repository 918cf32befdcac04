------------------------------- MODULE MCBook -------------------------------
(***************************************************************************)
(* Book and its Quoter on one vault with two levels of two deadlines each. *)
(* A flipped half of the near level of its bids meets the far level of its *)
(* asks at a price.                                                        *)
(***************************************************************************)
EXTENDS Quoter

MCLevel(offset, size_bps, flip_spread, wall_span, slot_span) ==
    [offset |-> offset, size_bps |-> size_bps, flip_spread |-> flip_spread,
     wall_span |-> wall_span, slot_span |-> slot_span]

\* Two levels on each side: a ladder that flips, whose near level has the wall's
\* deadline at the end of time and the slot's before the far level's; and one
\* whose asks overfill their leg, so that only its bids rest.
MCLadders ==
    {[side \in Sides |-> <<MCLevel(0, 1, 1, 2, 1), MCLevel(1, 1, 0, 1, 2)>>],
     [side \in Sides |-> IF side = "ask"
                         THEN <<MCLevel(0, 2, 1, 2, 2), MCLevel(1, 1, 0, 2, 2)>>
                         ELSE <<MCLevel(0, 1, 1, 2, 2), MCLevel(1, 1, 1, 2, 2)>>]}

\* The author is a second ahead: its quotes come early, in time, or too late.
MCQuoteTimes == {<<1, 0>>}
=============================================================================
