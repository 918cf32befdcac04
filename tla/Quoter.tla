------------------------------- MODULE Quoter -------------------------------
(***************************************************************************)
(* The off-chain quoter (src/sdk/interface/src/matching.rs): what a client *)
(* that holds a snapshot of the market account tells a taker that its swap *)
(* would pay.  It shares price, deadline and liveness arithmetic with the  *)
(* program (sdk/math-core), and repeats the rest by itself: it flushes     *)
(* nothing, copies nothing back, and works on a list of levels and on what *)
(* it has taken out of each vault so far.                                  *)
(***************************************************************************)
EXTENDS Book

EmptyQuote ==
    [in_amount |-> 0, out_amount |-> 0, fee_amount |-> 0, platform_fee_amount |-> 0, legs |-> 0]

\* The profile's sizes on one side exceed the leg: the flush will rest nothing.
FlushSideSumExceedsBps(v, side) == SideSum(v.profile, side) > BPS

\* Mutant: the levels are the stored ones even when a flush is armed.
StoredLevelState(x, side, i) ==
    LET p == remaining[x][side][i] IN
    [price |-> p.price, size |-> p.size,
     unix_deadline |-> p.unix_deadline, slot_deadline |-> p.slot_deadline]

\* level_state: one level as a swap would find it now.
LevelState(x, side, i) ==
    LET v == vaults[x]
        level == v.profile[side][i]
        p == remaining[x][side][i]
    IN IF v.flush
       THEN [price |-> FlushLevelPrice(v.price, level.offset, side),
             size |-> (v.atoms[LegOf(side)] * level.size_bps) \div BPS,
             unix_deadline |-> DeadlineAfter(v.quote_unix, level.wall_span),
             slot_deadline |-> DeadlineAfter(v.quote_slot, level.slot_span)]
       ELSE [price |-> p.price, size |-> p.size,
             unix_deadline |-> p.unix_deadline, slot_deadline |-> p.slot_deadline]

\* flipped_state: what the other side's level has flipped to this one.
FlippedState(x, side, i) ==
    LET p == remaining[x][OtherSide(side)][i] IN
    [price |-> p.flip_price, size |-> p.flip_size,
     unix_deadline |-> p.unix_deadline, slot_deadline |-> p.slot_deadline]

\* Levels are sorted by key, nonce, sector, level and half.
LevelBefore(side, a, b) ==
    LET key(l) == <<IF side = "ask" THEN l.state.price ELSE Infinity - l.state.price,
                    l.nonce, l.sector, l.level, IF l.flipped THEN 1 ELSE 0>>
    IN \E k \in 1 .. 5 : key(a)[k] < key(b)[k] /\ \A j \in 1 .. k - 1 : key(a)[j] = key(b)[j]

\* A vault with a flush armed rests no flipped half, nor a side that overfills.
CollectSideLevels(side) ==
    LET quoting == {x \in Vaults : Quoting(x)}
        flushed == {x \in quoting : vaults[x].flush}
        overfull == {x \in flushed : FlushSideSumExceedsBps(vaults[x], side)}
        lvl(x, i, flipped, state) ==
            [sector |-> x, level |-> i, flipped |-> flipped, state |-> state,
             nonce |-> vaults[x].stamp]
        own == {lvl(x, i, FALSE, LevelState(x, side, i)) : x \in quoting \ overfull, i \in Levels}
        flips == {lvl(x, i, TRUE, FlippedState(x, side, i)) : x \in quoting \ flushed, i \in Levels}
        live == {l \in own \cup flips : LevelIsLive(l.state.price, l.state.size, l.state)}
    IN InOrder(live, LAMBDA a, b : LevelBefore(side, a, b))

\* One level of the fill loop, `taken` what earlier legs took out of its vault.
FillLevel(side, limit, acc, l) ==
    LET stock == vaults[l.sector].atoms[LegOf(side)] - acc.taken[l.sector]
        affordable == OutputFor(side, l.state.price, acc.unfilled)
        fill_out == Min({affordable, l.state.size, stock})
        fill_in == InputFor(side, l.state.price, fill_out)
        taker_bound == fill_out = affordable
        charged == IF taker_bound THEN acc.unfilled ELSE fill_in
        \* Nothing to give, or nothing to ask for it.
        no_fill == fill_out = 0 \/ fill_in = 0
    IN IF \/ acc.done \/ acc.unfilled = 0 \/ acc.legs >= MaxLegs
          \/ CrossesLimit(side, l.state.price, limit) \/ (no_fill /\ taker_bound)
       THEN [acc EXCEPT !.done = TRUE]
       ELSE IF no_fill THEN acc
       ELSE [acc EXCEPT !.taken[l.sector] = @ + fill_out,
                        !.unfilled = @ - charged,
                        !.out = @ + fill_out,
                        !.fee = @ + (fill_out * TakerFee) \div PPM,
                        !.legs = @ + 1]

SimulateSwap(side, amount_in, limit, platform_fee_bps) ==
    LET start == [taken |-> [x \in Vaults |-> 0], unfilled |-> amount_in, out |-> 0, fee |-> 0,
                  legs |-> 0, done |-> FALSE]
        walk == FoldLeft(LAMBDA acc, l : FillLevel(side, limit, acc, l), start,
                         CollectSideLevels(side))
        net == walk.out - walk.fee
        platform_fee == (net * platform_fee_bps) \div BPS
    IN IF amount_in = 0 \/ (limit = IF side = "ask" THEN 0 ELSE Infinity) \/ walk.legs = 0
       THEN EmptyQuote
       ELSE [in_amount |-> amount_in - walk.unfilled, out_amount |-> net - platform_fee,
             fee_amount |-> walk.fee, platform_fee_amount |-> platform_fee, legs |-> walk.legs]

-----------------------------------------------------------------------------
(* Properties *)

\* A swap against the market the quoter saw does what it answered, leg by leg
\* and fee by fee, and gives nothing when the answer is below the taker's floor:
\* the two walks agree on every book a run of quotes, deposits, withdrawals,
\* partial fills and soft reverts can leave.
QuoteIsWhatTheSwapPays ==
    [][LET r == receipt'
           out_leg == LegOf(r.side)
       IN r.amount_in > 0 =>
          \A bps \in PlatformFees :
             Swap(r.side, r.amount_in, r.limit, r.min_out, bps) =>
                LET q == SimulateSwap(r.side, r.amount_in, r.limit, bps) IN
                IF r.legs = <<>>
                THEN q.legs = 0 \/ q.out_amount < r.min_out
                ELSE /\ q.in_amount = r.paid /\ q.out_amount = r.got /\ q.legs = Len(r.legs)
                     /\ q.fee_amount = accrued_fee'[out_leg] - accrued_fee[out_leg]
                     /\ q.out_amount + q.platform_fee_amount
                          = treasury[out_leg] - treasury'[out_leg]]_bookVars
=============================================================================
