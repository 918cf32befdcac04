-------------------------------- MODULE Book --------------------------------
(***************************************************************************)
(* The order book of a market and the swap that walks it                   *)
(* (src/programs/dropset/src/instructions/swap.rs, state/market/accrual.rs,*)
(* state/market/quote_write.rs, state/market/inventory.rs,                 *)
(* sdk/math-core/src/matching_math.rs).                                    *)
(*                                                                         *)
(* A vault quotes a reference price and a ladder of levels relative to it; *)
(* the write only arms a flush, and the first swap after it turns the      *)
(* ladder into absolute levels (remaining).  What an own level sells may   *)
(* rest on its other side, at its flip price.  A swap collects the live    *)
(* levels of every active vault, walks them in price-time order, and puts  *)
(* everything back if the taker would get less than it asked for.          *)
(*                                                                         *)
(* A price is a number of quote atoms per PriceScale base atoms; the       *)
(* code's decimal float is abstracted to it, its rounding down included.   *)
(* A deposit or a withdrawal is seen by what it does to one inventory; the *)
(* shares behind it are in Market.                                         *)
(***************************************************************************)
EXTENDS ShareMath, FiniteSets, Functions, SequencesExt

CONSTANTS
    Vaults,            \* the sectors of the slab, in the order of their indices
    NLevels,           \* N_LEVELS: levels on each side of a ladder
    Profiles,          \* the LiquidityProfiles a quote authority may write
    RefPrices,         \* the reference prices it may write
    MaxPrice,          \* Price::INFINITY is MaxPrice + 1, Price::ZERO is 0
    PriceScale,        \* base atoms one price unit is quoted for
    BPS,               \* basis points, the unit of a level's size
    MaxLegs,           \* MAX_LEGS_PER_SWAP
    TakerFee,          \* taker_fee_ppm
    PlatformFees,      \* platform_fee_bps values within max_platform_fee_bps
    AmountsIn,         \* amount_in values
    Limits,            \* limit prices
    MinOuts,           \* min_out values
    Stocks,            \* atoms a vault's leg is brought to by a deposit or a withdrawal
    QuoteTimes,        \* the <<unix, slot>> pairs an authority may date a quote with
    ClockMax,          \* the largest slot and unix time (u32::MAX)
    MaxNonce           \* bound on the market's nonce (the code's is u64::MAX)

Infinity == MaxPrice + 1
Prices == 0 .. Infinity
Levels == 1 .. NLevels
Sides == {"ask", "bid"}

\* An offset or a spread is in PPM, a size in BPS; a span of 0 never rests.
Level == [offset : Nat, size_bps : Nat, flip_spread : Nat, wall_span : Nat, slot_span : Nat]

Profile == [Sides -> [Levels -> Level]]

ASSUME BookAssumption ==
    /\ Vaults \subseteq Nat /\ IsFiniteSet(Vaults)
    /\ NLevels \in Nat \ {0} /\ MaxPrice \in Nat \ {0} /\ PriceScale \in Nat \ {0}
    /\ Profiles \subseteq Profile
    /\ BPS \in Nat \ {0} /\ MaxLegs \in Nat \ {0}
    /\ TakerFee \in 0 .. PPM /\ PlatformFees \subseteq 0 .. BPS
    /\ RefPrices \subseteq Prices /\ Limits \subseteq Prices /\ Stocks \subseteq Nat
    /\ AmountsIn \subseteq Nat \ {0} /\ MinOuts \subseteq Nat
    /\ QuoteTimes \subseteq (0 .. ClockMax) \X (0 .. ClockMax)
    /\ ClockMax \in Nat /\ MaxNonce \in Nat

VARIABLES
    vaults,            \* vault -> Vault
    remaining,         \* vault -> side -> level -> Position
    nonce,             \* MarketHeader::nonce
    treasury,          \* leg -> balance of the market's token account
    accrued_fee,       \* leg -> accrued_base_fee_atoms, accrued_quote_fee_atoms
    now,               \* [unix, slot], what the clock sysvar shows
    receipt            \* what the last instruction, if a swap, reported

bookVars == <<vaults, remaining, nonce, treasury, accrued_fee, now, receipt>>

\* listed: the vault is on the Active list.
Vault == [atoms : [Legs -> Nat], price : Prices, stamp : Nat, flush : BOOLEAN,
          quote_unix : 0 .. ClockMax, quote_slot : 0 .. ClockMax,
          profile : Profiles, frozen : BOOLEAN, listed : BOOLEAN]

Position == [price : Prices, size : Nat, flip_price : Prices, flip_size : Nat,
             unix_deadline : 0 .. ClockMax, slot_deadline : 0 .. ClockMax]

OtherSide(side) == IF side = "ask" THEN "bid" ELSE "ask"

\* An ask rests base atoms, a bid rests quote atoms.
LegOf(side) == IF side = "ask" THEN "base" ELSE "quote"

Matchable(price) == price \in 1 .. MaxPrice

NoReceipt == [side |-> "ask", amount_in |-> 0, limit |-> 0, min_out |-> 0,
              paid |-> 0, got |-> 0, legs |-> <<>>]

-----------------------------------------------------------------------------
(* From a ladder to resting levels *)

\* flush_level_price: away from the reference, rounded down; what the encoding
\* cannot hold becomes Price::ZERO.
FlushLevelPrice(reference, offset, side) ==
    LET factor == IF side = "ask" THEN PPM + offset ELSE PPM - Lesser(offset, PPM)
        scaled == (reference * factor) \div PPM
    IN IF ~Matchable(reference) THEN reference
       ELSE IF scaled <= MaxPrice THEN scaled ELSE 0

\* flip_level_price: a level without a spread does not flip.
FlipLevelPrice(price, spread, side) ==
    IF spread = 0 THEN 0 ELSE FlushLevelPrice(price, spread, OtherSide(side))

\* deadline_after: a zero span is dead at every time.
DeadlineAfter(datum, span) == IF span = 0 THEN 0 ELSE Lesser(datum + span, ClockMax)

SideSum(profile, side) == SumFunction([i \in Levels |-> profile[side][i].size_bps])

\* materialize_level; a side whose sizes exceed its leg rests nothing.
MaterializedLevel(v, side, i) ==
    LET level == v.profile[side][i]
        price == FlushLevelPrice(v.price, level.offset, side)
    IN [price |-> price,
        size |-> IF SideSum(v.profile, side) <= BPS
                 THEN (v.atoms[LegOf(side)] * level.size_bps) \div BPS ELSE 0,
        flip_price |-> FlipLevelPrice(price, level.flip_spread, side),
        flip_size |-> 0,
        unix_deadline |-> DeadlineAfter(v.quote_unix, level.wall_span),
        slot_deadline |-> DeadlineAfter(v.quote_slot, level.slot_span)]

Materialized(v) == [side \in Sides |-> [i \in Levels |-> MaterializedLevel(v, side, i)]]

\* The levels of vault x once a pending flush has run.
Rested(x) == IF vaults[x].flush THEN Materialized(vaults[x]) ELSE remaining[x]

-----------------------------------------------------------------------------
(* Collecting the book *)

\* The vaults a swap visits.
Quoting(x) == vaults[x].listed /\ Matchable(vaults[x].price) /\ ~vaults[x].frozen

\* Mutant: a deadline is the last second or slot a level lives in.
LevelIsLiveInclusive(price, size, p) ==
    /\ size # 0
    /\ now.unix <= p.unix_deadline /\ now.slot <= p.slot_deadline
    /\ Matchable(price)

LevelIsLive(price, size, p) ==
    /\ size # 0
    /\ now.unix < p.unix_deadline /\ now.slot < p.slot_deadline
    /\ Matchable(price)

\* What a taker on `side` may be offered: the own levels of that side, and what
\* the other side's levels flipped.
OwnEntry(side, x, i) ==
    [vault |-> x, level |-> i, flipped |-> FALSE, nonce |-> vaults[x].stamp,
     price |-> Rested(x)[side][i].price, size |-> Rested(x)[side][i].size]

FlippedEntry(side, x, i) ==
    LET p == Rested(x)[OtherSide(side)][i] IN
    [vault |-> x, level |-> i, flipped |-> TRUE, nonce |-> vaults[x].stamp,
     price |-> p.flip_price, size |-> p.flip_size]

RestingSide(side, e) == IF e.flipped THEN OtherSide(side) ELSE side

Entries(side) ==
    LET quoting == {x \in Vaults : Quoting(x)} IN
    {e \in {OwnEntry(side, x, i) : x \in quoting, i \in Levels}
           \cup {FlippedEntry(side, x, i) : x \in quoting, i \in Levels} :
        LevelIsLive(e.price, e.size, Rested(e.vault)[RestingSide(side, e)][e.level])}

\* The sort key: the best price, then the oldest quote, then the slab's order.
Key(side, e) ==
    <<IF side = "ask" THEN e.price ELSE Infinity - e.price, e.nonce, e.vault, e.level,
      IF e.flipped THEN 1 ELSE 0>>

KeyBefore(a, b) ==
    \E k \in 1 .. 5 : a[k] < b[k] /\ \A j \in 1 .. k - 1 : a[j] = b[j]

\* The members of S in the order `before`: as many ahead of each as are before it.
InOrder(S, before(_, _)) ==
    AntiFunction([e \in S |-> 1 + Cardinality({f \in S : before(f, e)})])

\* Mutant: at a price, a vault's flipped halves go after all its own levels.
HeapOwnLevelsFirst(side) ==
    LET key(e) == <<Key(side, e)[1], e.nonce, e.vault, Key(side, e)[5], e.level>> IN
    InOrder(Entries(side), LAMBDA e, f : KeyBefore(key(e), key(f)))

Heap(side) ==
    InOrder(Entries(side), LAMBDA e, f : KeyBefore(Key(side, e), Key(side, f)))

CrossesLimit(side, price, limit) ==
    IF side = "ask" THEN price > limit /\ limit # Infinity ELSE price < limit /\ limit # 0

-----------------------------------------------------------------------------
(* Walking the book *)

BaseForQuote(price, quote) == (quote * PriceScale) \div price
QuoteForBase(price, base) == (base * price) \div PriceScale

\* A taker on the asks pays quote for base, on the bids base for quote.
OutputFor(side, price, in) ==
    IF side = "ask" THEN BaseForQuote(price, in) ELSE QuoteForBase(price, in)
InputFor(side, price, out) ==
    IF side = "ask" THEN QuoteForBase(price, out) ELSE BaseForQuote(price, out)

\* compute_fill: what entry e gives a taker with `unfilled` left, out of `stock`
\* atoms.  When the taker's budget is what bounds the fill, its change is a
\* residue; when that fill is nothing, the budget is exhausted.
ComputeFill(side, e, unfilled, stock) ==
    LET cap == OutputFor(side, e.price, unfilled)
        out == Lesser(cap, Lesser(e.size, stock))
        in == InputFor(side, e.price, out)
        taker_bound == out = cap
    IN [out |-> out, in |-> in, fills |-> out > 0 /\ in > 0,
        exhausted |-> taker_bound /\ (out = 0 \/ in = 0),
        residue |-> IF taker_bound THEN unfilled - in ELSE 0]

\* Mutant: a fill comes out of the level's own size whichever half was hit.
FilledPositionOwnSize(p, flipped, in, out) ==
    [p EXCEPT !.size = @ - out,
              !.flip_size = IF Matchable(p.flip_price) THEN @ + in ELSE @]

\* An own level that flips rests its input on its other side, a flipped one
\* gives its input back to its own side.
FilledPosition(p, flipped, in, out) ==
    IF flipped
    THEN [p EXCEPT !.flip_size = @ - out, !.size = @ + in]
    ELSE [p EXCEPT !.size = @ - out,
                   !.flip_size = IF Matchable(p.flip_price) THEN @ + in ELSE @]

FillLeg(side, e, fill, acc) ==
    LET x == e.vault
        at == RestingSide(side, e)
        stock == [leg \in Legs |-> IF leg = LegOf(side) THEN acc.atoms[x][leg] - fill.out
                                   ELSE acc.atoms[x][leg] + fill.in]
        filled == FilledPosition(acc.remaining[x][at][e.level], e.flipped, fill.in, fill.out)
        fee == (fill.out * TakerFee) \div PPM
    IN [acc EXCEPT
          !.atoms = [@ EXCEPT ![x] = stock],
          !.remaining = [@ EXCEPT ![x][at][e.level] = filled],
          !.unfilled = @ - fill.in - fill.residue,
          !.out = @ + fill.out,
          !.fee = @ + fee,
          !.legs = Append(@, [entry |-> e, in |-> fill.in, out |-> fill.out])]

WalkEntry(side, limit, acc, e) ==
    LET fill == ComputeFill(side, e, acc.unfilled, acc.atoms[e.vault][LegOf(side)]) IN
    IF \/ acc.stopped \/ acc.unfilled = 0 \/ Len(acc.legs) >= MaxLegs
       \/ CrossesLimit(side, e.price, limit) \/ fill.exhausted
    THEN [acc EXCEPT !.stopped = TRUE]
    ELSE IF fill.fills THEN FillLeg(side, e, fill, acc) ELSE acc

\* The whole walk, from the book as the flushes leave it.
Walked(side, amount_in, limit) ==
    FoldLeft(LAMBDA acc, e : WalkEntry(side, limit, acc, e),
             [atoms |-> [x \in Vaults |-> vaults[x].atoms],
              remaining |-> [x \in Vaults |-> IF Quoting(x) THEN Rested(x) ELSE remaining[x]],
              unfilled |-> amount_in, out |-> 0, fee |-> 0, legs |-> <<>>, stopped |-> FALSE],
             Heap(side))

-----------------------------------------------------------------------------
Init ==
    /\ vaults \in [Vaults -> {[atoms |-> [leg \in Legs |-> 0], price |-> 0, stamp |-> 0,
                              flush |-> FALSE, quote_unix |-> 0, quote_slot |-> 0,
                              profile |-> profile, frozen |-> FALSE, listed |-> TRUE] :
                                profile \in Profiles}]
    /\ remaining = [x \in Vaults |-> [side \in Sides |-> [i \in Levels |->
                       [price |-> 0, size |-> 0, flip_price |-> 0, flip_size |-> 0,
                        unix_deadline |-> 0, slot_deadline |-> 0]]]]
    /\ nonce = 0
    /\ treasury = [leg \in Legs |-> 0]
    /\ accrued_fee = [leg \in Legs |-> 0]
    /\ now = [unix |-> 0, slot |-> 0]
    /\ receipt = NoReceipt

\* authorize_quote_write looks at the authority alone: a frozen vault or one
\* that is off the list takes the write too.
ArmFlush(v) == [v EXCEPT !.stamp = nonce, !.flush = TRUE]

QuoteWrite(x, v) ==
    /\ nonce < MaxNonce
    /\ nonce' = nonce + 1
    /\ vaults' = [vaults EXCEPT ![x] = ArmFlush(v)]
    /\ receipt' = NoReceipt
    /\ UNCHANGED <<remaining, treasury, accrued_fee, now>>

\* The quote carries the time and the slot its author names, past or future.
SetReferencePrice(x, price, unix, slot) ==
    QuoteWrite(x, [vaults[x] EXCEPT !.price = price, !.quote_unix = unix, !.quote_slot = slot])

SetLiquidityProfile(x, profile) ==
    QuoteWrite(x, [vaults[x] EXCEPT !.profile = profile])

\* scale_atoms: what rested on an empty leg stays as it is.
ScaleAtoms(atoms, old, new) ==
    IF atoms = 0 \/ old = new \/ old = 0 THEN atoms ELSE (atoms * new) \div old

\* Mutant: the flipped halves are not rescaled.
RescaledOwnHalves(x, stock) ==
    [side \in Sides |-> [i \in Levels |->
        [remaining[x][side][i] EXCEPT
            !.size = ScaleAtoms(@, vaults[x].atoms[LegOf(side)], stock[LegOf(side)])]]]

\* rescale_remaining: asks rest base and flip into quote, bids the reverse.
Rescaled(x, stock) ==
    [side \in Sides |-> [i \in Levels |->
        LET p == remaining[x][side][i]
            rests == LegOf(side)
            flips == LegOf(OtherSide(side))
        IN [p EXCEPT
              !.size = ScaleAtoms(@, vaults[x].atoms[rests], stock[rests]),
              !.flip_size = ScaleAtoms(@, vaults[x].atoms[flips], stock[flips])]]]

\* The inventory moves to `stock`, the atoms with it.
MoveInventory(x, stock) ==
    /\ stock # vaults[x].atoms
    /\ remaining' = [remaining EXCEPT ![x] = Rescaled(x, stock)]
    /\ vaults' = [vaults EXCEPT ![x].atoms = stock]
    /\ treasury' = [leg \in Legs |-> treasury[leg] + stock[leg] - vaults[x].atoms[leg]]
    /\ receipt' = NoReceipt
    /\ UNCHANGED <<nonce, accrued_fee, now>>

Deposit(x, stock) ==
    /\ vaults[x].listed /\ ~vaults[x].frozen
    /\ \A leg \in Legs : stock[leg] >= vaults[x].atoms[leg]
    /\ MoveInventory(x, stock)

\* A withdrawal works on a frozen and on a closed vault too.
Withdraw(x, stock) ==
    /\ \A leg \in Legs : stock[leg] <= vaults[x].atoms[leg]
    /\ MoveInventory(x, stock)

FreezeVault(x) ==
    /\ vaults' = [vaults EXCEPT ![x].frozen = TRUE]
    /\ receipt' = NoReceipt
    /\ UNCHANGED <<remaining, nonce, treasury, accrued_fee, now>>

\* close_vault takes the vault off the Active list.
CloseVault(x) ==
    /\ vaults[x].listed
    /\ vaults' = [vaults EXCEPT ![x].listed = FALSE]
    /\ receipt' = NoReceipt
    /\ UNCHANGED <<remaining, nonce, treasury, accrued_fee, now>>

\* Slots and seconds pass, each at its own pace.
Tick(domain) ==
    /\ now[domain] < ClockMax
    /\ now' = [now EXCEPT ![domain] = @ + 1]
    /\ receipt' = NoReceipt
    /\ UNCHANGED <<vaults, remaining, nonce, treasury, accrued_fee>>

\* Mutant: the taker fee is booked but not kept back.
NetOfNothing(walk) == walk.out

NetOfTakerFee(walk) == walk.out - walk.fee

PlatformFee(walk, bps) == (NetOfTakerFee(walk) * bps) \div BPS

AchievableOut(walk, bps) == NetOfTakerFee(walk) - PlatformFee(walk, bps)

\* Mutant: the slippage check comes before the platform's fee.
CommitsBeforePlatformFee(walk, bps, min_out) ==
    walk.legs # <<>> /\ NetOfTakerFee(walk) >= min_out

Commits(walk, bps, min_out) == walk.legs # <<>> /\ AchievableOut(walk, bps) >= min_out

\* The swap goes through: the flushes are done, the legs are filled, the taker
\* pays its input with its change, and both fees come off the output.
CommitSwap(side, amount_in, limit, min_out, bps, walk) ==
    LET out_leg == LegOf(side)
        in_leg == LegOf(OtherSide(side))
        paid == amount_in - walk.unfilled
        gone == NetOfTakerFee(walk)
    IN /\ vaults' = [x \in Vaults |->
                        IF Quoting(x)
                        THEN [vaults[x] EXCEPT !.flush = FALSE, !.atoms = walk.atoms[x]]
                        ELSE vaults[x]]
       /\ remaining' = walk.remaining
       /\ nonce' = nonce + Len(walk.legs)
       /\ treasury' = [treasury EXCEPT ![in_leg] = @ + paid, ![out_leg] = @ - gone]
       /\ accrued_fee' = [accrued_fee EXCEPT ![out_leg] = @ + walk.fee]
       /\ receipt' = [side |-> side, amount_in |-> amount_in, limit |-> limit,
                      min_out |-> min_out, paid |-> paid, got |-> AchievableOut(walk, bps),
                      legs |-> walk.legs]

\* Mutant: the levels the legs hit are not put back.
RevertSwapKeepingFills(side, amount_in, limit, min_out) ==
    /\ remaining' = Walked(side, amount_in, limit).remaining
    /\ receipt' = [NoReceipt EXCEPT !.side = side, !.amount_in = amount_in, !.limit = limit,
                                    !.min_out = min_out]
    /\ vaults' = [x \in Vaults |-> [vaults[x] EXCEPT !.flush = @ /\ ~Quoting(x)]]
    /\ UNCHANGED <<nonce, treasury, accrued_fee>>

\* The taker gets nothing: the snapshots are put back and the flushes armed
\* again, on a book that stays materialized.
RevertSwap(side, amount_in, limit, min_out) ==
    /\ remaining' = [x \in Vaults |-> IF Quoting(x) THEN Rested(x) ELSE remaining[x]]
    /\ receipt' = [NoReceipt EXCEPT !.side = side, !.amount_in = amount_in, !.limit = limit,
                                    !.min_out = min_out]
    /\ UNCHANGED <<vaults, nonce, treasury, accrued_fee>>

Swap(side, amount_in, limit, min_out, bps) ==
    LET walk == Walked(side, amount_in, limit) IN
    /\ limit # IF side = "ask" THEN 0 ELSE Infinity
    /\ nonce + Len(walk.legs) <= MaxNonce
    /\ IF Commits(walk, bps, min_out)
       THEN CommitSwap(side, amount_in, limit, min_out, bps, walk)
       ELSE RevertSwap(side, amount_in, limit, min_out)
    /\ UNCHANGED now

Next ==
    \/ \E x \in Vaults, price \in RefPrices, at \in QuoteTimes :
          SetReferencePrice(x, price, at[1], at[2])
    \/ \E x \in Vaults, profile \in Profiles : SetLiquidityProfile(x, profile)
    \/ \E x \in Vaults, stock \in [Legs -> Stocks] : Deposit(x, stock) \/ Withdraw(x, stock)
    \/ \E x \in Vaults : FreezeVault(x) \/ CloseVault(x)
    \/ \E domain \in {"unix", "slot"} : Tick(domain)
    \/ \E side \in Sides, amount_in \in AmountsIn, limit \in Limits, min_out \in MinOuts,
          bps \in PlatformFees : Swap(side, amount_in, limit, min_out, bps)

Spec == Init /\ [][Next]_bookVars

-----------------------------------------------------------------------------
(* Properties *)

\* The types of the header's, the vaults' and the levels' fields.
TypeOK ==
    /\ vaults \in [Vaults -> Vault]
    /\ remaining \in [Vaults -> [Sides -> [Levels -> Position]]]
    /\ nonce \in 0 .. MaxNonce
    /\ treasury \in [Legs -> Nat]
    /\ accrued_fee \in [Legs -> Nat]
    /\ now \in [{"unix", "slot"} -> 0 .. ClockMax]

\* What rests of a leg: own levels of one side, flipped levels of the other.
RestingAtoms(x, leg) ==
    LET side == CHOOSE s \in Sides : LegOf(s) = leg IN
    SumFunction([i \in Levels |-> Rested(x)[side][i].size])
      + SumFunction([i \in Levels |-> Rested(x)[OtherSide(side)][i].flip_size])

\* A vault never shows more of a leg than it holds, through fills on both sides
\* of a level, deposits and withdrawals, in any order, since its last flush.
BookBacked == \A x \in Vaults, leg \in Legs : RestingAtoms(x, leg) <= vaults[x].atoms[leg]

\* Each treasury covers the inventories and the fees accrued: what a swap pays
\* out, both fees included, is no more than what it took from the vaults.
BookSolvent ==
    \A leg \in Legs :
        treasury[leg] >= SumFunction([x \in Vaults |-> vaults[x].atoms[leg]]) + accrued_fee[leg]

\* A taker pays no more than its budget, gets at least what it asked for or
\* pays nothing, and hits no level beyond its limit.
TakerProtected ==
    LET r == receipt IN
    /\ r.paid <= r.amount_in
    /\ r.legs = <<>> => r.paid = 0 /\ r.got = 0
    /\ r.legs # <<>> => r.got >= r.min_out
    /\ \A k \in DOMAIN r.legs : ~CrossesLimit(r.side, r.legs[k].entry.price, r.limit)

\* Every leg trades at the level its vault's current ladder and reference price
\* give, while that quote is alive: no swap meets a level of an earlier quote,
\* and a flush does not extend the life of the quote it works from.
FillsAtCurrentQuote ==
    \A k \in DOMAIN receipt.legs :
        LET e == receipt.legs[k].entry
            v == vaults[e.vault]
            p == MaterializedLevel(v, RestingSide(receipt.side, e), e.level)
            level == v.profile[RestingSide(receipt.side, e)][e.level]
        IN /\ e.price = IF e.flipped THEN p.flip_price ELSE p.price
           /\ now.unix < v.quote_unix + level.wall_span
           /\ now.slot < v.quote_slot + level.slot_span
           /\ ~v.frozen /\ v.listed

\* What is left of entry e after the step.
SizeAfter(side, e) ==
    LET p == remaining'[e.vault][RestingSide(side, e)][e.level] IN
    IF e.flipped THEN p.flip_size ELSE p.size

\* Nothing better is passed over: of the levels ahead of a leg in price-time
\* order, what a swap leaves is too small to be worth an atom.
PriceTimePriority ==
    [][\A k \in DOMAIN receipt'.legs :
          LET leg == receipt'.legs[k].entry
              side == receipt'.side
          IN \A e \in Entries(side) :
                KeyBefore(Key(side, e), Key(side, leg)) =>
                    LET left == Lesser(SizeAfter(side, e), vaults'[e.vault].atoms[LegOf(side)])
                    IN left = 0 \/ InputFor(side, e.price, left) = 0]_bookVars

\* A swap that gives nothing leaves every inventory, quote and counter as it was,
\* and the next taker the same book: the levels that rest, or a flush armed again.
RevertIsNeutral ==
    [][receipt'.amount_in > 0 /\ receipt'.legs = <<>> =>
          /\ \A x \in Vaults : vaults[x].flush \/ Rested(x)' = Rested(x)
          /\ UNCHANGED <<vaults, nonce, treasury, accrued_fee>>]_bookVars
=============================================================================
