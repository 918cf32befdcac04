------------------------------ MODULE Position ------------------------------
(***************************************************************************)
(* One VaultDepositor account: the shares it claims and the cost basis its *)
(* profit is measured against (src/programs/dropset/src/state/             *)
(* vault_depositor.rs, sdk/math-core/src/share.rs).                        *)
(*                                                                         *)
(* What the vault gives and takes is an input here: Market says which      *)
(* shares buy which basket.  The account closes with its last share, and a *)
(* later deposit opens it again at the same address.                       *)
(***************************************************************************)
EXTENDS Integers

CONSTANTS
    RefPrices,         \* the vault's reference prices: 0 is Price::ZERO
    MaxPrice,          \* Price::INFINITY is MaxPrice + 1
    PriceScale,        \* base atoms one price unit is quoted for
    Baskets,           \* [base, quote]: the atoms of a deposit or of a withdrawal
    Lots,              \* the shares a deposit mints
    MaxShares,         \* bound on the shares of the position
    MaxFlow,           \* no flow in or out once that direction has passed this bound
    U64Max,            \* u64::MAX
    I64Max,            \* i64::MAX
    I128Max            \* i128::MAX, what any base is worth at Price::INFINITY

Infinity == MaxPrice + 1

ASSUME PositionAssumption ==
    /\ MaxPrice \in Nat /\ PriceScale \in Nat \ {0}
    /\ RefPrices \subseteq 0 .. Infinity
    /\ Baskets \subseteq [base : Nat, quote : Nat]
    /\ Lots \subseteq Nat \ {0} /\ MaxShares \in Nat /\ MaxFlow \in Nat
    /\ U64Max \in Nat /\ I64Max \in Nat /\ I128Max \in Nat

VARIABLES
    position,          \* the account; all zeroes where there is none
    put_in,            \* the quote value of every deposit, at its price
    taken_out,         \* the quote value of every withdrawal, at its price
    reported,          \* the sum of the WithdrawEvents' realized_pnl
    clipped            \* some value was saturated or clamped on the way

positionVars == <<position, put_in, taken_out, reported, clipped>>

Signed64 == -(I64Max + 1) .. I64Max

VaultDepositor ==
    [shares : Nat, net_deposits : 0 .. U64Max, gross_deposited : 0 .. U64Max,
     entry_ref_price : 0 .. Infinity,
     realized_pnl : Signed64, realized_yield : Signed64, realized_price : Signed64]

NoPosition ==
    [shares |-> 0, net_deposits |-> 0, gross_deposited |-> 0, entry_ref_price |-> 0,
     realized_pnl |-> 0, realized_yield |-> 0, realized_price |-> 0]

\* Price::quote_for_base, rounded down.
QuoteForBase(price, base) ==
    IF price = Infinity THEN I128Max ELSE (base * price) \div PriceScale

\* Price::weighted_average, rounded down; a sentinel wins.
WeightedAverage(p, q, w_p, w_q) ==
    IF p = 0 \/ q = 0 THEN 0
    ELSE IF p = Infinity \/ q = Infinity THEN Infinity
    ELSE (w_p * p + w_q * q) \div (w_p + w_q)

Saturated(n) == IF n <= U64Max THEN n ELSE U64Max

Clamped(n) == IF n > I64Max THEN I64Max ELSE IF n < -(I64Max + 1) THEN -(I64Max + 1) ELSE n

Init ==
    /\ position = NoPosition
    /\ put_in = 0 /\ taken_out = 0 /\ reported = 0
    /\ clipped = FALSE

Value(basket, price) == basket.quote + QuoteForBase(price, basket.base)

\* record_deposit: the first lot stamps the basis, a top-off merges into it.
Recorded(p, minted, lot, ref) ==
    IF p.shares = 0
    THEN [p EXCEPT !.shares = minted, !.net_deposits = lot, !.gross_deposited = lot,
                   !.entry_ref_price = ref]
    ELSE [p EXCEPT !.shares = @ + minted,
                   !.net_deposits = Saturated(@ + lot),
                   !.gross_deposited = Saturated(@ + lot),
                   !.entry_ref_price = WeightedAverage(@, ref, p.shares, minted)]

\* deposit refuses a vault without a matchable reference price.
Deposit(minted, basket, ref) ==
    LET value == Value(basket, ref) IN
    /\ ref \in 1 .. MaxPrice
    /\ position.shares + minted <= MaxShares
    /\ put_in <= MaxFlow
    /\ position' = Recorded(position, minted, Saturated(value), ref)
    /\ put_in' = put_in + value
    /\ clipped' = (clipped \/ position.net_deposits + value > U64Max)
    /\ UNCHANGED <<taken_out, reported>>

\* The basis that leaves with `burned` shares, rounded down.
ReleasedBasis(p, burned) == (p.net_deposits * burned) \div p.shares

\* What a withdrawal earned, and its two components: what the base it took
\* gained since it was bought, and the rest.
PnlDelta(p, burned, basket, ref) == Value(basket, ref) - ReleasedBasis(p, burned)

PriceDelta(p, basket, ref) ==
    QuoteForBase(ref, basket.base) - QuoteForBase(p.entry_ref_price, basket.base)

\* Mutant: the base is valued at today's price in this component too.
YieldDeltaAtRefNow(p, burned, basket, ref) == Value(basket, ref) - ReleasedBasis(p, burned)

YieldDelta(p, burned, basket, ref) ==
    Value(basket, p.entry_ref_price) - ReleasedBasis(p, burned)

\* Mutant: the basis stays with the shares that are left.
CrystallizedKeepingBasis(p, burned, basket, ref) ==
    [p EXCEPT !.shares = @ - burned,
              !.realized_pnl = Clamped(@ + PnlDelta(p, burned, basket, ref)),
              !.realized_yield = Clamped(@ + YieldDelta(p, burned, basket, ref)),
              !.realized_price = Clamped(@ + PriceDelta(p, basket, ref))]

\* crystallize_pnl: each total is clamped by itself.
Crystallized(p, burned, basket, ref) ==
    [p EXCEPT !.shares = @ - burned,
              !.net_deposits = @ - ReleasedBasis(p, burned),
              !.realized_pnl = Clamped(@ + PnlDelta(p, burned, basket, ref)),
              !.realized_yield = Clamped(@ + YieldDelta(p, burned, basket, ref)),
              !.realized_price = Clamped(@ + PriceDelta(p, basket, ref))]

\* withdraw and force_withdraw_depositor, at whatever price the vault has.
Withdraw(burned, basket, ref) ==
    LET p == position
        pnl_delta == PnlDelta(p, burned, basket, ref)
        after == Crystallized(p, burned, basket, ref)
    IN /\ burned <= p.shares
       /\ taken_out <= MaxFlow
       /\ position' = IF after.shares = 0 THEN NoPosition ELSE after
       /\ taken_out' = taken_out + Value(basket, ref)
       /\ reported' = reported + Clamped(pnl_delta)
       /\ clipped' = \/ clipped
                     \/ pnl_delta \notin Signed64
                     \/ p.realized_pnl + pnl_delta \notin Signed64
                     \/ p.realized_yield + YieldDelta(p, burned, basket, ref) \notin Signed64
                     \/ p.realized_price + PriceDelta(p, basket, ref) \notin Signed64
       /\ UNCHANGED put_in

Next ==
    \/ \E minted \in Lots, basket \in Baskets, ref \in RefPrices : Deposit(minted, basket, ref)
    \/ \E burned \in 1 .. MaxShares, basket \in Baskets, ref \in RefPrices :
          Withdraw(burned, basket, ref)

Spec == Init /\ [][Next]_positionVars

-----------------------------------------------------------------------------
(* Properties *)

\* The types of the account's fields: no total leaves its integer.
TypeOK ==
    /\ position \in VaultDepositor
    /\ put_in \in Nat /\ taken_out \in Nat /\ reported \in Int
    /\ clipped \in BOOLEAN

\* The profits reported are the depositor's cash flow: over any number of
\* top-offs, partial withdrawals and lives of the account, what came out, less
\* what went in, plus the basis of what is still inside.  No rounding leaks.
PnlIsCashFlow == ~clipped => reported = taken_out - put_in + position.net_deposits

\* The two components of the profit add up to it, until one was clamped.
SplitAddsUp ==
    ~clipped => position.realized_yield + position.realized_price = position.realized_pnl

=============================================================================
