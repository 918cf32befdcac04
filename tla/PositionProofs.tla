--------------------------- MODULE PositionProofs ---------------------------
(***************************************************************************)
(* The accounting of Position, for every price, basket and width of the    *)
(* integers.                                                               *)
(*                                                                         *)
(* The cash-flow identity needs the closing of an account to lose nothing: *)
(* an account without shares is all zeroes, and its last withdrawal        *)
(* releases the whole basis.  Both are part of the inductive invariant.    *)
(***************************************************************************)
EXTENDS Position, TLAPS

\* An account without shares is closed.
ClosedIsEmpty == position.shares = 0 => position = NoPosition

IInv == TypeOK /\ ClosedIsEmpty /\ PnlIsCashFlow /\ SplitAddsUp

-----------------------------------------------------------------------------
(* The arithmetic *)

\* A product of naturals divided by a positive one is a natural: the value of a
\* basket is never negative.
LEMMA DivNat ==
    ASSUME NEW a \in Nat, NEW b \in Nat \ {0}
    PROVE  a \div b \in Nat
  BY SMT

\* A share of a whole is no more than the whole, and all of it is the whole.
LEMMA ShareOfWhole ==
    ASSUME NEW n \in Nat, NEW s \in Nat \ {0}, NEW b \in 0 .. s
    PROVE  /\ (n * b) \div s \in 0 .. n
           /\ b = s => (n * b) \div s = n
  <1>1. n * b \in Nat /\ n * b <= n * s
    BY SMT
  <1>2. (n * b) \div s \in Nat
    BY <1>1, DivNat
  <1>3. (n * s) \div s = n
    BY SMT
  <1>4. (n * b) \div s <= (n * s) \div s
    BY <1>1, SMT
  <1> QED
    BY <1>2, <1>3, <1>4

\* A weighted average lies below any bound of what it averages.
LEMMA AverageBelow ==
    ASSUME NEW m \in Nat, NEW p \in 0 .. m, NEW q \in 0 .. m,
           NEW v \in Nat \ {0}, NEW w \in Nat
    PROVE  (v * p + w * q) \div (v + w) \in 0 .. m
  <1> DEFINE t == v + w
  <1>1. v * p \in Nat /\ v * p <= v * m /\ w * q \in Nat /\ w * q <= w * m
    BY SMT
  <1>2. v * m + w * m = m * t
    BY SMT
  <1>3. t \in Nat \ {0}
    OBVIOUS
  <1> DEFINE x == v * p + w * q
  <1>4. x \in Nat /\ x <= m * t
    BY <1>1, <1>2
  <1> HIDE DEF t, x
  <1>5. x \div t \in Nat
    BY <1>3, <1>4, DivNat
  <1>6. (m * t) \div t = m
    BY <1>3, SMT
  <1>7. x \div t <= (m * t) \div t
    BY <1>3, <1>4, SMT
  <1>8. x \div t \in 0 .. m
    BY <1>5, <1>6, <1>7
  <1> QED
    BY <1>8 DEF t, x

LEMMA QuoteNat ==
    ASSUME NEW price \in 0 .. Infinity, NEW base \in Nat
    PROVE  QuoteForBase(price, base) \in Nat
  <1>1. base * price \in Nat
    BY PositionAssumption DEF Infinity
  <1> QED
    BY <1>1, DivNat, PositionAssumption DEF QuoteForBase

LEMMA ValueNat ==
    ASSUME NEW price \in 0 .. Infinity, NEW basket \in Baskets
    PROVE  Value(basket, price) \in Nat
  <1>1. basket.base \in Nat /\ basket.quote \in Nat
    BY PositionAssumption
  <1> QED
    BY <1>1, QuoteNat DEF Value

LEMMA SaturatedType ==
    ASSUME NEW n \in Nat
    PROVE  Saturated(n) \in 0 .. U64Max /\ (n <= U64Max => Saturated(n) = n)
  BY PositionAssumption DEF Saturated

LEMMA ClampedType ==
    ASSUME NEW n \in Int
    PROVE  Clamped(n) \in Signed64 /\ (n \in Signed64 => Clamped(n) = n)
  BY PositionAssumption DEF Clamped, Signed64

\* The prices of a ladder of deposits: their average is a price.
LEMMA WeightedAverageType ==
    ASSUME NEW p \in 0 .. Infinity, NEW q \in 0 .. Infinity, NEW v \in Nat \ {0}, NEW w \in Nat
    PROVE  WeightedAverage(p, q, v, w) \in 0 .. Infinity
  <1>1. Infinity \in Nat
    BY PositionAssumption DEF Infinity
  <1> QED
    BY <1>1, AverageBelow DEF WeightedAverage

-----------------------------------------------------------------------------
(* The steps *)

LEMMA InitIInv == Init => IInv
  <1> SUFFICES ASSUME Init PROVE IInv
    OBVIOUS
  <1>1. NoPosition \in VaultDepositor
    BY PositionAssumption DEF NoPosition, VaultDepositor, Signed64, Infinity
  <1>2. TypeOK /\ ClosedIsEmpty
    <2>1. clipped \in BOOLEAN
      BY Zenon DEF Init
    <2>2. position \in VaultDepositor /\ ClosedIsEmpty
      BY <1>1, Zenon DEF Init, ClosedIsEmpty
    <2>3. put_in \in Nat /\ taken_out \in Nat /\ reported \in Int
      BY DEF Init
    <2> QED
      BY <2>1, <2>2, <2>3, Zenon DEF TypeOK
  <1>3. PnlIsCashFlow /\ SplitAddsUp
    BY DEF Init, PnlIsCashFlow, SplitAddsUp, NoPosition
  <1> QED
    BY <1>2, <1>3 DEF IInv

LEMMA DepositKeepsIInv ==
    ASSUME IInv, NEW minted \in Lots, NEW basket \in Baskets, NEW ref \in RefPrices,
           Deposit(minted, basket, ref)
    PROVE  IInv'
  <1> DEFINE value == Value(basket, ref)
  <1> DEFINE p == position
  <1>1. /\ p \in VaultDepositor /\ minted \in Nat \ {0}
        /\ put_in \in Nat /\ taken_out \in Nat /\ reported \in Int
    BY PositionAssumption DEF IInv, TypeOK
  <1>2. ref \in 0 .. Infinity /\ value \in Nat
    BY ValueNat, PositionAssumption
  <1>3. /\ Saturated(value) \in 0 .. U64Max
        /\ value <= U64Max => Saturated(value) = value
    BY <1>2, SaturatedType
  <1> DEFINE lot == Saturated(value)
  <1> HIDE DEF value, lot
  <1>4. /\ position' = Recorded(p, minted, lot, ref)
        /\ put_in' = put_in + value /\ taken_out' = taken_out /\ reported' = reported
        /\ clipped' = (clipped \/ p.net_deposits + value > U64Max)
    BY DEF Deposit, value, lot
  <1>5. CASE p.shares = 0
    <2>1. p = NoPosition
      BY <1>5 DEF IInv, ClosedIsEmpty
    <2>2. position' = [NoPosition EXCEPT !.shares = minted, !.net_deposits = lot,
                                         !.gross_deposited = lot, !.entry_ref_price = ref]
      BY <1>4, <1>5, <2>1 DEF Recorded
    <2>3. position' \in VaultDepositor /\ position'.shares # 0
      BY <1>1, <1>2, <1>3, <2>1, <2>2 DEF VaultDepositor, NoPosition, lot
    <2>4. PnlIsCashFlow'
      <3> SUFFICES ASSUME ~clipped' PROVE reported' = taken_out' - put_in' + position'.net_deposits
        BY DEF PnlIsCashFlow
      <3>1. ~clipped /\ ~(p.net_deposits + value > U64Max)
        BY <1>4, Zenon
      <3>2. p.net_deposits = 0
        BY <2>1 DEF NoPosition
      <3>3. lot = value
        BY <1>2, <1>3, <3>1, <3>2, PositionAssumption DEF lot
      <3>4. position'.net_deposits = value
        BY <2>2, <3>3 DEF NoPosition
      <3>5. reported = taken_out - put_in + 0
        BY <3>1, <3>2 DEF IInv, PnlIsCashFlow
      <3> QED
        BY <1>1, <1>2, <1>4, <3>4, <3>5
    <2>5. SplitAddsUp'
      BY <2>2 DEF SplitAddsUp, NoPosition
    <2> QED
      BY <1>1, <1>2, <1>4, <2>3, <2>4, <2>5 DEF IInv, TypeOK, ClosedIsEmpty
  <1>6. CASE p.shares # 0
    <2>1. /\ p.shares \in Nat \ {0} /\ p.net_deposits \in 0 .. U64Max
          /\ p.gross_deposited \in 0 .. U64Max /\ p.entry_ref_price \in 0 .. Infinity
      BY <1>1, <1>6 DEF VaultDepositor
    <2>2. /\ Saturated(p.net_deposits + lot) \in 0 .. U64Max
          /\ Saturated(p.gross_deposited + lot) \in 0 .. U64Max
          /\ p.net_deposits + lot <= U64Max
                => Saturated(p.net_deposits + lot) = p.net_deposits + lot
      BY <1>3, <2>1, SaturatedType, PositionAssumption DEF lot
    <2>3. WeightedAverage(p.entry_ref_price, ref, p.shares, minted) \in 0 .. Infinity
      BY <1>1, <1>2, <2>1, WeightedAverageType
    <2>4. position' = [p EXCEPT !.shares = p.shares + minted,
                                !.net_deposits = Saturated(p.net_deposits + lot),
                                !.gross_deposited = Saturated(p.gross_deposited + lot),
                                !.entry_ref_price =
                                    WeightedAverage(p.entry_ref_price, ref, p.shares, minted)]
      BY <1>1, <1>4, <1>6 DEF Recorded, VaultDepositor
    <2> DEFINE net == Saturated(p.net_deposits + lot)
    <2> DEFINE gross == Saturated(p.gross_deposited + lot)
    <2> DEFINE entry == WeightedAverage(p.entry_ref_price, ref, p.shares, minted)
    <2>5. position' \in VaultDepositor /\ position'.shares # 0
      <3>1. net \in 0 .. U64Max /\ gross \in 0 .. U64Max /\ entry \in 0 .. Infinity
        BY <2>2, <2>3
      <3>2. p.shares + minted \in Nat \ {0}
        BY <1>1, <2>1
      <3>3. position' = [p EXCEPT !.shares = p.shares + minted, !.net_deposits = net,
                                  !.gross_deposited = gross, !.entry_ref_price = entry]
        BY <2>4
      <3> HIDE DEF net, gross, entry
      <3> QED
        BY <1>1, <3>1, <3>2, <3>3 DEF VaultDepositor
    <2>6. position'.net_deposits = Saturated(p.net_deposits + lot)
      BY <1>1, <2>4 DEF VaultDepositor
    <2>7. PnlIsCashFlow'
      <3> SUFFICES ASSUME ~clipped' PROVE reported' = taken_out' - put_in' + position'.net_deposits
        BY DEF PnlIsCashFlow
      <3>0. ~clipped /\ ~(p.net_deposits + value > U64Max)
        BY <1>4, Zenon
      <3>1. ~clipped /\ p.net_deposits + value <= U64Max
        BY <1>2, <2>1, <3>0, PositionAssumption
      <3>2. lot = value
        BY <1>2, <1>3, <2>1, <3>1, PositionAssumption DEF lot
      <3>3. position'.net_deposits = p.net_deposits + value
        BY <2>2, <2>6, <3>1, <3>2
      <3>4. reported = taken_out - put_in + p.net_deposits
        BY <3>1 DEF IInv, PnlIsCashFlow
      <3> QED
        BY <1>1, <1>2, <1>4, <2>1, <3>3, <3>4, PositionAssumption
    <2>8. SplitAddsUp'
      BY <1>1, <1>4, <2>4 DEF IInv, SplitAddsUp, VaultDepositor
    <2> QED
      BY <1>1, <1>2, <1>4, <2>5, <2>7, <2>8 DEF IInv, TypeOK, ClosedIsEmpty
  <1> QED
    BY <1>5, <1>6

LEMMA WithdrawKeepsIInv ==
    ASSUME IInv, NEW burned \in 1 .. MaxShares, NEW basket \in Baskets, NEW ref \in RefPrices,
           Withdraw(burned, basket, ref)
    PROVE  IInv'
  <1> DEFINE p == position
  <1> DEFINE value == Value(basket, ref)
  <1> DEFINE entry_value == Value(basket, p.entry_ref_price)
  <1> DEFINE released == ReleasedBasis(p, burned)
  <1> DEFINE gain == PriceDelta(p, basket, ref)
  <1>1. /\ p \in VaultDepositor
        /\ put_in \in Nat /\ taken_out \in Nat /\ reported \in Int
    BY DEF IInv, TypeOK
  <1>2. /\ p.shares \in Nat \ {0} /\ burned \in 1 .. p.shares
        /\ p.net_deposits \in 0 .. U64Max /\ p.entry_ref_price \in 0 .. Infinity
        /\ p.realized_pnl \in Int /\ p.realized_yield \in Int /\ p.realized_price \in Int
    BY <1>1, PositionAssumption DEF Withdraw, VaultDepositor, Signed64
  <1>3. /\ value \in Nat /\ entry_value \in Nat
        /\ gain \in Int /\ value = entry_value + gain
    <2>1. basket.base \in Nat /\ basket.quote \in Nat /\ ref \in 0 .. Infinity
      BY PositionAssumption
    <2>2. QuoteForBase(ref, basket.base) \in Nat
          /\ QuoteForBase(p.entry_ref_price, basket.base) \in Nat
      BY <1>2, <2>1, QuoteNat
    <2> QED
      BY <2>1, <2>2 DEF Value, PriceDelta
  <1>4. released \in 0 .. p.net_deposits /\ (burned = p.shares => released = p.net_deposits)
    BY <1>2, ShareOfWhole, PositionAssumption DEF ReleasedBasis
  <1>5. /\ PnlDelta(p, burned, basket, ref) = value - released
        /\ YieldDelta(p, burned, basket, ref) = entry_value - released
    BY DEF PnlDelta, YieldDelta
  <1> DEFINE pnl == p.realized_pnl + (value - released)
  <1> DEFINE yield == p.realized_yield + (entry_value - released)
  <1> DEFINE price == p.realized_price + gain
  <1> DEFINE after == [p EXCEPT !.shares = p.shares - burned,
                                !.net_deposits = p.net_deposits - released,
                                !.realized_pnl = Clamped(pnl),
                                !.realized_yield = Clamped(yield),
                                !.realized_price = Clamped(price)]
  <1>6. Crystallized(p, burned, basket, ref) = after
    BY <1>1, <1>5 DEF Crystallized, VaultDepositor
  <1>7. /\ position' = (IF after.shares = 0 THEN NoPosition ELSE after)
        /\ put_in' = put_in /\ taken_out' = taken_out + value
        /\ reported' = reported + Clamped(value - released)
        /\ clipped' = (\/ clipped
                       \/ value - released \notin Signed64
                       \/ pnl \notin Signed64
                       \/ yield \notin Signed64
                       \/ price \notin Signed64)
    BY <1>5, <1>6 DEF Withdraw
  <1> HIDE DEF value, entry_value, released, gain
  <1>8. /\ value - released \in Int /\ pnl \in Int /\ yield \in Int /\ price \in Int
        /\ pnl = p.realized_pnl + value - released
    BY <1>2, <1>3, <1>4
  <1>9. /\ Clamped(value - released) \in Signed64 /\ Clamped(pnl) \in Signed64
        /\ Clamped(yield) \in Signed64 /\ Clamped(price) \in Signed64
    BY <1>8, ClampedType
  <1>10. Signed64 \subseteq Int
    BY PositionAssumption DEF Signed64
  <1>11. NoPosition \in VaultDepositor
    BY PositionAssumption DEF NoPosition, VaultDepositor, Signed64, Infinity
  <1>12. after \in VaultDepositor /\ after.shares = p.shares - burned
         /\ after.net_deposits = p.net_deposits - released
         /\ after.realized_pnl = Clamped(pnl) /\ after.realized_yield = Clamped(yield)
         /\ after.realized_price = Clamped(price)
    <2>1. p.shares - burned \in Nat /\ p.net_deposits - released \in 0 .. U64Max
      BY <1>2, <1>4, PositionAssumption
    <2> HIDE DEF pnl, yield, price
    <2> QED
      BY <1>1, <1>9, <2>1 DEF VaultDepositor
  <1> HIDE DEF after
  <1>13. TypeOK'
    <2>1. position' \in VaultDepositor
      BY <1>7, <1>11, <1>12
    <2>2. put_in' \in Nat /\ taken_out' \in Nat /\ reported' \in Int
      BY <1>1, <1>3, <1>7, <1>9, <1>10
    <2>3. clipped' \in BOOLEAN
      BY <1>7, Zenon
    <2> QED
      BY <2>1, <2>2, <2>3 DEF TypeOK
  <1>14. ClosedIsEmpty'
    BY <1>7, <1>12 DEF ClosedIsEmpty
  <1>15. position'.net_deposits = p.net_deposits - released
    <2>1. CASE after.shares = 0
      <3>1. released = p.net_deposits
        BY <1>2, <1>4, <1>12, <2>1
      <3>2. position'.net_deposits = 0
        BY <1>7, <2>1 DEF NoPosition
      <3> QED
        BY <1>2, <3>1, <3>2
    <2>2. CASE after.shares # 0
      BY <1>7, <1>12, <2>2
    <2> QED
      BY <2>1, <2>2
  <1>16. ASSUME ~clipped'
         PROVE  /\ ~clipped /\ value - released \in Signed64 /\ pnl \in Signed64
                /\ yield \in Signed64 /\ price \in Signed64
    BY <1>7, <1>16, Zenon
  <1>17. PnlIsCashFlow'
    <2> SUFFICES ASSUME ~clipped' PROVE reported' = taken_out' - put_in' + position'.net_deposits
      BY DEF PnlIsCashFlow
    <2>1. Clamped(value - released) = value - released
      BY <1>8, <1>16, ClampedType
    <2>2. reported = taken_out - put_in + p.net_deposits
      BY <1>16 DEF IInv, PnlIsCashFlow
    <2> QED
      BY <1>1, <1>2, <1>3, <1>4, <1>7, <1>15, <2>1, <2>2
  <1>18. SplitAddsUp'
    <2> SUFFICES ASSUME ~clipped'
                 PROVE  position'.realized_yield + position'.realized_price
                          = position'.realized_pnl
      BY DEF SplitAddsUp
    <2>1. Clamped(pnl) = pnl /\ Clamped(yield) = yield /\ Clamped(price) = price
      BY <1>8, <1>16, ClampedType
    <2>2. p.realized_yield + p.realized_price = p.realized_pnl
      BY <1>16 DEF IInv, SplitAddsUp
    <2>3. yield + price = pnl
      BY <1>2, <1>3, <1>4, <2>2
    <2>4. CASE after.shares = 0
      BY <1>7, <2>4 DEF NoPosition
    <2>5. CASE after.shares # 0
      BY <1>7, <1>12, <2>1, <2>3, <2>5
    <2> QED
      BY <2>4, <2>5
  <1> QED
    BY <1>13, <1>14, <1>17, <1>18 DEF IInv

LEMMA StutterKeepsIInv ==
    ASSUME IInv, UNCHANGED positionVars
    PROVE  IInv'
  BY DEF IInv, positionVars, TypeOK, ClosedIsEmpty, PnlIsCashFlow, SplitAddsUp

-----------------------------------------------------------------------------
(* The theorems *)

THEOREM PositionInductive == Spec => []IInv
  <1>1. IInv /\ [Next]_positionVars => IInv'
    BY DepositKeepsIInv, WithdrawKeepsIInv, StutterKeepsIInv DEF Next
  <1> QED
    BY InitIInv, <1>1, PTL DEF Spec

\* No field of the account leaves its integer.
THEOREM PositionTypeCorrect == Spec => []TypeOK
  <1>1. IInv => TypeOK
    BY DEF IInv
  <1> QED
    BY <1>1, PositionInductive, PTL

\* The profits reported are what came out, less what went in, plus the basis of
\* what is still inside, whatever was rounded on the way.
THEOREM PositionPnlIsCashFlow == Spec => []PnlIsCashFlow
  <1>1. IInv => PnlIsCashFlow
    BY DEF IInv
  <1> QED
    BY <1>1, PositionInductive, PTL

\* Yield and price add up to the profit as long as nothing was clamped.
THEOREM PositionSplitAddsUp == Spec => []SplitAddsUp
  <1>1. IInv => SplitAddsUp
    BY DEF IInv
  <1> QED
    BY <1>1, PositionInductive, PTL
=============================================================================
