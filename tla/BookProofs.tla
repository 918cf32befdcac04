----------------------------- MODULE BookProofs -----------------------------
(***************************************************************************)
(* Facts of Book that hold for every ladder, price, fee and number of      *)
(* vaults: that the heap lists the live levels in price-time order, what   *)
(* holds after each entry of a swap's walk over it, with both the          *)
(* inductive invariant of the book, and that the off-chain quoter walks    *)
(* the same levels to the same end.                                        *)
(***************************************************************************)
EXTENDS Quoter, FoldFacts

-----------------------------------------------------------------------------
(* Sorting *)

\* lt is a strict total order on S.
StrictOrder(S, lt) ==
    /\ \A e \in S : <<e, e>> \notin lt
    /\ \A e, f \in S : e # f => <<e, f>> \in lt \/ <<f, e>> \in lt
    /\ \A e, f, g \in S : <<e, f>> \in lt /\ <<f, g>> \in lt => <<e, g>> \in lt

\* How many members of S stand ahead of each.
Ahead(S, lt) == [e \in S |-> 1 + Cardinality({f \in S : <<f, e>> \in lt})]

\* s lists each member of S once, in the order lt.
Lists(s, S, lt) ==
    /\ s \in [1 .. Cardinality(S) -> S]
    /\ \A i, j \in 1 .. Cardinality(S) : i < j => <<s[i], s[j]>> \in lt
    /\ \A e \in S : \E i \in 1 .. Cardinality(S) : s[i] = e

LEMMA AheadOrders ==
    ASSUME NEW S, IsFiniteSet(S), NEW lt, StrictOrder(S, lt)
    PROVE  /\ Ahead(S, lt) \in [S -> 1 .. Cardinality(S)]
           /\ \A e, f \in S : <<e, f>> \in lt => Ahead(S, lt)[e] < Ahead(S, lt)[f]
  <1> DEFINE below(e) == {f \in S : <<f, e>> \in lt}
  <1>1. ASSUME NEW e \in S
        PROVE  /\ IsFiniteSet(below(e)) /\ Cardinality(below(e)) \in Nat
               /\ Cardinality(below(e) \cup {e}) = Cardinality(below(e)) + 1
    <2>1. IsFiniteSet(below(e))
      BY FS_Subset
    <2>2. e \notin below(e)
      BY DEF StrictOrder
    <2> HIDE DEF below
    <2> QED
      BY <2>1, <2>2, FS_AddElement, FS_CardinalityType
  <1>2. ASSUME NEW e \in S
        PROVE  Cardinality(below(e)) + 1 <= Cardinality(S)
    <2>1. below(e) \cup {e} \in SUBSET S
      OBVIOUS
    <2> HIDE DEF below
    <2> QED
      BY <1>1, <2>1, FS_Subset
  <1>3. ASSUME NEW e \in S, NEW f \in S, <<e, f>> \in lt
        PROVE  Cardinality(below(e)) < Cardinality(below(f))
    <2>1. below(e) \cup {e} \in SUBSET below(f)
      BY <1>3 DEF StrictOrder
    <2>2. /\ IsFiniteSet(below(f)) /\ Cardinality(below(e)) \in Nat
          /\ Cardinality(below(f)) \in Nat
          /\ Cardinality(below(e) \cup {e}) = Cardinality(below(e)) + 1
      BY <1>1
    <2> HIDE DEF below
    <2>3. Cardinality(below(e) \cup {e}) <= Cardinality(below(f))
      BY <2>1, <2>2, FS_Subset
    <2> QED
      BY <2>2, <2>3
  <1>4. Ahead(S, lt) = [e \in S |-> 1 + Cardinality(below(e))]
    BY DEF Ahead
  <1>5. Cardinality(S) \in Nat
    BY FS_CardinalityType
  <1> HIDE DEF below
  <1>6. ASSUME NEW e \in S
        PROVE  1 + Cardinality(below(e)) \in 1 .. Cardinality(S)
    <2> DEFINE c == Cardinality(below(e))
               n == Cardinality(S)
    <2>1. c \in Nat /\ c + 1 <= n /\ n \in Nat
      BY <1>1, <1>2, <1>5
    <2> HIDE DEF c, n
    <2>2. 1 + c \in 1 .. n
      BY <2>1
    <2> QED
      BY <2>2 DEF c, n
  <1>7. Ahead(S, lt) \in [S -> 1 .. Cardinality(S)]
    BY <1>4, <1>6
  <1>8. ASSUME NEW e \in S, NEW f \in S, <<e, f>> \in lt
        PROVE  Ahead(S, lt)[e] < Ahead(S, lt)[f]
    <2> DEFINE c == Cardinality(below(e))
               d == Cardinality(below(f))
    <2>1. c \in Nat /\ d \in Nat /\ c < d
      BY <1>1, <1>3, <1>8
    <2>2. Ahead(S, lt)[e] = 1 + c /\ Ahead(S, lt)[f] = 1 + d
      BY <1>4
    <2> HIDE DEF c, d
    <2> QED
      BY <2>1, <2>2
  <1> QED
    BY <1>7, <1>8

\* Sorting by the number of members ahead lists the set.
LEMMA SortedLists ==
    ASSUME NEW S, IsFiniteSet(S), NEW lt, StrictOrder(S, lt)
    PROVE  /\ Lists(AntiFunction(Ahead(S, lt)), S, lt)
           /\ \A k \in 1 .. Cardinality(S) :
                 Ahead(S, lt)[AntiFunction(Ahead(S, lt))[k]] = k
  <1> DEFINE a == Ahead(S, lt)
             n == Cardinality(S)
             s == AntiFunction(a)
  <1>1. /\ a \in [S -> 1 .. n] /\ \A e, f \in S : <<e, f>> \in lt => a[e] < a[f]
        /\ n \in Nat
    BY AheadOrders, FS_CardinalityType
  <1>2. \A e \in S : a[e] \in 1 .. n
    BY <1>1
  <1> HIDE DEF a, n
  <1>3. ASSUME NEW e \in S, NEW f \in S, a[e] = a[f]
        PROVE  e = f
    <2>1. ~(a[e] < a[f]) /\ ~(a[f] < a[e])
      BY <1>1, <1>2, <1>3
    <2> QED
      BY <1>1, <2>1 DEF StrictOrder
  <1>4. a \in Injection(S, 1 .. n)
    BY <1>1, <1>3 DEF Injection, IsInjective
  <1>5. IsFiniteSet(1 .. n) /\ Cardinality(1 .. n) = n
    BY <1>1, FS_Interval
  <1>6. a \in Surjection(S, 1 .. n)
    BY <1>4, <1>5, FS_Injection DEF n
  <1>7. \A k \in 1 .. n : \E e \in S : a[e] = k
    BY <1>6 DEF Surjection
  <1>8. Range(a) = 1 .. n /\ DOMAIN a = S
    BY <1>1, <1>7 DEF Range
  <1>9. s = [k \in 1 .. n |-> CHOOSE e \in S : k \in 1 .. n => a[e] = k]
    BY <1>8 DEF AntiFunction, Inverse
  <1> HIDE DEF s
  <1>10. ASSUME NEW k \in 1 .. n
         PROVE  s[k] \in S /\ a[s[k]] = k
    <2>1. \E e \in S : k \in 1 .. n => a[e] = k
      BY <1>7
    <2>2. s[k] = CHOOSE e \in S : k \in 1 .. n => a[e] = k
      BY <1>9
    <2> QED
      BY <2>1, <2>2
  <1>11. s \in [1 .. n -> S]
    BY <1>9, <1>10
  <1>12. ASSUME NEW i \in 1 .. n, NEW j \in 1 .. n, i < j
         PROVE  <<s[i], s[j]>> \in lt
    <2>1. s[i] \in S /\ s[j] \in S /\ a[s[i]] = i /\ a[s[j]] = j
      BY <1>10
    <2>2. ~(<<s[j], s[i]>> \in lt)
      BY <1>1, <1>12, <2>1
    <2>3. s[i] # s[j]
      BY <1>12, <2>1
    <2> QED
      BY <2>1, <2>2, <2>3 DEF StrictOrder
  <1>13. ASSUME NEW e \in S
         PROVE  \E i \in 1 .. n : s[i] = e
    BY <1>2, <1>3, <1>10
  <1>14. Lists(s, S, lt)
    BY <1>11, <1>12, <1>13 DEF Lists, n
  <1> QED
    BY <1>10, <1>14 DEF s, a, n

-----------------------------------------------------------------------------
(* Arithmetic *)

LEMMA DivFacts ==
    ASSUME NEW a \in Nat, NEW b \in Nat \ {0}
    PROVE  a \div b \in Nat /\ (a \div b) * b <= a /\ a < (a \div b) * b + b
  OBVIOUS

LEMMA ProductGrows ==
    ASSUME NEW a \in Nat, NEW b \in Nat, NEW c \in Nat, a <= b
    PROVE  a * c \in Nat /\ b * c \in Nat /\ a * c <= b * c
  <1>1. (b - a) * c \in Nat /\ b * c = a * c + (b - a) * c
    OBVIOUS
  <1>2. a * c \in Nat /\ b * c \in Nat
    OBVIOUS
  <1> QED
    BY <1>1, <1>2

LEMMA QuotientBelow ==
    ASSUME NEW a \in Nat, NEW b \in Nat \ {0}, NEW q \in Nat, a <= q * b
    PROVE  a \div b <= q
  <1> DEFINE d == a \div b
  <1>1. d \in Nat /\ d * b <= a
    BY DivFacts
  <1> HIDE DEF d
  <1>2. CASE d >= q + 1
    <2>1. (q + 1) * b <= d * b
      BY <1>1, <1>2, ProductGrows
    <2>2. (q + 1) * b = q * b + b /\ q * b \in Nat /\ d * b \in Nat
      BY <1>1
    <2> QED
      BY <1>1, <2>1, <2>2
  <1> QED
    BY <1>1, <1>2 DEF d

LEMMA QuotientGrows ==
    ASSUME NEW a \in Nat, NEW c \in Nat, NEW b \in Nat \ {0}, a <= c
    PROVE  a \div b <= c \div b
  <1> DEFINE e == c \div b
             d == a \div b
  <1>1. d \in Nat /\ e \in Nat /\ d * b <= a /\ c < e * b + b
    BY DivFacts
  <1> HIDE DEF d, e
  <1>2. CASE d >= e + 1
    <2>1. (e + 1) * b <= d * b
      BY <1>1, <1>2, ProductGrows
    <2>2. (e + 1) * b = e * b + b /\ e * b \in Nat /\ d * b \in Nat
      BY <1>1
    <2> QED
      BY <1>1, <2>1, <2>2
  <1> QED
    BY <1>1, <1>2 DEF d, e

\* Rounding down on the way there and on the way back loses, never gains.
LEMMA RoundTrip ==
    ASSUME NEW u \in Nat, NEW p \in Nat \ {0}, NEW s \in Nat \ {0}
    PROVE  (((u * s) \div p) * p) \div s <= u
  <1> DEFINE d == (u * s) \div p
  <1>1. u * s \in Nat
    OBVIOUS
  <1>2. d \in Nat /\ d * p <= u * s
    BY <1>1, DivFacts
  <1> HIDE DEF d
  <1>3. d * p \in Nat
    BY <1>2
  <1>4. (d * p) \div s <= u
    BY <1>2, <1>3, QuotientBelow
  <1> QED
    BY <1>4 DEF d

\* What an amount buys and what an amount costs, at a price a level can have.
LEMMA ConversionFacts ==
    ASSUME NEW side \in Sides, NEW price \in 1 .. MaxPrice, NEW a \in Nat
    PROVE  /\ OutputFor(side, price, a) \in Nat /\ InputFor(side, price, a) \in Nat
           /\ InputFor(side, price, OutputFor(side, price, a)) <= a
           /\ \A b \in Nat : b <= a => InputFor(side, price, b) <= InputFor(side, price, a)
  <1>1. price \in Nat \ {0} /\ PriceScale \in Nat \ {0}
    BY BookAssumption
  <1>2. a * price \in Nat /\ a * PriceScale \in Nat
    BY <1>1
  <1>3. BaseForQuote(price, a) \in Nat /\ QuoteForBase(price, a) \in Nat
    BY <1>1, <1>2, DivFacts DEF BaseForQuote, QuoteForBase
  <1>4. InputFor(side, price, OutputFor(side, price, a)) <= a
    <2>1. CASE side = "ask"
      BY <1>1, <2>1, RoundTrip DEF InputFor, OutputFor, BaseForQuote, QuoteForBase
    <2>2. CASE side # "ask"
      BY <1>1, <2>2, RoundTrip DEF InputFor, OutputFor, BaseForQuote, QuoteForBase
    <2> QED
      BY <2>1, <2>2
  <1>5. ASSUME NEW b \in Nat, b <= a
        PROVE  /\ BaseForQuote(price, b) <= BaseForQuote(price, a)
               /\ QuoteForBase(price, b) <= QuoteForBase(price, a)
    <2>1. /\ b * PriceScale \in Nat /\ b * PriceScale <= a * PriceScale
          /\ b * price \in Nat /\ b * price <= a * price
      BY <1>1, <1>5, ProductGrows
    <2> QED
      BY <1>1, <1>2, <2>1, QuotientGrows DEF BaseForQuote, QuoteForBase
  <1> QED
    BY <1>3, <1>4, <1>5 DEF InputFor, OutputFor

\* compute_fill takes no more than the level, its vault and the taker have; a
\* level it passes is worth nothing, and one it fills is used up unless the
\* taker's budget is.
LEMMA FillFacts ==
    ASSUME NEW side \in Sides, NEW e, e.price \in 1 .. MaxPrice, e.size \in Nat,
           NEW unfilled \in Nat, NEW stock \in Nat
    PROVE  LET fill == ComputeFill(side, e, unfilled, stock) IN
           /\ fill.out \in Nat /\ fill.in \in Nat /\ fill.residue \in Nat
           /\ fill.out <= e.size /\ fill.out <= stock /\ fill.in + fill.residue <= unfilled
           /\ fill.fills <=> fill.out > 0 /\ fill.in > 0
           /\ ~fill.fills /\ ~fill.exhausted =>
                 fill.out = Lesser(e.size, stock) /\ (fill.out = 0 \/ fill.in = 0)
           /\ fill.in + fill.residue = unfilled \/ fill.out = Lesser(e.size, stock)
           /\ fill.in = InputFor(side, e.price, fill.out)
  <1> DEFINE cap == OutputFor(side, e.price, unfilled)
             out == Lesser(cap, Lesser(e.size, stock))
             in == InputFor(side, e.price, out)
  <1>1. cap \in Nat /\ InputFor(side, e.price, cap) <= unfilled
    BY ConversionFacts
  <1> HIDE DEF cap
  <1>2. /\ out \in Nat /\ out <= e.size /\ out <= stock /\ out <= cap
        /\ out = cap \/ out = Lesser(e.size, stock)
    BY <1>1 DEF Lesser
  <1> HIDE DEF out
  <1>3. in \in Nat /\ in <= InputFor(side, e.price, cap)
    BY <1>1, <1>2, ConversionFacts
  <1>4. in <= unfilled
    <2>1. InputFor(side, e.price, cap) \in Nat
      BY <1>1, ConversionFacts
    <2> QED
      BY <1>1, <1>3, <2>1
  <1>5. in = InputFor(side, e.price, out)
    OBVIOUS
  <1> DEFINE fills == out > 0 /\ in > 0
             exhausted == out = cap /\ (out = 0 \/ in = 0)
             residue == IF out = cap THEN unfilled - in ELSE 0
             fill == ComputeFill(side, e, unfilled, stock)
  <1>6. fill = [out |-> out, in |-> in, fills |-> fills, exhausted |-> exhausted,
                residue |-> residue]
    BY DEF ComputeFill, cap, out, in
  <1> HIDE DEF in, fills, exhausted, residue, fill
  <1>7. /\ fill.out = out /\ fill.in = in /\ fill.residue = residue
        /\ fill.fills = fills /\ fill.exhausted = exhausted
    BY <1>6
  <1>8. /\ fill.residue \in Nat /\ in + fill.residue <= unfilled
        /\ (in + fill.residue = unfilled \/ out = Lesser(e.size, stock))
    <2>1. CASE out = cap
      BY <1>3, <1>4, <1>7, <2>1 DEF residue
    <2>2. CASE out # cap
      BY <1>2, <1>3, <1>4, <1>7, <2>2 DEF residue
    <2> QED
      BY <2>1, <2>2
  <1>9. fill.fills <=> out > 0 /\ in > 0
    BY <1>7 DEF fills
  <1>10. ~fill.fills /\ ~fill.exhausted =>
          out = Lesser(e.size, stock) /\ (out = 0 \/ in = 0)
    <2>1. fill.exhausted <=> out = cap /\ (out = 0 \/ in = 0)
      BY <1>7 DEF exhausted
    <2> QED
      BY <1>2, <1>3, <1>9, <2>1
  <1> QED
    BY <1>2, <1>3, <1>5, <1>7, <1>8, <1>9, <1>10 DEF fill

-----------------------------------------------------------------------------
(* Ladders *)

LEMMA SidesAndLegs ==
    /\ \A side \in Sides : /\ LegOf(side) \in Legs /\ OtherSide(side) \in Sides
                           /\ OtherSide(side) # side /\ OtherSide(OtherSide(side)) = side
                           /\ LegOf(OtherSide(side)) # LegOf(side)
    /\ \A leg \in Legs : \E side \in Sides : LegOf(side) = leg
    /\ \A s, t \in Sides : t = s \/ t = OtherSide(s)
    /\ \A s, t \in Sides : LegOf(s) = LegOf(t) => s = t
    /\ IsFiniteSet(Levels) /\ IsFiniteSet(Vaults)
  <1>1. IsFiniteSet(Levels)
    BY BookAssumption, FS_Interval DEF Levels
  <1> QED
    BY <1>1, BookAssumption DEF Sides, Legs, LegOf, OtherSide

LEMMA FlushPriceType ==
    ASSUME NEW reference \in Prices, NEW offset \in Nat, NEW side \in Sides
    PROVE  FlushLevelPrice(reference, offset, side) \in Prices
  <1> DEFINE factor == IF side = "ask" THEN PPM + offset ELSE PPM - Lesser(offset, PPM)
             scaled == (reference * factor) \div PPM
  <1>1. PPM \in Nat \ {0} /\ MaxPrice \in Nat \ {0} /\ reference \in Nat
    BY ShareMathAssumption, BookAssumption DEF Prices, Infinity
  <1>2. factor \in Nat
    BY <1>1 DEF Lesser
  <1> HIDE DEF factor
  <1>3. reference * factor \in Nat
    BY <1>1, <1>2
  <1>4. scaled \in Nat
    BY <1>1, <1>3, DivFacts
  <1>5. FlushLevelPrice(reference, offset, side) =
          IF ~Matchable(reference) THEN reference ELSE IF scaled <= MaxPrice THEN scaled ELSE 0
    BY DEF FlushLevelPrice, factor
  <1> HIDE DEF scaled
  <1> QED
    BY <1>1, <1>4, <1>5 DEF Prices, Infinity

LEMMA DeadlineType ==
    ASSUME NEW datum \in 0 .. ClockMax, NEW span \in Nat
    PROVE  DeadlineAfter(datum, span) \in 0 .. ClockMax
  BY BookAssumption DEF DeadlineAfter, Lesser

LEMMA SizeType ==
    ASSUME NEW atoms \in Nat, NEW size_bps \in Nat
    PROVE  (atoms * size_bps) \div BPS \in Nat
  <1>1. atoms * size_bps \in Nat /\ BPS \in Nat \ {0}
    BY BookAssumption
  <1> QED
    BY <1>1, DivFacts

LEMMA LevelTypes ==
    ASSUME NEW v \in Vault, NEW side \in Sides, NEW i \in Levels
    PROVE  LET level == v.profile[side][i] IN
           /\ level.offset \in Nat /\ level.size_bps \in Nat /\ level.flip_spread \in Nat
           /\ level.wall_span \in Nat /\ level.slot_span \in Nat
           /\ v.atoms[LegOf(side)] \in Nat
  <1>1. v.profile \in Profile
    BY BookAssumption DEF Vault
  <1>2. v.profile[side][i] \in Level
    BY <1>1 DEF Profile
  <1>3. v.atoms \in [Legs -> Nat]
    BY DEF Vault
  <1> QED
    BY <1>2, <1>3, SidesAndLegs DEF Level

LEMMA MaterializedLevelType ==
    ASSUME NEW v \in Vault, NEW side \in Sides, NEW i \in Levels
    PROVE  MaterializedLevel(v, side, i) \in Position
  <1> DEFINE level == v.profile[side][i]
             price == FlushLevelPrice(v.price, level.offset, side)
             size == IF SideSum(v.profile, side) <= BPS
                     THEN (v.atoms[LegOf(side)] * level.size_bps) \div BPS ELSE 0
             flip_price == FlipLevelPrice(price, level.flip_spread, side)
             unix_deadline == DeadlineAfter(v.quote_unix, level.wall_span)
             slot_deadline == DeadlineAfter(v.quote_slot, level.slot_span)
  <1>1. /\ level.offset \in Nat /\ level.size_bps \in Nat /\ level.flip_spread \in Nat
        /\ level.wall_span \in Nat /\ level.slot_span \in Nat
        /\ v.atoms[LegOf(side)] \in Nat
    BY LevelTypes
  <1>2. v.price \in Prices /\ v.quote_unix \in 0 .. ClockMax /\ v.quote_slot \in 0 .. ClockMax
    BY DEF Vault
  <1>3. MaterializedLevel(v, side, i) =
          [price |-> price, size |-> size, flip_price |-> flip_price, flip_size |-> 0,
           unix_deadline |-> unix_deadline, slot_deadline |-> slot_deadline]
    BY DEF MaterializedLevel
  <1> HIDE DEF level
  <1>4. price \in Prices
    BY <1>1, <1>2, FlushPriceType
  <1>5. size \in Nat
    BY <1>1, SizeType
  <1> HIDE DEF price, size
  <1>6. flip_price \in Prices
    <2>1. 0 \in Prices
      BY BookAssumption DEF Prices, Infinity
    <2> QED
      BY <1>1, <1>4, <2>1, FlushPriceType, SidesAndLegs DEF FlipLevelPrice
  <1>7. unix_deadline \in 0 .. ClockMax /\ slot_deadline \in 0 .. ClockMax
    BY <1>1, <1>2, DeadlineType
  <1> HIDE DEF flip_price, unix_deadline, slot_deadline
  <1> QED
    BY <1>3, <1>4, <1>5, <1>6, <1>7 DEF Position

\* The levels of one vault.
Ladder == [Sides -> [Levels -> Position]]

LEMMA MaterializedType ==
    ASSUME NEW v \in Vault
    PROVE  Materialized(v) \in Ladder
  BY MaterializedLevelType DEF Materialized, Ladder

LEMMA RestedType ==
    ASSUME TypeOK, NEW x \in Vaults
    PROVE  vaults[x] \in Vault /\ remaining[x] \in Ladder /\ Rested(x) \in Ladder
  BY MaterializedType DEF TypeOK, Rested, Ladder

-----------------------------------------------------------------------------
(* The heap *)

EntrySet == [vault : Vaults, level : Levels, flipped : BOOLEAN, nonce : Nat, price : Prices,
             size : Nat]

\* An entry is one half of one level of a quoting vault.
LEMMA EntryFacts ==
    ASSUME TypeOK, NEW side \in Sides, NEW e \in Entries(side)
    PROVE  /\ e \in EntrySet /\ Quoting(e.vault) /\ Matchable(e.price)
           /\ e = IF e.flipped THEN FlippedEntry(side, e.vault, e.level)
                  ELSE OwnEntry(side, e.vault, e.level)
           /\ LevelIsLive(e.price, e.size,
                          Rested(e.vault)[RestingSide(side, e)][e.level])
  <1>1. LevelIsLive(e.price, e.size, Rested(e.vault)[RestingSide(side, e)][e.level])
    BY DEF Entries
  <1>2. Matchable(e.price)
    BY <1>1 DEF LevelIsLive
  <1>3. PICK x \in Vaults, i \in Levels :
          Quoting(x) /\ (e = OwnEntry(side, x, i) \/ e = FlippedEntry(side, x, i))
    BY DEF Entries
  <1>4. \A s \in Sides : Rested(x)[s][i] \in Position
    BY RestedType DEF Ladder
  <1>5. vaults[x].stamp \in Nat
    BY RestedType DEF Vault
  <1>6. CASE e = OwnEntry(side, x, i)
    <2>1. Rested(x)[side][i].price \in Prices /\ Rested(x)[side][i].size \in Nat
      BY <1>4 DEF Position
    <2>2. e \in EntrySet /\ e.vault = x /\ e.level = i /\ e.flipped = FALSE
      BY <1>5, <1>6, <2>1 DEF OwnEntry, EntrySet
    <2> QED
      BY <1>1, <1>2, <1>3, <1>6, <2>2
  <1>7. CASE e = FlippedEntry(side, x, i)
    <2>1. /\ Rested(x)[OtherSide(side)][i].flip_price \in Prices
          /\ Rested(x)[OtherSide(side)][i].flip_size \in Nat
      BY <1>4, SidesAndLegs DEF Position
    <2>2. e \in EntrySet /\ e.vault = x /\ e.level = i /\ e.flipped = TRUE
      BY <1>5, <1>7, <2>1 DEF FlippedEntry, EntrySet
    <2> QED
      BY <1>1, <1>2, <1>3, <1>7, <2>2
  <1> QED
    BY <1>3, <1>6, <1>7

\* Two entries with the same place in the slab and the same half are the same.
LEMMA EntriesDiffer ==
    ASSUME TypeOK, NEW side \in Sides, NEW e \in Entries(side), NEW f \in Entries(side),
           e.vault = f.vault, e.level = f.level, e.flipped <=> f.flipped
    PROVE  e = f
  <1>1. CASE e.flipped
    BY <1>1, EntryFacts
  <1>2. CASE ~e.flipped
    BY <1>2, EntryFacts
  <1> QED
    BY <1>1, <1>2

LEMMA EntriesFinite ==
    ASSUME NEW side
    PROVE  IsFiniteSet(Entries(side))
  <1> DEFINE own == [p \in Vaults \X Levels |-> OwnEntry(side, p[1], p[2])]
             flips == [p \in Vaults \X Levels |-> FlippedEntry(side, p[1], p[2])]
  <1>1. IsFiniteSet(Vaults \X Levels)
    BY SidesAndLegs, FS_Product
  <1>2. IsFiniteSet(Range(own)) /\ IsFiniteSet(Range(flips))
    <2>1. own \in Surjection(Vaults \X Levels, Range(own))
      BY DEF Surjection, Range
    <2>2. flips \in Surjection(Vaults \X Levels, Range(flips))
      BY DEF Surjection, Range
    <2> HIDE DEF own, flips
    <2> QED
      BY <1>1, <2>1, <2>2, FS_Surjection
  <1>3. Entries(side) \subseteq Range(own) \cup Range(flips)
    <2>1. ASSUME NEW x \in Vaults, NEW i \in Levels
          PROVE  OwnEntry(side, x, i) \in Range(own) /\ FlippedEntry(side, x, i) \in Range(flips)
      <3>1. <<x, i>> \in Vaults \X Levels
        OBVIOUS
      <3>2. own[<<x, i>>] = OwnEntry(side, x, i) /\ flips[<<x, i>>] = FlippedEntry(side, x, i)
        BY <3>1
      <3> QED
        BY <3>1, <3>2 DEF Range
    <2> HIDE DEF own, flips
    <2> QED
      BY <2>1 DEF Entries
  <1> HIDE DEF own, flips
  <1> QED
    BY <1>2, <1>3, FS_Union, FS_Subset

\* What KeyBefore compares, first difference first.
LEMMA KeyOrder ==
    ASSUME NEW a, NEW b
    PROVE  KeyBefore(a, b) <=>
             \/ a[1] < b[1]
             \/ a[1] = b[1] /\ a[2] < b[2]
             \/ a[1] = b[1] /\ a[2] = b[2] /\ a[3] < b[3]
             \/ a[1] = b[1] /\ a[2] = b[2] /\ a[3] = b[3] /\ a[4] < b[4]
             \/ a[1] = b[1] /\ a[2] = b[2] /\ a[3] = b[3] /\ a[4] = b[4] /\ a[5] < b[5]
  <1>1. 1 .. 5 = {1, 2, 3, 4, 5} /\ 1 .. 1 - 1 = {} /\ 1 .. 2 - 1 = {1} /\ 1 .. 3 - 1 = {1, 2}
        /\ 1 .. 4 - 1 = {1, 2, 3} /\ 1 .. 5 - 1 = {1, 2, 3, 4}
    OBVIOUS
  <1>2. KeyBefore(a, b) <=> \E k \in {1, 2, 3, 4, 5} :
                               a[k] < b[k] /\ \A j \in 1 .. k - 1 : a[j] = b[j]
    BY <1>1 DEF KeyBefore
  <1> QED
    BY <1>1, <1>2

\* The order of the heap, as a relation on keys and on entries.
IsKey(a) == /\ a[1] \in Int /\ a[2] \in Int /\ a[3] \in Int /\ a[4] \in Int /\ a[5] \in Int

LEMMA KeysAreOrdered ==
    ASSUME NEW a, NEW b, NEW c, IsKey(a), IsKey(b), IsKey(c)
    PROVE  /\ ~KeyBefore(a, a)
           /\ KeyBefore(a, b) /\ KeyBefore(b, c) => KeyBefore(a, c)
           /\ \/ KeyBefore(a, b) \/ KeyBefore(b, a)
              \/ a[1] = b[1] /\ a[2] = b[2] /\ a[3] = b[3] /\ a[4] = b[4] /\ a[5] = b[5]
  <1>1. ~KeyBefore(a, a)
    BY KeyOrder DEF IsKey
  <1>2. KeyBefore(a, b) /\ KeyBefore(b, c) => KeyBefore(a, c)
    BY KeyOrder DEF IsKey
  <1>3. \/ KeyBefore(a, b) \/ KeyBefore(b, a)
        \/ a[1] = b[1] /\ a[2] = b[2] /\ a[3] = b[3] /\ a[4] = b[4] /\ a[5] = b[5]
    BY KeyOrder DEF IsKey
  <1> QED
    BY <1>1, <1>2, <1>3

PriceTime(side) ==
    {p \in Entries(side) \X Entries(side) : KeyBefore(Key(side, p[1]), Key(side, p[2]))}

LEMMA PriceTimeFacts ==
    ASSUME NEW side, NEW e \in Entries(side), NEW f \in Entries(side)
    PROVE  <<e, f>> \in PriceTime(side) <=> KeyBefore(Key(side, e), Key(side, f))
  BY DEF PriceTime

LEMMA KeyFacts ==
    ASSUME TypeOK, NEW side \in Sides, NEW e \in Entries(side)
    PROVE  /\ IsKey(Key(side, e))
           /\ Key(side, e)[3] = e.vault /\ Key(side, e)[4] = e.level
           /\ Key(side, e)[5] = IF e.flipped THEN 1 ELSE 0
  <1>1. e \in EntrySet
    BY EntryFacts
  <1>2. e.vault \in Nat /\ e.level \in Nat /\ e.nonce \in Nat /\ e.price \in Int
    <2>1. e.vault \in Vaults /\ e.level \in Levels /\ e.nonce \in Nat /\ e.price \in Prices
      BY <1>1 DEF EntrySet
    <2>2. Vaults \subseteq Nat /\ Levels \subseteq Nat /\ Prices \subseteq Int
      BY BookAssumption DEF Levels, Prices, Infinity
    <2> QED
      BY <2>1, <2>2
  <1>3. Infinity \in Int
    BY BookAssumption DEF Infinity
  <1> QED
    BY <1>2, <1>3 DEF Key, IsKey

LEMMA PriceTimeIsStrict ==
    ASSUME TypeOK, NEW side \in Sides
    PROVE  StrictOrder(Entries(side), PriceTime(side))
  <1>1. ASSUME NEW e \in Entries(side)
        PROVE  <<e, e>> \notin PriceTime(side)
    BY KeyFacts, KeysAreOrdered, PriceTimeFacts
  <1>2. ASSUME NEW e \in Entries(side), NEW f \in Entries(side), e # f
        PROVE  <<e, f>> \in PriceTime(side) \/ <<f, e>> \in PriceTime(side)
    <2>1. CASE KeyBefore(Key(side, e), Key(side, f)) \/ KeyBefore(Key(side, f), Key(side, e))
      BY <2>1, PriceTimeFacts
    <2>2. CASE ~(KeyBefore(Key(side, e), Key(side, f)) \/ KeyBefore(Key(side, f), Key(side, e)))
      <3>1. /\ Key(side, e)[3] = Key(side, f)[3] /\ Key(side, e)[4] = Key(side, f)[4]
            /\ Key(side, e)[5] = Key(side, f)[5]
        BY <2>2, KeyFacts, KeysAreOrdered
      <3>2. e.vault = f.vault /\ e.level = f.level
        BY <3>1, KeyFacts
      <3>3. e.flipped <=> f.flipped
        BY <3>1, KeyFacts
      <3> QED
        BY <1>2, <3>2, <3>3, EntriesDiffer
    <2> QED
      BY <2>1, <2>2
  <1>3. ASSUME NEW e \in Entries(side), NEW f \in Entries(side), NEW g \in Entries(side),
               <<e, f>> \in PriceTime(side), <<f, g>> \in PriceTime(side)
        PROVE  <<e, g>> \in PriceTime(side)
    BY <1>3, KeyFacts, KeysAreOrdered, PriceTimeFacts
  <1> QED
    BY <1>1, <1>2, <1>3 DEF StrictOrder

\* A swap walks every entry once, in price-time order.
LEMMA HeapLists ==
    ASSUME TypeOK, NEW side \in Sides
    PROVE  /\ Heap(side) = AntiFunction(Ahead(Entries(side), PriceTime(side)))
           /\ Lists(Heap(side), Entries(side), PriceTime(side))
  <1>1. ASSUME NEW e \in Entries(side)
        PROVE  {f \in Entries(side) : KeyBefore(Key(side, f), Key(side, e))}
                 = {f \in Entries(side) : <<f, e>> \in PriceTime(side)}
    BY PriceTimeFacts
  <1>2. Heap(side) = AntiFunction([e \in Entries(side) |->
            1 + Cardinality({f \in Entries(side) : KeyBefore(Key(side, f), Key(side, e))})])
    BY DEF Heap, InOrder
  <1>3. [e \in Entries(side) |->
            1 + Cardinality({f \in Entries(side) : KeyBefore(Key(side, f), Key(side, e))})]
          = Ahead(Entries(side), PriceTime(side))
    BY <1>1 DEF Ahead
  <1>4. Heap(side) = AntiFunction(Ahead(Entries(side), PriceTime(side)))
    BY <1>2, <1>3
  <1> QED
    BY <1>4, SortedLists, PriceTimeIsStrict, EntriesFinite

-----------------------------------------------------------------------------
(* The walk, entry by entry *)

LEMMA MaxFacts ==
    ASSUME NEW n \in Nat
    PROVE  /\ \A s \in SUBSET (1 .. n) : s # {} => Max(s) \in s
           /\ \A k \in 1 .. n : Max(1 .. k) = k
  <1> DEFINE T == {s \in SUBSET (1 .. n) : s # {} => \E m \in s : \A y \in s : m >= y}
  <1>1. IsFiniteSet(1 .. n)
    BY FS_Interval
  <1>2. ASSUME NEW s \in SUBSET (1 .. n), \A t \in SUBSET s : t # s => t \in T
        PROVE  s \in T
    <2>1. SUFFICES ASSUME NEW x \in s
                   PROVE  \E m \in s : \A y \in s : m >= y
      OBVIOUS
    <2>2. s \ {x} \in T
      BY <1>2
    <2>3. CASE s \ {x} = {}
      BY <2>3
    <2>4. CASE s \ {x} # {}
      <3>1. PICK m \in s \ {x} : \A y \in s \ {x} : m >= y
        BY <2>2, <2>4
      <3>2. CASE m >= x
        BY <3>1, <3>2
      <3>3. CASE ~(m >= x)
        BY <3>1, <3>3
      <3> QED
        BY <3>2, <3>3
    <2> QED
      BY <2>3, <2>4
  <1>3. \A s \in SUBSET (1 .. n) : s \in T
    <2> HIDE DEF T
    <2> QED
      BY <1>1, <1>2, SubsetInduction
  <1>4. \A s \in SUBSET (1 .. n) : s # {} => Max(s) \in s
    BY <1>3 DEF Max
  <1>5. ASSUME NEW k \in 1 .. n
        PROVE  Max(1 .. k) = k
    <2>1. k \in 1 .. k /\ \A y \in 1 .. k : k >= y
      OBVIOUS
    <2>2. Max(1 .. k) \in 1 .. k /\ \A y \in 1 .. k : Max(1 .. k) >= y
      BY <2>1 DEF Max
    <2> QED
      BY <2>1, <2>2
  <1> QED
    BY <1>4, <1>5

\* The two folds over a list: the swap's over its heap, the quoter's over its levels.
Step(kind, side, limit, acc, item) ==
    IF kind = "swap" THEN WalkEntry(side, limit, acc, item) ELSE FillLevel(side, limit, acc, item)

\* it walks every set of places of seq, the last place last.
IsWalk(it, kind, side, limit, start, seq) ==
    it = [s \in SUBSET DOMAIN seq |->
             IF s = {} THEN start ELSE Step(kind, side, limit, it[s \ {Max(s)}], seq[Max(s)])]

LEMMA WalkExists ==
    ASSUME NEW kind, NEW side, NEW limit, NEW start, NEW seq, NEW n \in Nat, DOMAIN seq = 1 .. n
    PROVE  \E it : IsWalk(it, kind, side, limit, start, seq)
  <1> DEFINE S == 1 .. n
             UpTo(m) == {s \in SUBSET S : Cardinality(s) <= m}
             Rec(g, s) == g[s] = IF s = {} THEN start
                                 ELSE Step(kind, side, limit, g[s \ {Max(s)}], seq[Max(s)])
             Holds(g, m) == \A s \in UpTo(m) : Rec(g, s)
             ok == {m \in Nat : \E g : Holds(g, m)}
  <1>1. \A s \in SUBSET S : s # {} => Max(s) \in s
    BY MaxFacts
  <1>2. IsFiniteSet(S)
    BY FS_Interval
  <1> HIDE DEF S
  <1>3. \A s \in SUBSET S : /\ IsFiniteSet(s) /\ Cardinality(s) \in Nat
                            /\ Cardinality(s) <= Cardinality(S)
    BY <1>2, FS_Subset, FS_CardinalityType
  <1>4. 0 \in ok
    <2>1. UpTo(0) = {{}}
      BY <1>3, FS_EmptySet
    <2>2. Holds([s \in UpTo(0) |-> start], 0)
      BY <2>1
    <2> QED
      BY <2>2
  <1>5. ASSUME NEW m \in Nat, m \in ok
        PROVE  m + 1 \in ok
    <2>1. PICK g : Holds(g, m)
      BY <1>5
    <2> DEFINE h == [s \in SUBSET S |->
                        IF Cardinality(s) <= m THEN g[s]
                        ELSE Step(kind, side, limit, g[s \ {Max(s)}], seq[Max(s)])]
    <2>2. ASSUME NEW s \in UpTo(m + 1)
          PROVE  Rec(h, s)
      <3>1. s # {} => /\ s \ {Max(s)} \in SUBSET S
                      /\ Cardinality(s \ {Max(s)}) = Cardinality(s) - 1
        BY <1>1, <1>3, FS_RemoveElement
      <3>2. s # {} => h[s \ {Max(s)}] = g[s \ {Max(s)}]
        BY <1>3, <3>1
      <3>3. CASE Cardinality(s) <= m
        <4>1. Rec(g, s)
          BY <2>1, <3>3
        <4>2. h[s] = g[s]
          BY <3>3
        <4> HIDE DEF h
        <4> QED
          BY <3>2, <4>1, <4>2
      <3>4. CASE ~(Cardinality(s) <= m)
        <4>1. s = {} => Cardinality(s) = 0
          BY FS_EmptySet
        <4>2. s # {}
          BY <3>4, <4>1
        <4>3. h[s] = Step(kind, side, limit, g[s \ {Max(s)}], seq[Max(s)])
          BY <3>4
        <4> HIDE DEF h
        <4> QED
          BY <3>2, <4>2, <4>3
      <3> QED
        BY <3>3, <3>4
    <2> HIDE DEF h
    <2>3. Holds(h, m + 1)
      BY <2>2
    <2> HIDE DEF Holds
    <2> QED
      BY <2>3
  <1>6. \A m \in Nat : m \in ok
    <2> HIDE DEF ok
    <2> QED
      BY <1>4, <1>5, NatSetInduction
  <1>7. PICK g : Holds(g, Cardinality(S))
    BY <1>3, <1>6
  <1> DEFINE it == [s \in SUBSET S |-> g[s]]
  <1>8. ASSUME NEW s \in SUBSET S
        PROVE  Rec(it, s)
    <2>1. Rec(g, s)
      BY <1>3, <1>7
    <2>2. s # {} => s \ {Max(s)} \in SUBSET S
      OBVIOUS
    <2>3. it[s] = g[s] /\ (s # {} => it[s \ {Max(s)}] = g[s \ {Max(s)}])
      BY <2>2
    <2> HIDE DEF it
    <2> QED
      BY <2>1, <2>3
  <1>9. IsWalk(it, kind, side, limit, start, seq)
    BY <1>8 DEF IsWalk, S
  <1> QED
    BY <1>9

\* The state of the walk after each entry.
IsTrace(acc, kind, side, limit, start, seq, n) ==
    /\ acc[0] = start
    /\ \A k \in 1 .. n : acc[k] = Step(kind, side, limit, acc[k - 1], seq[k])

\* What a fold has after each place is what it has after the places up to it.
LEMMA StepsTraced ==
    ASSUME NEW kind, NEW side, NEW limit, NEW start, NEW seq, NEW n \in Nat, DOMAIN seq = 1 .. n,
           NEW it, IsWalk(it, kind, side, limit, start, seq)
    PROVE  \E acc : IsTrace(acc, kind, side, limit, start, seq, n) /\ acc[n] = it[1 .. n]
  <1> DEFINE acc == [k \in 0 .. n |-> it[1 .. k]]
  <1>1. it = [s \in SUBSET (1 .. n) |->
                IF s = {} THEN start
                ELSE Step(kind, side, limit, it[s \ {Max(s)}], seq[Max(s)])]
    BY DEF IsWalk
  <1>2. acc[0] = start
    <2>1. 1 .. 0 = {} /\ {} \in SUBSET (1 .. n) /\ 0 \in 0 .. n
      OBVIOUS
    <2>2. it[{}] = start
      BY <1>1, <2>1
    <2>3. acc[0] = it[1 .. 0]
      BY <2>1
    <2> QED
      BY <2>1, <2>2, <2>3
  <1>3. ASSUME NEW k \in 1 .. n
        PROVE  acc[k] = Step(kind, side, limit, acc[k - 1], seq[k])
    <2>1. /\ 1 .. k \in SUBSET (1 .. n) /\ 1 .. k # {} /\ (1 .. k) \ {k} = 1 .. (k - 1)
          /\ k \in 0 .. n /\ k - 1 \in 0 .. n
      <3>1. k \in Nat /\ k >= 1 /\ k <= n /\ k - 1 \in Nat
        OBVIOUS
      <3>2. \A y \in Int : y \in (1 .. k) \ {k} <=> y \in 1 .. (k - 1)
        BY <3>1
      <3>3. (1 .. k) \ {k} \subseteq Int /\ 1 .. (k - 1) \subseteq Int
        BY <3>1
      <3>4. (1 .. k) \ {k} = 1 .. (k - 1)
        BY <3>2, <3>3
      <3>5. k \in 1 .. k /\ \A y \in 1 .. k : y \in 1 .. n
        BY <3>1
      <3> QED
        BY <3>1, <3>4, <3>5
    <2>2. Max(1 .. k) = k
      BY MaxFacts
    <2>3. it[1 .. k] = Step(kind, side, limit, it[(1 .. k) \ {Max(1 .. k)}], seq[Max(1 .. k)])
      BY <1>1, <2>1
    <2>4. acc[k] = it[1 .. k] /\ acc[k - 1] = it[1 .. (k - 1)]
      BY <2>1
    <2> HIDE DEF acc
    <2> QED
      BY <2>1, <2>2, <2>3, <2>4
  <1>4. acc[n] = it[1 .. n]
    BY DEF acc
  <1>5. IsTrace(acc, kind, side, limit, start, seq, n)
    BY <1>2, <1>3 DEF IsTrace
  <1> HIDE DEF acc
  <1> QED
    BY <1>4, <1>5

WalkOver(side, limit, start, seq) ==
    FoldLeft(LAMBDA a, e : WalkEntry(side, limit, a, e), start, seq)

QuoteOver(side, limit, start, seq) ==
    FoldLeft(LAMBDA acc, l : FillLevel(side, limit, acc, l), start, seq)

\* The folds of the community modules take the steps one by one.
LEMMA WalkTraced ==
    ASSUME NEW side, NEW limit, NEW start, NEW seq, NEW n \in Nat, DOMAIN seq = 1 .. n
    PROVE  \E acc : /\ IsTrace(acc, "swap", side, limit, start, seq, n)
                    /\ acc[n] = WalkOver(side, limit, start, seq)
  <1> DEFINE OfSwap(f) == f = [s \in SUBSET DOMAIN seq |->
                 IF s = {} THEN start ELSE WalkEntry(side, limit, f[s \ {Max(s)}], seq[Max(s)])]
             it == CHOOSE f : OfSwap(f)
  <1>1. ASSUME NEW f PROVE IsWalk(f, "swap", side, limit, start, seq) <=> OfSwap(f)
    BY DEF IsWalk, Step
  <1>2. it[1 .. n] = WalkOver(side, limit, start, seq)
    BY DEF WalkOver, FoldLeft, MapThenFoldSet
  <1> HIDE DEF OfSwap
  <1>3. \E f : OfSwap(f)
    BY <1>1, WalkExists
  <1>4. IsWalk(it, "swap", side, limit, start, seq)
    BY <1>1, <1>3
  <1> HIDE DEF it
  <1> QED
    BY <1>2, <1>4, StepsTraced

LEMMA QuoteTraced ==
    ASSUME NEW side, NEW limit, NEW start, NEW seq, NEW n \in Nat, DOMAIN seq = 1 .. n
    PROVE  \E acc : /\ IsTrace(acc, "quote", side, limit, start, seq, n)
                    /\ acc[n] = QuoteOver(side, limit, start, seq)
  <1> DEFINE OfQuote(f) == f = [s \in SUBSET DOMAIN seq |->
                 IF s = {} THEN start ELSE FillLevel(side, limit, f[s \ {Max(s)}], seq[Max(s)])]
             it == CHOOSE f : OfQuote(f)
  <1>1. ASSUME NEW f PROVE IsWalk(f, "quote", side, limit, start, seq) <=> OfQuote(f)
    BY DEF IsWalk, Step
  <1>2. it[1 .. n] = QuoteOver(side, limit, start, seq)
    BY DEF QuoteOver, FoldLeft, MapThenFoldSet
  <1> HIDE DEF OfQuote
  <1>3. \E f : OfQuote(f)
    BY <1>1, WalkExists
  <1>4. IsWalk(it, "quote", side, limit, start, seq)
    BY <1>1, <1>3
  <1> HIDE DEF it
  <1> QED
    BY <1>2, <1>4, StepsTraced

-----------------------------------------------------------------------------
(* One entry *)

LegSet == [entry : EntrySet, in : Nat, out : Nat]

WalkSet == [atoms : [Vaults -> [Legs -> Nat]], remaining : [Vaults -> Ladder], unfilled : Nat,
            out : Nat, fee : Nat, legs : Seq(LegSet), stopped : BOOLEAN]

\* What rests on the half that e stands for.
Half(r, side, e) ==
    LET p == r[e.vault][RestingSide(side, e)][e.level] IN
    IF e.flipped THEN p.flip_size ELSE p.size

\* What is left of e in the walk is not worth an atom.
Worthless(walk, side, e) ==
    LET left == Lesser(Half(walk.remaining, side, e), walk.atoms[e.vault][LegOf(side)]) IN
    left = 0 \/ InputFor(side, e.price, left) = 0

\* e's vault after a fill.
FilledAtoms(atoms, side, e, in, out) ==
    [atoms EXCEPT ![e.vault] =
        [leg \in Legs |-> IF leg = LegOf(side) THEN atoms[e.vault][leg] - out
                          ELSE atoms[e.vault][leg] + in]]
FilledLadders(r, side, e, in, out) ==
    [r EXCEPT ![e.vault][RestingSide(side, e)][e.level] =
        FilledPosition(r[e.vault][RestingSide(side, e)][e.level], e.flipped, in, out)]

\* after is walk with a leg of e filled.
Fills(side, limit, walk, e, after, in, out, residue) ==
    /\ in \in Nat \ {0} /\ out \in Nat \ {0} /\ residue \in Nat
    /\ ~walk.stopped /\ walk.unfilled # 0 /\ ~CrossesLimit(side, e.price, limit)
    /\ Len(walk.legs) < MaxLegs
    /\ out <= e.size /\ out <= walk.atoms[e.vault][LegOf(side)]
    /\ in + residue <= walk.unfilled
    /\ \/ in + residue = walk.unfilled
       \/ out = Lesser(e.size, walk.atoms[e.vault][LegOf(side)])
    /\ after.atoms = FilledAtoms(walk.atoms, side, e, in, out)
    /\ after.remaining = FilledLadders(walk.remaining, side, e, in, out)
    /\ after.unfilled = walk.unfilled - in - residue
    /\ after.out = walk.out + out
    /\ after.fee = walk.fee + (out * TakerFee) \div PPM
    /\ after.legs = Append(walk.legs, [entry |-> e, in |-> in, out |-> out])
    /\ after.stopped = walk.stopped
    /\ after = [atoms |-> after.atoms, remaining |-> after.remaining,
                unfilled |-> after.unfilled, out |-> after.out, fee |-> after.fee,
                legs |-> after.legs, stopped |-> after.stopped]

\* The walk stops at e, passes over it because it is worth nothing, or fills it.
LEMMA WalkEntryCases ==
    ASSUME NEW side \in Sides, NEW limit, NEW walk \in WalkSet, NEW e \in EntrySet,
           Matchable(e.price), Half(walk.remaining, side, e) = e.size,
           NEW after, after = WalkEntry(side, limit, walk, e)
    PROVE  \/ after = [walk EXCEPT !.stopped = TRUE]
           \/ after = walk /\ ~walk.stopped /\ walk.unfilled # 0 /\ Worthless(walk, side, e)
           \/ \E in, out, residue \in Nat : Fills(side, limit, walk, e, after, in, out, residue)
  <1> DEFINE stock == walk.atoms[e.vault][LegOf(side)]
             fill == ComputeFill(side, e, walk.unfilled, stock)
             stops == \/ walk.stopped \/ walk.unfilled = 0 \/ Len(walk.legs) >= MaxLegs
                      \/ CrossesLimit(side, e.price, limit) \/ fill.exhausted
  <1>1. /\ e.price \in 1 .. MaxPrice /\ e.size \in Nat /\ e.vault \in Vaults
        /\ walk.unfilled \in Nat /\ stock \in Nat
    BY SidesAndLegs DEF EntrySet, WalkSet, Matchable
  <1>2. /\ fill.out \in Nat /\ fill.in \in Nat /\ fill.residue \in Nat
        /\ fill.out <= e.size /\ fill.out <= stock /\ fill.in + fill.residue <= walk.unfilled
        /\ (fill.fills <=> fill.out > 0 /\ fill.in > 0)
        /\ (~fill.fills /\ ~fill.exhausted =>
              fill.out = Lesser(e.size, stock) /\ (fill.out = 0 \/ fill.in = 0))
        /\ (fill.in + fill.residue = walk.unfilled \/ fill.out = Lesser(e.size, stock))
        /\ fill.in = InputFor(side, e.price, fill.out)
    <2> HIDE DEF stock
    <2> QED
      BY <1>1, FillFacts
  <1>3. after = IF stops THEN [walk EXCEPT !.stopped = TRUE]
                ELSE IF fill.fills THEN FillLeg(side, e, fill, walk) ELSE walk
    BY DEF WalkEntry
  <1>4. CASE stops
    BY <1>3, <1>4
  <1>5. CASE ~stops /\ ~fill.fills
    <2>1. after = walk /\ ~walk.stopped /\ walk.unfilled # 0
      BY <1>3, <1>5
    <2>2. fill.out = Lesser(e.size, stock) /\ (fill.out = 0 \/ fill.in = 0)
      BY <1>2, <1>5
    <2>3. fill.out = 0 \/ InputFor(side, e.price, fill.out) = 0
      BY <1>2, <2>2
    <2> HIDE DEF fill
    <2>4. Worthless(walk, side, e)
      BY <2>2, <2>3 DEF Worthless
    <2> QED
      BY <2>1, <2>4
  <1>6. CASE ~stops /\ fill.fills
    <2>1. after = FillLeg(side, e, fill, walk)
      BY <1>3, <1>6
    <2>2. /\ ~walk.stopped /\ walk.unfilled # 0 /\ ~CrossesLimit(side, e.price, limit)
          /\ ~(Len(walk.legs) >= MaxLegs)
      BY <1>6
    <2>3. Len(walk.legs) < MaxLegs
      <3>1. Len(walk.legs) \in Nat /\ MaxLegs \in Nat
        BY BookAssumption DEF WalkSet
      <3> QED
        BY <2>2, <3>1
    <2>4. fill.out > 0 /\ fill.in > 0
      BY <1>2, <1>6
    <2> HIDE DEF fill
    <2> DEFINE in == fill.in
               out == fill.out
               residue == fill.residue
    <2>5. /\ after.atoms = FilledAtoms(walk.atoms, side, e, in, out)
          /\ after.unfilled = walk.unfilled - in - residue
          /\ after.out = walk.out + out
          /\ after.fee = walk.fee + (out * TakerFee) \div PPM
          /\ after.legs = Append(walk.legs, [entry |-> e, in |-> in, out |-> out])
          /\ after.stopped = walk.stopped
          /\ after = [atoms |-> after.atoms, remaining |-> after.remaining,
                      unfilled |-> after.unfilled, out |-> after.out, fee |-> after.fee,
                      legs |-> after.legs, stopped |-> after.stopped]
      BY <2>1 DEF FillLeg, FilledAtoms, WalkSet
    <2>6. after.remaining = FilledLadders(walk.remaining, side, e, in, out)
      BY <2>1 DEF FillLeg, FilledLadders, WalkSet
    <2> HIDE DEF in, out, residue
    <2>7. /\ in \in Nat \ {0} /\ out \in Nat \ {0} /\ residue \in Nat
          /\ out <= e.size /\ out <= stock /\ in + residue <= walk.unfilled
          /\ (in + residue = walk.unfilled \/ out = Lesser(e.size, stock))
      BY <1>2, <2>4 DEF in, out, residue
    <2>8. Fills(side, limit, walk, e, after, in, out, residue)
      BY <2>2, <2>3, <2>5, <2>6, <2>7 DEF Fills
    <2> QED
      BY <2>7, <2>8
  <1> QED
    BY <1>4, <1>5, <1>6

LEMMA FilledPositionFacts ==
    ASSUME NEW p \in Position, NEW flipped \in BOOLEAN, NEW in \in Nat, NEW out \in Nat,
           out <= IF flipped THEN p.flip_size ELSE p.size
    PROVE  LET q == FilledPosition(p, flipped, in, out) IN
           /\ q \in Position
           /\ q.price = p.price /\ q.flip_price = p.flip_price
           /\ q.unix_deadline = p.unix_deadline /\ q.slot_deadline = p.slot_deadline
           /\ flipped => q.flip_size = p.flip_size - out /\ q.size = p.size + in
           /\ ~flipped => q.size = p.size - out /\ q.flip_size \in p.flip_size .. p.flip_size + in
  <1>1. p.size \in Nat /\ p.flip_size \in Nat
    BY DEF Position
  <1>2. CASE flipped
    <2> DEFINE size == p.size + in
               flip_size == p.flip_size - out
    <2>1. size \in Nat /\ flip_size \in Nat
      BY <1>1, <1>2
    <2>2. FilledPosition(p, flipped, in, out) = [p EXCEPT !.flip_size = flip_size, !.size = size]
      BY <1>2 DEF FilledPosition
    <2> HIDE DEF size, flip_size
    <2>3. LET q == FilledPosition(p, flipped, in, out) IN
          /\ q \in Position
          /\ q.price = p.price /\ q.flip_price = p.flip_price
          /\ q.unix_deadline = p.unix_deadline /\ q.slot_deadline = p.slot_deadline
          /\ q.flip_size = flip_size /\ q.size = size
      BY <2>1, <2>2 DEF Position
    <2> QED
      BY <1>2, <2>3 DEF size, flip_size
  <1>3. CASE ~flipped
    <2> DEFINE size == p.size - out
               flip_size == IF Matchable(p.flip_price) THEN p.flip_size + in ELSE p.flip_size
    <2>1. size \in Nat /\ flip_size \in Nat /\ flip_size \in p.flip_size .. p.flip_size + in
      BY <1>1, <1>3
    <2>2. FilledPosition(p, flipped, in, out) = [p EXCEPT !.size = size, !.flip_size = flip_size]
      BY <1>3 DEF FilledPosition
    <2> HIDE DEF size, flip_size
    <2>3. LET q == FilledPosition(p, flipped, in, out) IN
          /\ q \in Position
          /\ q.price = p.price /\ q.flip_price = p.flip_price
          /\ q.unix_deadline = p.unix_deadline /\ q.slot_deadline = p.slot_deadline
          /\ q.flip_size = flip_size /\ q.size = size
      BY <2>1, <2>2 DEF Position
    <2> QED
      BY <1>3, <2>1, <2>3 DEF size
  <1> QED
    BY <1>2, <1>3

\* The half of e's level that e does not stand for, and every other level.
Elsewhere(r, q, side, e) ==
    \A y \in Vaults, s \in Sides, i \in Levels :
        (y = e.vault /\ s = RestingSide(side, e) /\ i = e.level) \/ q[y][s][i] = r[y][s][i]

LEMMA RestingSideType ==
    ASSUME NEW side \in Sides, NEW e \in EntrySet
    PROVE  /\ e.vault \in Vaults /\ e.level \in Levels /\ e.flipped \in BOOLEAN
           /\ RestingSide(side, e) \in Sides
           /\ e.nonce \in Nat /\ e.price \in Prices /\ e.size \in Nat
  BY SidesAndLegs DEF EntrySet, RestingSide

LEMMA FilledLaddersFacts ==
    ASSUME NEW side \in Sides, NEW e \in EntrySet, NEW r \in [Vaults -> Ladder],
           NEW in \in Nat, NEW out \in Nat, out <= Half(r, side, e)
    PROVE  LET q == FilledLadders(r, side, e, in, out)
               at == RestingSide(side, e)
           IN /\ q \in [Vaults -> Ladder] /\ Elsewhere(r, q, side, e)
              /\ r[e.vault][at][e.level] \in Position
              /\ q[e.vault][at][e.level]
                   = FilledPosition(r[e.vault][at][e.level], e.flipped, in, out)
  <1> DEFINE x == e.vault
             at == RestingSide(side, e)
             l == e.level
             p == r[x][at][l]
             new == FilledPosition(p, e.flipped, in, out)
             q == FilledLadders(r, side, e, in, out)
  <1>1. x \in Vaults /\ at \in Sides /\ l \in Levels /\ e.flipped \in BOOLEAN
    BY RestingSideType
  <1>2. p \in Position
    BY <1>1 DEF Ladder
  <1>3. new \in Position
    <2>1. out <= IF e.flipped THEN p.flip_size ELSE p.size
      BY DEF Half
    <2> QED
      BY <1>1, <1>2, <2>1, FilledPositionFacts
  <1>4. q = [r EXCEPT ![x][at][l] = new]
    BY DEF FilledLadders
  <1> HIDE DEF x, at, l, p, new, q
  <1>5. r[x] \in [Sides -> [Levels -> Position]]
    BY <1>1 DEF Ladder
  <1>6. q \in [Vaults -> Ladder]
    BY <1>1, <1>3, <1>4, <1>5 DEF Ladder
  <1>7. q[x][at][l] = new
    BY <1>1, <1>4, <1>5
  <1>8. ASSUME NEW y \in Vaults, NEW s \in Sides, NEW i \in Levels, y # x \/ s # at \/ i # l
        PROVE  q[y][s][i] = r[y][s][i]
    <2>1. r[y] \in [Sides -> [Levels -> Position]]
      BY DEF Ladder
    <2> QED
      BY <1>1, <1>4, <1>5, <1>8, <2>1
  <1>9. Elsewhere(r, q, side, e)
    BY <1>8 DEF Elsewhere, x, at, l
  <1> QED
    BY <1>2, <1>6, <1>7, <1>9 DEF x, at, l, p, new, q

LEMMA FilledAtomsFacts ==
    ASSUME NEW side \in Sides, NEW e \in EntrySet, NEW atoms \in [Vaults -> [Legs -> Nat]],
           NEW in \in Nat, NEW out \in Nat, out <= atoms[e.vault][LegOf(side)]
    PROVE  LET after == FilledAtoms(atoms, side, e, in, out) IN
           /\ after \in [Vaults -> [Legs -> Nat]]
           /\ \A y \in Vaults \ {e.vault} : after[y] = atoms[y]
           /\ after[e.vault][LegOf(side)] = atoms[e.vault][LegOf(side)] - out
           /\ after[e.vault][LegOf(OtherSide(side))] = atoms[e.vault][LegOf(OtherSide(side))] + in
  <1> DEFINE x == e.vault
             stock == [leg \in Legs |-> IF leg = LegOf(side) THEN atoms[x][leg] - out
                                        ELSE atoms[x][leg] + in]
  <1>1. x \in Vaults
    BY RestingSideType
  <1>2. atoms[x] \in [Legs -> Nat]
    BY <1>1
  <1>3. /\ stock \in [Legs -> Nat]
        /\ stock[LegOf(side)] = atoms[x][LegOf(side)] - out
        /\ stock[LegOf(OtherSide(side))] = atoms[x][LegOf(OtherSide(side))] + in
    BY <1>2, SidesAndLegs
  <1>4. FilledAtoms(atoms, side, e, in, out) = [atoms EXCEPT ![x] = stock]
    BY DEF FilledAtoms
  <1> HIDE DEF x, stock
  <1> QED
    BY <1>1, <1>3, <1>4 DEF x

-----------------------------------------------------------------------------
(* What rests of a leg *)

Sizes(r, side) == [i \in Levels |-> r[side][i].size]
FlipSizes(r, side) == [i \in Levels |-> r[side][i].flip_size]

\* The atoms ladder r shows of the leg that `side` rests.
Resting(r, side) == SumFunction(Sizes(r, side)) + SumFunction(FlipSizes(r, OtherSide(side)))

\* Ladder r shows no more than atoms.
Covered(r, atoms) == \A side \in Sides : Resting(r, side) <= atoms[LegOf(side)]

LEMMA RestingIsTheSum ==
    ASSUME NEW x, NEW side \in Sides
    PROVE  RestingAtoms(x, LegOf(side)) = Resting(Rested(x), side)
  <1>1. (CHOOSE s \in Sides : LegOf(s) = LegOf(side)) = side
    BY SidesAndLegs
  <1> QED
    BY <1>1 DEF RestingAtoms, Resting, Sizes, FlipSizes

LEMMA CoveredIsBacked ==
    BookBacked <=> \A x \in Vaults : Covered(Rested(x), vaults[x].atoms)
  <1>1. ASSUME NEW x \in Vaults
        PROVE  (\A leg \in Legs : RestingAtoms(x, leg) <= vaults[x].atoms[leg])
                 <=> Covered(Rested(x), vaults[x].atoms)
    <2>1. (\A leg \in Legs : RestingAtoms(x, leg) <= vaults[x].atoms[leg])
            <=> \A side \in Sides : RestingAtoms(x, LegOf(side)) <= vaults[x].atoms[LegOf(side)]
      BY SidesAndLegs
    <2> QED
      BY <2>1, RestingIsTheSum DEF Covered
  <1> QED
    BY <1>1 DEF BookBacked

LEMMA SizesType ==
    ASSUME NEW r \in Ladder, NEW side \in Sides
    PROVE  /\ Sizes(r, side) \in [Levels -> Nat] /\ FlipSizes(r, side) \in [Levels -> Nat]
           /\ SumFunction(Sizes(r, side)) \in Nat /\ SumFunction(FlipSizes(r, side)) \in Nat
  <1>1. Sizes(r, side) \in [Levels -> Nat] /\ FlipSizes(r, side) \in [Levels -> Nat]
    BY DEF Ladder, Position, Sizes, FlipSizes
  <1> QED
    BY <1>1, SidesAndLegs, SumOfNats

\* One level that changes moves the two sums by what it changes by.
LEMMA RestingUpdate ==
    ASSUME NEW r \in Ladder, NEW q \in Ladder, NEW at \in Sides, NEW l \in Levels,
           \A s \in Sides, i \in Levels : (s = at /\ i = l) \/ q[s][i] = r[s][i]
    PROVE  /\ Resting(q, at) = Resting(r, at) - r[at][l].size + q[at][l].size
           /\ Resting(q, OtherSide(at))
                = Resting(r, OtherSide(at)) - r[at][l].flip_size + q[at][l].flip_size
  <1>1. /\ OtherSide(at) \in Sides /\ OtherSide(OtherSide(at)) = at /\ OtherSide(at) # at
        /\ IsFiniteSet(Levels)
    BY SidesAndLegs
  <1>2. /\ Sizes(q, OtherSide(at)) = Sizes(r, OtherSide(at))
        /\ FlipSizes(q, OtherSide(at)) = FlipSizes(r, OtherSide(at))
    BY <1>1 DEF Sizes, FlipSizes
  <1>3. SumFunction(Sizes(q, at)) = SumFunction(Sizes(r, at)) - r[at][l].size + q[at][l].size
    <2> DEFINE f == Sizes(r, at)
               h == Sizes(q, at)
    <2>1. f \in [Levels -> Int] /\ h \in [Levels -> Int]
      BY SizesType
    <2>2. (\A y \in Levels \ {l} : h[y] = f[y]) /\ f[l] = r[at][l].size /\ h[l] = q[at][l].size
      BY DEF Sizes
    <2> HIDE DEF f, h
    <2>3. SumFunction(h) = SumFunction(f) - f[l] + h[l]
      BY <1>1, <2>1, <2>2, SumUpdate
    <2> QED
      BY <2>2, <2>3 DEF f, h
  <1>4. SumFunction(FlipSizes(q, at))
          = SumFunction(FlipSizes(r, at)) - r[at][l].flip_size + q[at][l].flip_size
    <2> DEFINE f == FlipSizes(r, at)
               h == FlipSizes(q, at)
    <2>1. f \in [Levels -> Int] /\ h \in [Levels -> Int]
      BY SizesType
    <2>2. /\ \A y \in Levels \ {l} : h[y] = f[y]
          /\ f[l] = r[at][l].flip_size /\ h[l] = q[at][l].flip_size
      BY DEF FlipSizes
    <2> HIDE DEF f, h
    <2>3. SumFunction(h) = SumFunction(f) - f[l] + h[l]
      BY <1>1, <2>1, <2>2, SumUpdate
    <2> QED
      BY <2>2, <2>3 DEF f, h
  <1> DEFINE a == SumFunction(Sizes(r, at))
             b == SumFunction(FlipSizes(r, at))
             c == SumFunction(Sizes(r, OtherSide(at)))
             d == SumFunction(FlipSizes(r, OtherSide(at)))
  <1>5. a \in Nat /\ b \in Nat /\ c \in Nat /\ d \in Nat
    BY <1>1, SizesType
  <1>6. /\ r[at][l].size \in Nat /\ q[at][l].size \in Nat
        /\ r[at][l].flip_size \in Nat /\ q[at][l].flip_size \in Nat
    BY DEF Ladder, Position
  <1>7. /\ Resting(r, at) = a + d /\ Resting(r, OtherSide(at)) = c + b
        /\ Resting(q, at) = (a - r[at][l].size + q[at][l].size) + d
        /\ Resting(q, OtherSide(at)) = c + (b - r[at][l].flip_size + q[at][l].flip_size)
    BY <1>1, <1>2, <1>3, <1>4 DEF Resting
  <1> HIDE DEF a, b, c, d
  <1> DEFINE m == r[at][l].size
             n == q[at][l].size
             o == r[at][l].flip_size
             p == q[at][l].flip_size
  <1>8. m \in Nat /\ n \in Nat /\ o \in Nat /\ p \in Nat
    BY <1>6
  <1>9. /\ Resting(r, at) = a + d /\ Resting(r, OtherSide(at)) = c + b
        /\ Resting(q, at) = (a - m + n) + d
        /\ Resting(q, OtherSide(at)) = c + (b - o + p)
    BY <1>7
  <1>10. Resting(q, at) = Resting(r, at) - m + n
    <2> HIDE DEF m, n
    <2> QED
      BY <1>5, <1>8, <1>9
  <1>11. Resting(q, OtherSide(at)) = Resting(r, OtherSide(at)) - o + p
    <2> HIDE DEF o, p
    <2> QED
      BY <1>5, <1>8, <1>9
  <1> QED
    BY <1>10, <1>11

\* A fill keeps every ladder covered: what the level gives, its vault gives,
\* and what it takes, its vault takes.
LEMMA FillCovers ==
    ASSUME NEW side \in Sides, NEW e \in EntrySet, NEW r \in [Vaults -> Ladder],
           NEW atoms \in [Vaults -> [Legs -> Nat]], NEW in \in Nat, NEW out \in Nat,
           out <= Half(r, side, e), out <= atoms[e.vault][LegOf(side)],
           NEW x \in Vaults, Covered(r[x], atoms[x])
    PROVE  Covered(FilledLadders(r, side, e, in, out)[x], FilledAtoms(atoms, side, e, in, out)[x])
  <1> DEFINE q == FilledLadders(r, side, e, in, out)
             after == FilledAtoms(atoms, side, e, in, out)
             at == RestingSide(side, e)
             l == e.level
             other == OtherSide(side)
  <1>1. /\ q \in [Vaults -> Ladder] /\ Elsewhere(r, q, side, e)
        /\ r[e.vault][at][l] \in Position
        /\ q[e.vault][at][l] = FilledPosition(r[e.vault][at][l], e.flipped, in, out)
    BY FilledLaddersFacts
  <1>2. /\ after \in [Vaults -> [Legs -> Nat]]
        /\ \A y \in Vaults \ {e.vault} : after[y] = atoms[y]
        /\ after[e.vault][LegOf(side)] = atoms[e.vault][LegOf(side)] - out
        /\ after[e.vault][LegOf(other)] = atoms[e.vault][LegOf(other)] + in
    <2> HIDE DEF after, q, at, l, other
    <2>1. after = FilledAtoms(atoms, side, e, in, out) /\ other = OtherSide(side)
      BY DEF after, other
    <2> QED
      BY <2>1, FilledAtomsFacts
  <1>3. e.vault \in Vaults /\ at \in Sides /\ l \in Levels /\ e.flipped \in BOOLEAN
    BY RestingSideType
  <1>4. r[x] \in Ladder /\ q[x] \in Ladder
    BY <1>1
  <1> HIDE DEF q, after
  <1>5. CASE x # e.vault
    <2>1. \A s \in Sides, i \in Levels : q[x][s][i] = r[x][s][i]
      BY <1>1, <1>5 DEF Elsewhere
    <2>2. \A s \in Sides : /\ Sizes(q[x], s) = Sizes(r[x], s)
                          /\ FlipSizes(q[x], s) = FlipSizes(r[x], s)
      BY <2>1 DEF Sizes, FlipSizes
    <2>3. \A s \in Sides : Resting(q[x], s) = Resting(r[x], s)
      BY <2>2, SidesAndLegs DEF Resting
    <2> QED
      BY <1>2, <1>5, <2>3 DEF Covered, q, after
  <1>6. CASE x = e.vault
    <2> DEFINE p == r[x][at][l]
               n == q[x][at][l]
    <2>1. /\ Resting(q[x], at) = Resting(r[x], at) - p.size + n.size
          /\ Resting(q[x], OtherSide(at)) = Resting(r[x], OtherSide(at)) - p.flip_size + n.flip_size
      <3>1. \A s \in Sides, i \in Levels : (s = at /\ i = l) \/ q[x][s][i] = r[x][s][i]
        BY <1>1, <1>6 DEF Elsewhere
      <3> HIDE DEF at, l
      <3> QED
        BY <1>3, <1>4, <3>1, RestingUpdate
    <2>2. out <= IF e.flipped THEN p.flip_size ELSE p.size
      BY <1>6 DEF Half
    <2>3. /\ p \in Position /\ n \in Position
          /\ e.flipped => n.flip_size = p.flip_size - out /\ n.size = p.size + in
          /\ ~e.flipped => n.size = p.size - out /\ n.flip_size \in p.flip_size .. p.flip_size + in
      BY <1>1, <1>3, <1>6, <2>2, FilledPositionFacts
    <2>4. /\ p.size \in Nat /\ p.flip_size \in Nat /\ n.size \in Nat /\ n.flip_size \in Nat
      BY <2>3 DEF Position
    <2>5. \A s \in Sides : Resting(r[x], s) \in Nat
      <3> SUFFICES ASSUME NEW s \in Sides PROVE Resting(r[x], s) \in Nat
        OBVIOUS
      <3> DEFINE a == SumFunction(Sizes(r[x], s))
                 b == SumFunction(FlipSizes(r[x], OtherSide(s)))
      <3>1. a \in Nat /\ b \in Nat
        BY <1>4, SizesType, SidesAndLegs
      <3>2. Resting(r[x], s) = a + b
        BY DEF Resting
      <3> HIDE DEF a, b
      <3> QED
        BY <3>1, <3>2
    <2>6. \A s \in Sides : Resting(r[x], s) <= atoms[x][LegOf(s)] /\ atoms[x][LegOf(s)] \in Nat
      BY SidesAndLegs DEF Covered
    <2> HIDE DEF p, n
    <2>7. /\ Resting(q[x], side) <= Resting(r[x], side) - out
          /\ Resting(q[x], other) <= Resting(r[x], other) + in
      <3>1. CASE e.flipped
        <4>1. at = other /\ OtherSide(at) = side /\ other \in Sides
          BY <3>1, SidesAndLegs DEF RestingSide
        <4> HIDE DEF at, other
        <4> QED
          BY <2>1, <2>3, <2>4, <2>5, <3>1, <4>1
      <3>2. CASE ~e.flipped
        <4>1. at = side /\ OtherSide(at) = other /\ other \in Sides
          BY <3>2, SidesAndLegs DEF RestingSide
        <4> HIDE DEF at, other
        <4> QED
          BY <2>1, <2>3, <2>4, <2>5, <3>2, <4>1
      <3> QED
        BY <1>3, <3>1, <3>2
    <2>8. Resting(q[x], side) \in Int /\ Resting(q[x], other) \in Int
      <3>1. Resting(q[x], at) \in Int /\ Resting(q[x], OtherSide(at)) \in Int
        BY <1>3, <2>1, <2>4, <2>5, SidesAndLegs
      <3> QED
        BY <3>1, SidesAndLegs DEF RestingSide
    <2>9. Resting(q[x], side) <= after[x][LegOf(side)]
      BY <1>2, <1>6, <2>5, <2>6, <2>7, <2>8
    <2>10. Resting(q[x], other) <= after[x][LegOf(other)]
      <3>1. other \in Sides
        BY SidesAndLegs
      <3> HIDE DEF other
      <3> QED
        BY <1>2, <1>6, <2>5, <2>6, <2>7, <2>8, <3>1
    <2> QED
      BY <2>9, <2>10, SidesAndLegs DEF Covered, q, after
  <1> QED
    BY <1>5, <1>6

-----------------------------------------------------------------------------
(* What holds after every entry of a walk *)

Inventory(atoms, leg) == SumFunction([x \in Vaults |-> atoms[x][leg]])

LEMMA VaultSumUpdate ==
    ASSUME NEW f \in [Vaults -> Int], NEW h \in [Vaults -> Int], NEW x \in Vaults,
           \A y \in Vaults \ {x} : h[y] = f[y]
    PROVE  SumFunction(h) = SumFunction(f) - f[x] + h[x]
  <1>1. IsFiniteSet(Vaults)
    BY SidesAndLegs
  <1> QED
    BY <1>1, SumUpdate

LEMMA InventoryUpdate ==
    ASSUME NEW atoms \in [Vaults -> [Legs -> Nat]], NEW after \in [Vaults -> [Legs -> Nat]],
           NEW x \in Vaults, \A y \in Vaults \ {x} : after[y] = atoms[y], NEW leg \in Legs
    PROVE  /\ Inventory(atoms, leg) \in Nat /\ Inventory(after, leg) \in Nat
           /\ Inventory(after, leg) = Inventory(atoms, leg) - atoms[x][leg] + after[x][leg]
  <1> DEFINE f == [y \in Vaults |-> atoms[y][leg]]
             h == [y \in Vaults |-> after[y][leg]]
  <1>1. f \in [Vaults -> Nat] /\ h \in [Vaults -> Nat]
    OBVIOUS
  <1>2. f \in [Vaults -> Int] /\ h \in [Vaults -> Int]
    BY <1>1
  <1>3. (\A y \in Vaults \ {x} : h[y] = f[y]) /\ f[x] = atoms[x][leg] /\ h[x] = after[x][leg]
    OBVIOUS
  <1>4. IsFiniteSet(Vaults)
    BY SidesAndLegs
  <1> HIDE DEF f, h
  <1>5. SumFunction(f) \in Nat /\ SumFunction(h) \in Nat
    BY <1>1, <1>4, SumOfNats
  <1>6. SumFunction(h) = SumFunction(f) - f[x] + h[x]
    <2>1. \A y \in Vaults \ {x} : h[y] = f[y]
      BY <1>3
    <2> QED
      BY <1>2, <2>1, VaultSumUpdate
  <1> QED
    BY <1>3, <1>5, <1>6 DEF Inventory, f, h

WalkStart(amount_in) ==
    [atoms |-> [x \in Vaults |-> vaults[x].atoms],
     remaining |-> [x \in Vaults |-> IF Quoting(x) THEN Rested(x) ELSE remaining[x]],
     unfilled |-> amount_in, out |-> 0, fee |-> 0, legs |-> <<>>, stopped |-> FALSE]

\* Price and deadlines, which no fill changes.
SameTerms(p, q) ==
    /\ p.price = q.price /\ p.flip_price = q.flip_price
    /\ p.unix_deadline = q.unix_deadline /\ p.slot_deadline = q.slot_deadline

WalkTyped(walk, amount_in) ==
    walk \in WalkSet /\ walk.unfilled <= amount_in /\ walk.fee <= walk.out

WalkTerms(walk, start) ==
    \A x \in Vaults, s \in Sides, i \in Levels :
        SameTerms(walk.remaining[x][s][i], start.remaining[x][s][i])

\* A vault that does not quote is left alone; one that does stays covered.
WalkLadders(walk, start) ==
    \A x \in Vaults :
        IF Quoting(x) THEN Covered(walk.remaining[x], walk.atoms[x])
        ELSE walk.atoms[x] = start.atoms[x] /\ walk.remaining[x] = start.remaining[x]

\* What the vaults give, the taker is given; what they take, the taker gave.
WalkConserves(walk, start, side) ==
    /\ Inventory(walk.atoms, LegOf(side)) + walk.out = Inventory(start.atoms, LegOf(side))
    /\ Inventory(walk.atoms, LegOf(OtherSide(side))) + walk.unfilled
         <= Inventory(start.atoms, LegOf(OtherSide(side))) + start.unfilled

\* The entries ahead are still what the collection found.
WalkPending(walk, side, heap, rest) ==
    \A j \in rest : Half(walk.remaining, side, heap[j]) = heap[j].size

\* A leg is an entry within the limit, and nothing ahead of it is worth an atom.
WalkLegs(walk, side, limit, heap, done) ==
    \A m \in DOMAIN walk.legs :
        /\ ~CrossesLimit(side, walk.legs[m].entry.price, limit)
        /\ \E j \in done : /\ walk.legs[m].entry = heap[j]
                           /\ \A i \in 1 .. j - 1 : Worthless(walk, side, heap[i])

WalkPassed(walk, side, heap, done) ==
    ~walk.stopped /\ walk.unfilled # 0 => \A j \in done : Worthless(walk, side, heap[j])

WalkInv(walk, start, side, limit, heap, n, k) ==
    /\ WalkTyped(walk, start.unfilled) /\ WalkTerms(walk, start) /\ WalkLadders(walk, start)
    /\ WalkConserves(walk, start, side)
    /\ WalkPending(walk, side, heap, k + 1 .. n)
    /\ WalkLegs(walk, side, limit, heap, 1 .. k)
    /\ WalkPassed(walk, side, heap, 1 .. k)

\* Two entries never stand for the same half.
LEMMA HalvesApart ==
    ASSUME TypeOK, NEW side \in Sides, NEW e \in Entries(side), NEW f \in Entries(side), e # f,
           NEW r \in [Vaults -> Ladder], NEW in \in Nat, NEW out \in Nat, out <= Half(r, side, e)
    PROVE  Half(FilledLadders(r, side, e, in, out), side, f) = Half(r, side, f)
  <1> DEFINE q == FilledLadders(r, side, e, in, out)
  <1>1. e \in EntrySet /\ f \in EntrySet
    BY EntryFacts
  <1>2. Elsewhere(r, q, side, e)
    BY <1>1, FilledLaddersFacts
  <1>3. /\ f.vault \in Vaults /\ f.level \in Levels /\ RestingSide(side, f) \in Sides
        /\ e.flipped \in BOOLEAN /\ f.flipped \in BOOLEAN
    BY <1>1, RestingSideType
  <1> HIDE DEF q
  <1>4. f.vault # e.vault \/ RestingSide(side, f) # RestingSide(side, e) \/ f.level # e.level
    <2>1. CASE e.flipped <=> f.flipped
      BY <2>1, EntriesDiffer
    <2>2. CASE ~(e.flipped <=> f.flipped)
      BY <2>2, SidesAndLegs DEF RestingSide
    <2> QED
      BY <2>1, <2>2
  <1>5. q[f.vault][RestingSide(side, f)][f.level] = r[f.vault][RestingSide(side, f)][f.level]
    BY <1>2, <1>3, <1>4 DEF Elsewhere
  <1> QED
    BY <1>5 DEF Half, q

LEMMA HalfType ==
    ASSUME NEW side \in Sides, NEW e \in EntrySet, NEW r \in [Vaults -> Ladder]
    PROVE  Half(r, side, e) \in Nat
  <1>1. r[e.vault][RestingSide(side, e)][e.level] \in Position
    BY RestingSideType DEF Ladder
  <1> QED
    BY <1>1 DEF Half, Position

\* A level that is worth nothing stays so when its vault has no more to give.
LEMMA WorthlessStays ==
    ASSUME NEW side \in Sides, NEW f \in EntrySet, Matchable(f.price),
           NEW walk \in WalkSet, NEW after \in WalkSet, Worthless(walk, side, f),
           Half(after.remaining, side, f) = Half(walk.remaining, side, f),
           after.atoms[f.vault][LegOf(side)] <= walk.atoms[f.vault][LegOf(side)]
    PROVE  Worthless(after, side, f)
  <1> DEFINE half == Half(walk.remaining, side, f)
             a == walk.atoms[f.vault][LegOf(side)]
             b == after.atoms[f.vault][LegOf(side)]
  <1>1. half \in Nat
    BY HalfType DEF WalkSet
  <1>2. a \in Nat /\ b \in Nat /\ b <= a
    BY SidesAndLegs, RestingSideType DEF WalkSet
  <1>3. Lesser(half, a) = 0 \/ InputFor(side, f.price, Lesser(half, a)) = 0
    BY DEF Worthless
  <1>4. f.price \in 1 .. MaxPrice
    BY DEF Matchable
  <1> HIDE DEF half, a, b
  <1>5. Lesser(half, a) \in Nat /\ Lesser(half, b) \in Nat /\ Lesser(half, b) <= Lesser(half, a)
    BY <1>1, <1>2 DEF Lesser
  <1>6. Lesser(half, b) = 0 \/ InputFor(side, f.price, Lesser(half, b)) = 0
    <2>1. CASE Lesser(half, a) = 0
      BY <1>5, <2>1
    <2>2. CASE InputFor(side, f.price, Lesser(half, a)) = 0
      <3>1. InputFor(side, f.price, Lesser(half, b)) <= InputFor(side, f.price, Lesser(half, a))
        BY <1>4, <1>5, ConversionFacts
      <3>2. InputFor(side, f.price, Lesser(half, b)) \in Nat
        BY <1>4, <1>5, ConversionFacts
      <3> QED
        BY <2>2, <3>1, <3>2
    <2> QED
      BY <1>3, <2>1, <2>2
  <1> QED
    BY <1>6 DEF Worthless, half, b

\* The records of a walk, one by one.
LEMMA WalkSetFacts ==
    ASSUME NEW walk \in WalkSet
    PROVE  /\ walk.atoms \in [Vaults -> [Legs -> Nat]] /\ walk.remaining \in [Vaults -> Ladder]
           /\ walk.unfilled \in Nat /\ walk.out \in Nat /\ walk.fee \in Nat
           /\ walk.legs \in Seq(LegSet) /\ walk.stopped \in BOOLEAN
  BY DEF WalkSet

\* The taker fee is no more than what it is taken from.
LEMMA FeeFacts ==
    ASSUME NEW out \in Nat
    PROVE  (out * TakerFee) \div PPM \in 0 .. out
  <1>1. TakerFee \in Nat /\ PPM \in Nat \ {0} /\ TakerFee <= PPM
    BY BookAssumption, ShareMathAssumption
  <1>2. out * TakerFee \in Nat /\ out * TakerFee <= out * PPM
    BY <1>1, ProductGrows
  <1> DEFINE fee == (out * TakerFee) \div PPM
  <1>3. fee \in Nat /\ fee <= out
    BY <1>1, <1>2, DivFacts, QuotientBelow
  <1> HIDE DEF fee
  <1>4. fee \in 0 .. out
    BY <1>3
  <1> QED
    BY <1>4 DEF fee

\* A fill of e, step by step: what each part of the invariant needs of it.
LEMMA FillTypes ==
    ASSUME NEW side \in Sides, NEW limit, NEW walk \in WalkSet, NEW e \in EntrySet,
           Half(walk.remaining, side, e) = e.size, NEW after,
           NEW in \in Nat, NEW out \in Nat, NEW residue \in Nat,
           Fills(side, limit, walk, e, after, in, out, residue)
    PROVE  /\ after \in WalkSet
           /\ after.unfilled <= walk.unfilled
           /\ walk.fee <= walk.out => after.fee <= after.out
  <1>1. /\ walk.atoms \in [Vaults -> [Legs -> Nat]] /\ walk.remaining \in [Vaults -> Ladder]
        /\ walk.unfilled \in Nat /\ walk.out \in Nat /\ walk.fee \in Nat
        /\ walk.legs \in Seq(LegSet) /\ walk.stopped \in BOOLEAN
    BY WalkSetFacts
  <1>2. /\ out <= Half(walk.remaining, side, e)
        /\ out <= walk.atoms[e.vault][LegOf(side)]
        /\ in + residue <= walk.unfilled
    BY DEF Fills
  <1>3. after.atoms \in [Vaults -> [Legs -> Nat]]
    <2> DEFINE w == walk.atoms
    <2>1. /\ w \in [Vaults -> [Legs -> Nat]] /\ out <= w[e.vault][LegOf(side)]
          /\ after.atoms = FilledAtoms(w, side, e, in, out)
      BY <1>1, <1>2 DEF Fills
    <2> HIDE DEF w
    <2> QED
      BY <2>1, FilledAtomsFacts
  <1>4. after.remaining \in [Vaults -> Ladder]
    <2> DEFINE r == walk.remaining
    <2>1. /\ r \in [Vaults -> Ladder] /\ out <= Half(r, side, e)
          /\ after.remaining = FilledLadders(r, side, e, in, out)
      BY <1>1, <1>2 DEF Fills
    <2> HIDE DEF r
    <2>2. FilledLadders(r, side, e, in, out) \in [Vaults -> Ladder]
      BY <2>1, FilledLaddersFacts
    <2> QED
      BY <2>1, <2>2
  <1> DEFINE fee == (out * TakerFee) \div PPM
  <1>5. fee \in Nat /\ fee <= out
    BY FeeFacts
  <1>6. after.fee = walk.fee + fee
    BY DEF Fills
  <1> HIDE DEF fee
  <1>7. after.fee \in Nat
    BY <1>1, <1>5, <1>6
  <1>8. after.out = walk.out + out /\ after.out \in Nat
    BY <1>1 DEF Fills
  <1>9. after.unfilled = walk.unfilled - in - residue /\ after.unfilled \in Nat
    BY <1>1, <1>2 DEF Fills
  <1>10. after.legs \in Seq(LegSet)
    <2>1. [entry |-> e, in |-> in, out |-> out] \in LegSet
      BY DEF LegSet
    <2>2. after.legs = Append(walk.legs, [entry |-> e, in |-> in, out |-> out])
      BY DEF Fills
    <2> QED
      BY <1>1, <2>1, <2>2
  <1>11. after.stopped \in BOOLEAN
    BY <1>1 DEF Fills
  <1>12. after = [atoms |-> after.atoms, remaining |-> after.remaining,
                   unfilled |-> after.unfilled, out |-> after.out, fee |-> after.fee,
                   legs |-> after.legs, stopped |-> after.stopped]
    BY DEF Fills
  <1>13. after \in WalkSet
    <2> DEFINE b == after.atoms
               r == after.remaining
               u == after.unfilled
               o == after.out
               f == after.fee
               l == after.legs
               t == after.stopped
    <2>1. after = [atoms |-> b, remaining |-> r, unfilled |-> u, out |-> o, fee |-> f, legs |-> l,
                   stopped |-> t]
      BY <1>12
    <2>2. /\ b \in [Vaults -> [Legs -> Nat]] /\ r \in [Vaults -> Ladder]
          /\ u \in Nat /\ o \in Nat /\ f \in Nat /\ l \in Seq(LegSet) /\ t \in BOOLEAN
      BY <1>3, <1>4, <1>7, <1>8, <1>9, <1>10, <1>11
    <2> HIDE DEF b, r, u, o, f, l, t
    <2> QED
      BY <2>1, <2>2 DEF WalkSet
  <1>14. after.unfilled <= walk.unfilled
    BY <1>1, <1>9
  <1>15. walk.fee <= walk.out => after.fee <= after.out
    BY <1>1, <1>5, <1>6, <1>8
  <1> QED
    BY <1>13, <1>14, <1>15

LEMMA FillKeepsTerms ==
    ASSUME NEW side \in Sides, NEW e \in EntrySet, NEW r \in [Vaults -> Ladder],
           NEW in \in Nat, NEW out \in Nat, out <= Half(r, side, e),
           NEW x \in Vaults, NEW s \in Sides, NEW i \in Levels
    PROVE  SameTerms(FilledLadders(r, side, e, in, out)[x][s][i], r[x][s][i])
  <1> DEFINE q == FilledLadders(r, side, e, in, out)
             at == RestingSide(side, e)
             p == r[e.vault][at][e.level]
  <1>1. /\ Elsewhere(r, q, side, e) /\ p \in Position
        /\ q[e.vault][at][e.level] = FilledPosition(p, e.flipped, in, out)
    BY FilledLaddersFacts
  <1>2. e.flipped \in BOOLEAN
    BY RestingSideType
  <1>3. out <= IF e.flipped THEN p.flip_size ELSE p.size
    BY DEF Half
  <1>4. SameTerms(FilledPosition(p, e.flipped, in, out), p)
    <2> HIDE DEF p
    <2> QED
      BY <1>1, <1>2, <1>3, FilledPositionFacts DEF SameTerms
  <1>5. CASE x = e.vault /\ s = at /\ i = e.level
    BY <1>1, <1>4, <1>5
  <1>6. CASE ~(x = e.vault /\ s = at /\ i = e.level)
    <2>1. q[x][s][i] = r[x][s][i]
      BY <1>1, <1>6 DEF Elsewhere
    <2> QED
      BY <2>1 DEF SameTerms
  <1> QED
    BY <1>5, <1>6

LEMMA FillConserves ==
    ASSUME NEW side \in Sides, NEW limit, NEW walk \in WalkSet, NEW e \in EntrySet,
           NEW start \in WalkSet, WalkConserves(walk, start, side), NEW after,
           NEW in \in Nat, NEW out \in Nat, NEW residue \in Nat,
           Fills(side, limit, walk, e, after, in, out, residue)
    PROVE  WalkConserves(after, start, side)
  <1> DEFINE ol == LegOf(side)
             il == LegOf(OtherSide(side))
             w == walk.atoms
             a == after.atoms
             x == e.vault
  <1>1. ol \in Legs /\ il \in Legs /\ x \in Vaults
    BY SidesAndLegs, RestingSideType
  <1>2. w \in [Vaults -> [Legs -> Nat]] /\ out <= w[x][ol] /\ a = FilledAtoms(w, side, e, in, out)
    BY WalkSetFacts DEF Fills
  <1>3. /\ a \in [Vaults -> [Legs -> Nat]] /\ \A y \in Vaults \ {x} : a[y] = w[y]
        /\ a[x][ol] = w[x][ol] - out /\ a[x][il] = w[x][il] + in
    <2> HIDE DEF ol, il, w, a, x
    <2>1. ol = LegOf(side) /\ il = LegOf(OtherSide(side)) /\ x = e.vault
      BY DEF ol, il, x
    <2> QED
      BY <1>2, <2>1, FilledAtomsFacts
  <1>4. /\ walk.out \in Nat /\ after.out = walk.out + out
        /\ walk.unfilled \in Nat /\ after.unfilled = walk.unfilled - in - residue
    BY WalkSetFacts DEF Fills
  <1>5. /\ Inventory(w, ol) + walk.out = Inventory(start.atoms, ol)
        /\ Inventory(w, il) + walk.unfilled <= Inventory(start.atoms, il) + start.unfilled
    BY DEF WalkConserves
  <1>6. w[x][ol] \in Nat /\ w[x][il] \in Nat
    BY <1>1, <1>2
  <1> HIDE DEF ol, il, w, a, x
  <1>7. /\ Inventory(w, ol) \in Nat /\ Inventory(a, ol) \in Nat
        /\ Inventory(a, ol) = Inventory(w, ol) - w[x][ol] + a[x][ol]
    BY <1>1, <1>2, <1>3, InventoryUpdate
  <1>8. /\ Inventory(w, il) \in Nat /\ Inventory(a, il) \in Nat
        /\ Inventory(a, il) = Inventory(w, il) - w[x][il] + a[x][il]
    BY <1>1, <1>2, <1>3, InventoryUpdate
  <1>9. Inventory(a, ol) + after.out = Inventory(start.atoms, ol)
    BY <1>3, <1>4, <1>5, <1>6, <1>7
  <1>10. Inventory(a, il) + after.unfilled = Inventory(w, il) + walk.unfilled - residue
    BY <1>3, <1>4, <1>6, <1>8
  <1>11. Inventory(a, il) + after.unfilled <= Inventory(w, il) + walk.unfilled
    BY <1>4, <1>8, <1>10
  <1>12. Inventory(a, il) + after.unfilled <= Inventory(start.atoms, il) + start.unfilled
    <2> DEFINE t == Inventory(start.atoms, il) + start.unfilled
               m == Inventory(w, il) + walk.unfilled
               n == Inventory(a, il) + after.unfilled
    <2>1. m \in Int /\ n \in Int /\ n <= m /\ m <= t
      BY <1>4, <1>5, <1>8, <1>11
    <2>2. t \in Int
      <3> DEFINE z == start.atoms
      <3>1. start.unfilled \in Nat /\ z \in [Vaults -> [Legs -> Nat]]
        BY WalkSetFacts
      <3> HIDE DEF z
      <3>2. Inventory(z, il) \in Nat
        BY <1>1, <3>1, InventoryUpdate
      <3> QED
        BY <3>1, <3>2 DEF z
    <2> HIDE DEF t, m, n
    <2>3. n <= t
      BY <2>1, <2>2
    <2> QED
      BY <2>3 DEF t, n
  <1> QED
    BY <1>9, <1>12 DEF WalkConserves, ol, il, a

\* The heap as the walk meets it.
LEMMA HeapFacts ==
    ASSUME TypeOK, NEW side \in Sides, NEW n, n = Cardinality(Entries(side))
    PROVE  /\ n \in Nat /\ Heap(side) \in [1 .. n -> Entries(side)]
           /\ \A i, j \in 1 .. n : i # j => Heap(side)[i] # Heap(side)[j]
           /\ \A i, j \in 1 .. n : i < j =>
                 KeyBefore(Key(side, Heap(side)[i]), Key(side, Heap(side)[j]))
           /\ \A e \in Entries(side) : \E i \in 1 .. n : Heap(side)[i] = e
  <1> DEFINE h == Heap(side)
             S == Entries(side)
             lt == PriceTime(side)
  <1>1. n \in Nat
    BY EntriesFinite, FS_CardinalityType
  <1>2. /\ h \in [1 .. n -> S]
        /\ \A i, j \in 1 .. n : i < j => <<h[i], h[j]>> \in lt
        /\ \A e \in S : \E i \in 1 .. n : h[i] = e
    BY HeapLists DEF Lists
  <1>3. \A e \in S : <<e, e>> \notin lt
    BY PriceTimeIsStrict DEF StrictOrder
  <1> HIDE DEF h
  <1>4. ASSUME NEW i \in 1 .. n, NEW j \in 1 .. n, i < j
        PROVE  KeyBefore(Key(side, h[i]), Key(side, h[j])) /\ h[i] # h[j]
    <2>1. h[i] \in S /\ h[j] \in S /\ <<h[i], h[j]>> \in lt
      BY <1>2, <1>4
    <2>2. KeyBefore(Key(side, h[i]), Key(side, h[j]))
      BY <2>1, PriceTimeFacts
    <2>3. h[i] # h[j]
      BY <1>3, <2>1
    <2> QED
      BY <2>2, <2>3
  <1>5. ASSUME NEW i \in 1 .. n, NEW j \in 1 .. n, i # j
        PROVE  h[i] # h[j]
    <2>1. i < j \/ j < i
      BY <1>1, <1>5
    <2> QED
      BY <1>4, <2>1
  <1> QED
    BY <1>1, <1>2, <1>4, <1>5 DEF h

\* Stopping or passing over an entry changes nothing else.
LEMMA WalkStops ==
    ASSUME NEW side \in Sides, NEW limit, NEW heap, NEW n \in Nat, NEW k \in 1 .. n,
           NEW walk, NEW start, WalkInv(walk, start, side, limit, heap, n, k - 1)
    PROVE  WalkInv([walk EXCEPT !.stopped = TRUE], start, side, limit, heap, n, k)
  <1> DEFINE after == [walk EXCEPT !.stopped = TRUE]
  <1>1. walk \in WalkSet
    BY DEF WalkInv, WalkTyped
  <1>2. /\ after \in WalkSet /\ after.atoms = walk.atoms /\ after.remaining = walk.remaining
        /\ after.unfilled = walk.unfilled /\ after.out = walk.out /\ after.fee = walk.fee
        /\ after.legs = walk.legs /\ after.stopped = TRUE
    BY <1>1 DEF WalkSet
  <1> HIDE DEF after
  <1>3. WalkTyped(after, start.unfilled) /\ WalkTerms(after, start) /\ WalkLadders(after, start)
    BY <1>2 DEF WalkInv, WalkTyped, WalkTerms, WalkLadders
  <1>4. WalkConserves(after, start, side)
    BY <1>2 DEF WalkInv, WalkConserves
  <1>5. WalkPending(after, side, heap, k + 1 .. n)
    <2>1. \A j \in k + 1 .. n : j \in (k - 1) + 1 .. n
      OBVIOUS
    <2> QED
      BY <1>2, <2>1 DEF WalkInv, WalkPending
  <1>6. \A e : Worthless(walk, side, e) => Worthless(after, side, e)
    BY <1>2 DEF Worthless
  <1>7. WalkLegs(after, side, limit, heap, 1 .. k)
    <2>1. \A j \in 1 .. k - 1 : j \in 1 .. k
      OBVIOUS
    <2> QED
      BY <1>2, <1>6, <2>1 DEF WalkInv, WalkLegs
  <1>8. WalkPassed(after, side, heap, 1 .. k)
    BY <1>2 DEF WalkPassed
  <1> QED
    BY <1>3, <1>4, <1>5, <1>7, <1>8 DEF WalkInv, after

LEMMA WalkPasses ==
    ASSUME NEW side \in Sides, NEW limit, NEW heap, NEW n \in Nat, NEW k \in 1 .. n,
           NEW walk, NEW start, WalkInv(walk, start, side, limit, heap, n, k - 1),
           Worthless(walk, side, heap[k])
    PROVE  WalkInv(walk, start, side, limit, heap, n, k)
  <1>1. \A j \in k + 1 .. n : j \in (k - 1) + 1 .. n
    OBVIOUS
  <1>2. \A j \in 1 .. k - 1 : j \in 1 .. k
    OBVIOUS
  <1>3. \A j \in 1 .. k : j \in 1 .. k - 1 \/ j = k
    OBVIOUS
  <1>4. WalkPending(walk, side, heap, k + 1 .. n)
    BY <1>1 DEF WalkInv, WalkPending
  <1>5. WalkLegs(walk, side, limit, heap, 1 .. k)
    BY <1>2 DEF WalkInv, WalkLegs
  <1>6. WalkPassed(walk, side, heap, 1 .. k)
    BY <1>3 DEF WalkInv, WalkPassed
  <1> QED
    BY <1>4, <1>5, <1>6 DEF WalkInv

\* A leg keeps every part of the invariant.
LEMMA WalkFills ==
    ASSUME TypeOK, NEW side \in Sides, NEW limit, NEW n, n = Cardinality(Entries(side)),
           NEW k \in 1 .. n, NEW walk, NEW start \in WalkSet,
           WalkInv(walk, start, side, limit, Heap(side), n, k - 1),
           NEW after, NEW in \in Nat, NEW out \in Nat, NEW residue \in Nat,
           Fills(side, limit, walk, Heap(side)[k], after, in, out, residue)
    PROVE  WalkInv(after, start, side, limit, Heap(side), n, k)
  <1> DEFINE heap == Heap(side)
             e == heap[k]
  <1>1. /\ n \in Nat /\ heap \in [1 .. n -> Entries(side)]
        /\ \A i, j \in 1 .. n : i # j => heap[i] # heap[j]
    BY HeapFacts
  <1>2. Fills(side, limit, walk, e, after, in, out, residue)
    OBVIOUS
  <1>3. WalkInv(walk, start, side, limit, heap, n, k - 1)
    OBVIOUS
  <1> HIDE DEF heap
  <1>4. \A j \in 1 .. n : heap[j] \in Entries(side) /\ heap[j] \in EntrySet
                          /\ Matchable(heap[j].price)
    BY <1>1, EntryFacts
  <1>5. e \in Entries(side) /\ e \in EntrySet
    BY <1>4
  <1>6. walk \in WalkSet /\ walk.fee <= walk.out /\ walk.unfilled <= start.unfilled
    BY <1>3 DEF WalkInv, WalkTyped
  <1>7. Half(walk.remaining, side, e) = e.size
    BY <1>1, <1>3 DEF WalkInv, WalkPending
  <1> HIDE DEF e
  <1>8. /\ after \in WalkSet /\ after.unfilled <= walk.unfilled /\ after.fee <= after.out
    BY <1>2, <1>5, <1>6, <1>7, FillTypes
  <1>9. WalkTyped(after, start.unfilled)
    <2>1. after.unfilled \in Nat /\ walk.unfilled \in Nat /\ start.unfilled \in Nat
      BY <1>6, <1>8, WalkSetFacts
    <2> QED
      BY <1>6, <1>8, <2>1 DEF WalkTyped
  <1> DEFINE r == walk.remaining
             w == walk.atoms
             q == FilledLadders(r, side, e, in, out)
             a == FilledAtoms(w, side, e, in, out)
  <1>10. /\ r \in [Vaults -> Ladder] /\ w \in [Vaults -> [Legs -> Nat]]
         /\ out <= Half(r, side, e) /\ out <= w[e.vault][LegOf(side)]
         /\ after.remaining = q /\ after.atoms = a
    BY <1>2, <1>6, <1>7, WalkSetFacts DEF Fills
  <1> HIDE DEF r, w
  <1>11. /\ a \in [Vaults -> [Legs -> Nat]] /\ \A y \in Vaults \ {e.vault} : a[y] = w[y]
         /\ a[e.vault][LegOf(side)] = w[e.vault][LegOf(side)] - out
    <2>1. w \in [Vaults -> [Legs -> Nat]] /\ out <= w[e.vault][LegOf(side)]
      BY <1>10
    <2>2. a = FilledAtoms(w, side, e, in, out)
      OBVIOUS
    <2>3. e \in EntrySet /\ in \in Nat /\ out \in Nat
      BY <1>5
    <2> HIDE DEF a, q
    <2>4. /\ FilledAtoms(w, side, e, in, out) \in [Vaults -> [Legs -> Nat]]
          /\ \A y \in Vaults \ {e.vault} : FilledAtoms(w, side, e, in, out)[y] = w[y]
          /\ FilledAtoms(w, side, e, in, out)[e.vault][LegOf(side)] = w[e.vault][LegOf(side)] - out
      BY <2>1, <2>3, FilledAtomsFacts, SMTT(30)
    <2> QED
      BY <2>2, <2>4, Zenon
  <1>12. /\ q \in [Vaults -> Ladder] /\ Elsewhere(r, q, side, e)
    BY <1>5, <1>10, FilledLaddersFacts
  <1>13. WalkTerms(after, start)
    <2>1. ASSUME NEW x \in Vaults, NEW s \in Sides, NEW i \in Levels
          PROVE  SameTerms(q[x][s][i], start.remaining[x][s][i])
      <3>1. SameTerms(q[x][s][i], r[x][s][i])
        BY <1>5, <1>10, FillKeepsTerms
      <3>2. SameTerms(r[x][s][i], start.remaining[x][s][i])
        BY <1>3 DEF WalkInv, WalkTerms, r
      <3> QED
        BY <3>1, <3>2 DEF SameTerms
    <2> QED
      BY <1>10, <2>1 DEF WalkTerms
  <1>14. WalkLadders(after, start)
    <2>1. ASSUME NEW x \in Vaults, Quoting(x)
          PROVE  Covered(q[x], a[x])
      <3>1. Covered(r[x], w[x])
        BY <1>3, <2>1 DEF WalkInv, WalkLadders, r, w
      <3> QED
        BY <1>5, <1>10, <3>1, FillCovers
    <2>2. ASSUME NEW x \in Vaults, ~Quoting(x)
          PROVE  a[x] = start.atoms[x] /\ q[x] = start.remaining[x]
      <3>1. w[x] = start.atoms[x] /\ r[x] = start.remaining[x]
        BY <1>3, <2>2 DEF WalkInv, WalkLadders, r, w
      <3>2. x # e.vault
        BY <1>5, <2>2, EntryFacts
      <3>3. a[x] = w[x]
        BY <1>11, <3>2
      <3>4. q[x] = r[x]
        BY <3>2 DEF q, FilledLadders
      <3> QED
        BY <3>1, <3>3, <3>4
    <2> HIDE DEF q, a
    <2> QED
      BY <1>10, <2>1, <2>2 DEF WalkLadders
  <1>15. WalkConserves(after, start, side)
    BY <1>2, <1>3, <1>5, <1>6, FillConserves DEF WalkInv
  <1>16. ASSUME NEW j \in 1 .. n, j # k
         PROVE  /\ heap[j] \in EntrySet /\ Matchable(heap[j].price)
                /\ Half(q, side, heap[j]) = Half(r, side, heap[j])
    <2>1. heap[j] \in Entries(side) /\ heap[j] # e
      BY <1>1, <1>4, <1>16 DEF e
    <2>2. Half(q, side, heap[j]) = Half(r, side, heap[j])
      BY <1>5, <1>10, <2>1, HalvesApart
    <2> QED
      BY <1>4, <2>2
  <1>17. ASSUME NEW j \in 1 .. n, j # k, Worthless(walk, side, heap[j])
         PROVE  Worthless(after, side, heap[j])
    <2>1. heap[j] \in EntrySet /\ Matchable(heap[j].price)
      BY <1>16, <1>17
    <2>2. Half(after.remaining, side, heap[j]) = Half(walk.remaining, side, heap[j])
      BY <1>10, <1>16, <1>17 DEF r
    <2>3. after.atoms[heap[j].vault][LegOf(side)] <= walk.atoms[heap[j].vault][LegOf(side)]
      <3>1. heap[j].vault \in Vaults /\ LegOf(side) \in Legs
        BY <2>1, RestingSideType, SidesAndLegs
      <3>2. w[heap[j].vault][LegOf(side)] \in Nat /\ w[e.vault][LegOf(side)] \in Nat
        BY <1>5, <1>10, <3>1, RestingSideType
      <3> HIDE DEF a, q
      <3>3. a[heap[j].vault][LegOf(side)] <= w[heap[j].vault][LegOf(side)]
        <4>1. CASE heap[j].vault = e.vault
          BY <1>11, <3>2, <4>1
        <4>2. CASE heap[j].vault # e.vault
          BY <1>11, <3>1, <3>2, <4>2
        <4> QED
          BY <4>1, <4>2
      <3> QED
        BY <1>10, <3>3 DEF w
    <2> QED
      BY <1>6, <1>8, <1>17, <2>1, <2>2, <2>3, WorthlessStays
  <1>18. WalkPending(after, side, heap, k + 1 .. n)
    <2>1. ASSUME NEW j \in k + 1 .. n
          PROVE  Half(after.remaining, side, heap[j]) = heap[j].size
      <3>1. j \in 1 .. n /\ j # k /\ j \in (k - 1) + 1 .. n
        BY <1>1
      <3>2. Half(r, side, heap[j]) = heap[j].size
        BY <1>3, <3>1 DEF WalkInv, WalkPending, r
      <3> QED
        BY <1>10, <1>16, <3>1, <3>2
    <2> QED
      BY <2>1 DEF WalkPending
  <1>19. \A j \in 1 .. k - 1 : Worthless(walk, side, heap[j])
    BY <1>2, <1>3 DEF Fills, WalkInv, WalkPassed
  <1>20. \A j \in 1 .. k - 1 : Worthless(after, side, heap[j])
    <2> SUFFICES ASSUME NEW j \in 1 .. k - 1 PROVE Worthless(after, side, heap[j])
      OBVIOUS
    <2>1. j \in 1 .. n /\ j # k
      BY <1>1
    <2> QED
      BY <1>17, <1>19, <2>1
  <1>21. WalkPassed(after, side, heap, 1 .. k)
    <2>1. ASSUME after.unfilled # 0
          PROVE  Worthless(after, side, e)
      <3>1. in + residue # walk.unfilled
        <4>1. walk.unfilled \in Nat /\ after.unfilled = walk.unfilled - in - residue
          BY <1>2, <1>6, WalkSetFacts DEF Fills
        <4> QED
          BY <2>1, <4>1
      <3>2. out = Lesser(e.size, w[e.vault][LegOf(side)])
        BY <1>2, <3>1 DEF Fills, w
      <3>3. Half(q, side, e) = e.size - out
        <4> DEFINE at == RestingSide(side, e)
                   p == r[e.vault][at][e.level]
        <4>1. p \in Position /\ q[e.vault][at][e.level] = FilledPosition(p, e.flipped, in, out)
          BY <1>5, <1>10, FilledLaddersFacts
        <4>2. e.flipped \in BOOLEAN
          BY <1>5, RestingSideType
        <4>3. /\ e.size = IF e.flipped THEN p.flip_size ELSE p.size
          BY <1>7 DEF Half, r
        <4>4. out <= IF e.flipped THEN p.flip_size ELSE p.size
          BY <1>10 DEF Half
        <4> HIDE DEF p, at, q
        <4>5. /\ e.flipped => FilledPosition(p, e.flipped, in, out).flip_size = p.flip_size - out
              /\ ~e.flipped => FilledPosition(p, e.flipped, in, out).size = p.size - out
          BY <4>1, <4>2, <4>4, FilledPositionFacts
        <4> QED
          BY <4>1, <4>2, <4>3, <4>5 DEF Half, at
      <3>4. w[e.vault][LegOf(side)] \in Nat /\ e.size \in Nat
        BY <1>5, <1>10, RestingSideType, SidesAndLegs
      <3> DEFINE s == e.size
                 t == w[e.vault][LegOf(side)]
      <3>5. /\ s \in Nat /\ t \in Nat /\ out = Lesser(s, t)
            /\ Half(q, side, e) = s - out /\ a[e.vault][LegOf(side)] = t - out
        BY <1>11, <3>2, <3>3, <3>4
      <3> HIDE DEF s, t, q, a
      <3>6. Lesser(s - out, t - out) = 0
        BY <3>5 DEF Lesser
      <3>7. Lesser(Half(after.remaining, side, e), after.atoms[e.vault][LegOf(side)]) = 0
        BY <1>10, <3>5, <3>6
      <3> QED
        BY <3>7 DEF Worthless
    <2>2. \A j \in 1 .. k : j \in 1 .. k - 1 \/ j = k
      BY <1>1
    <2> QED
      BY <1>20, <2>1, <2>2 DEF WalkPassed, e
  <1>22. WalkLegs(after, side, limit, heap, 1 .. k)
    <2> DEFINE leg == [entry |-> e, in |-> in, out |-> out]
               m == Len(walk.legs)
    <2>1. walk.legs \in Seq(LegSet) /\ leg \in LegSet /\ after.legs = Append(walk.legs, leg)
      BY <1>2, <1>5, <1>6, WalkSetFacts DEF Fills, LegSet
    <2>2. leg.entry = e
      OBVIOUS
    <2> HIDE DEF leg
    <2>3. /\ m \in Nat /\ DOMAIN walk.legs = 1 .. m /\ DOMAIN after.legs = 1 .. m + 1
          /\ after.legs[m + 1] = leg /\ \A i \in 1 .. m : after.legs[i] = walk.legs[i]
      BY <2>1
    <2> HIDE DEF m
    <2> SUFFICES ASSUME NEW i \in DOMAIN after.legs
                 PROVE  /\ ~CrossesLimit(side, after.legs[i].entry.price, limit)
                        /\ \E j \in 1 .. k : /\ after.legs[i].entry = heap[j]
                                             /\ \A h \in 1 .. j - 1 :
                                                   Worthless(after, side, heap[h])
      BY DEF WalkLegs
    <2>4. CASE i = m + 1
      <3>1. after.legs[i].entry = heap[k]
        BY <2>2, <2>3, <2>4 DEF e
      <3>2. ~CrossesLimit(side, e.price, limit)
        BY <1>2 DEF Fills
      <3> QED
        BY <1>20, <3>1, <3>2 DEF e
    <2>5. CASE i \in 1 .. m
      <3>1. after.legs[i] = walk.legs[i] /\ i \in DOMAIN walk.legs
        BY <2>3, <2>5
      <3>2. PICK j \in 1 .. k - 1 : walk.legs[i].entry = heap[j]
        BY <1>3, <3>1 DEF WalkInv, WalkLegs
      <3>3. ~CrossesLimit(side, walk.legs[i].entry.price, limit)
        BY <1>3, <3>1 DEF WalkInv, WalkLegs
      <3>4. j \in 1 .. k /\ \A h \in 1 .. j - 1 : h \in 1 .. k - 1
        OBVIOUS
      <3> QED
        BY <1>20, <3>1, <3>2, <3>3, <3>4
    <2> QED
      BY <2>3, <2>4, <2>5
  <1> QED
    BY <1>9, <1>13, <1>14, <1>15, <1>18, <1>21, <1>22 DEF WalkInv, heap

-----------------------------------------------------------------------------
(* What holds at the end of a walk *)

LEMMA WalkStartFacts ==
    ASSUME TypeOK, NEW amount_in \in Nat
    PROVE  LET start == WalkStart(amount_in) IN
           /\ start \in WalkSet /\ start.unfilled = amount_in /\ start.out = 0 /\ start.fee = 0
           /\ start.legs = <<>> /\ start.stopped = FALSE
           /\ \A x \in Vaults :
                 /\ start.atoms[x] = vaults[x].atoms
                 /\ start.remaining[x] = IF Quoting(x) THEN Rested(x) ELSE remaining[x]
  <1> DEFINE atoms == [x \in Vaults |-> vaults[x].atoms]
             ladders == [x \in Vaults |-> IF Quoting(x) THEN Rested(x) ELSE remaining[x]]
  <1>1. atoms \in [Vaults -> [Legs -> Nat]]
    BY RestedType DEF Vault
  <1>2. ladders \in [Vaults -> Ladder]
    BY RestedType
  <1>3. WalkStart(amount_in) = [atoms |-> atoms, remaining |-> ladders, unfilled |-> amount_in,
                                out |-> 0, fee |-> 0, legs |-> <<>>, stopped |-> FALSE]
    BY DEF WalkStart
  <1>4. \A x \in Vaults : /\ atoms[x] = vaults[x].atoms
                          /\ ladders[x] = IF Quoting(x) THEN Rested(x) ELSE remaining[x]
    OBVIOUS
  <1>5. <<>> \in Seq(LegSet)
    OBVIOUS
  <1> HIDE DEF atoms, ladders
  <1>6. WalkStart(amount_in) \in WalkSet
    BY <1>1, <1>2, <1>3, <1>5 DEF WalkSet
  <1> QED
    BY <1>3, <1>4, <1>6

\* The first swap after a flush finds what the flush leaves; any other, what
\* rests.
LEMMA WalkStartsRight ==
    ASSUME TypeOK, BookBacked, NEW side \in Sides, NEW limit, NEW amount_in \in Nat,
           NEW n, n = Cardinality(Entries(side))
    PROVE  WalkInv(WalkStart(amount_in), WalkStart(amount_in), side, limit, Heap(side), n, 0)
  <1> DEFINE start == WalkStart(amount_in)
             heap == Heap(side)
  <1>1. /\ start \in WalkSet /\ start.unfilled = amount_in /\ start.out = 0 /\ start.fee = 0
        /\ start.legs = <<>>
        /\ \A x \in Vaults :
              /\ start.atoms[x] = vaults[x].atoms
              /\ start.remaining[x] = IF Quoting(x) THEN Rested(x) ELSE remaining[x]
    BY WalkStartFacts
  <1> HIDE DEF start
  <1>2. WalkTyped(start, start.unfilled)
    BY <1>1 DEF WalkTyped
  <1>3. WalkTerms(start, start)
    BY DEF WalkTerms, SameTerms
  <1>4. WalkLadders(start, start)
    <2>1. \A x \in Vaults : Covered(Rested(x), vaults[x].atoms)
      BY CoveredIsBacked
    <2> QED
      BY <1>1, <2>1 DEF WalkLadders
  <1>5. WalkConserves(start, start, side)
    <2>1. start.atoms \in [Vaults -> [Legs -> Nat]] /\ start.unfilled \in Nat
      BY <1>1, WalkSetFacts
    <2>2. LegOf(side) \in Legs /\ LegOf(OtherSide(side)) \in Legs
      BY SidesAndLegs
    <2> DEFINE f == [x \in Vaults |-> start.atoms[x][LegOf(side)]]
               h == [x \in Vaults |-> start.atoms[x][LegOf(OtherSide(side))]]
    <2>3. f \in [Vaults -> Nat] /\ h \in [Vaults -> Nat] /\ IsFiniteSet(Vaults)
      BY <2>1, <2>2, SidesAndLegs
    <2> HIDE DEF f, h
    <2>4. SumFunction(f) \in Nat /\ SumFunction(h) \in Nat
      BY <2>3, SumOfNats
    <2>5. /\ Inventory(start.atoms, LegOf(side)) \in Nat
          /\ Inventory(start.atoms, LegOf(OtherSide(side))) \in Nat
      BY <2>4 DEF Inventory, f, h
    <2> QED
      BY <1>1, <2>1, <2>5 DEF WalkConserves
  <1>6. ASSUME NEW j \in 1 .. n
        PROVE  Half(start.remaining, side, heap[j]) = heap[j].size
    <2> DEFINE e == heap[j]
    <2>1. e \in Entries(side)
      BY HeapFacts
    <2> HIDE DEF e
    <2>2. /\ e \in EntrySet /\ Quoting(e.vault)
          /\ e = IF e.flipped THEN FlippedEntry(side, e.vault, e.level)
                 ELSE OwnEntry(side, e.vault, e.level)
      BY <2>1, EntryFacts
    <2>3. start.remaining[e.vault] = Rested(e.vault)
      BY <1>1, <2>2, RestingSideType
    <2>4. CASE e.flipped
      <3>1. e.size = Rested(e.vault)[OtherSide(side)][e.level].flip_size
        BY <2>2, <2>4 DEF FlippedEntry
      <3> QED
        BY <2>3, <2>4, <3>1 DEF Half, RestingSide, e
    <2>5. CASE ~e.flipped
      <3>1. e.size = Rested(e.vault)[side][e.level].size
        BY <2>2, <2>5 DEF OwnEntry
      <3> QED
        BY <2>3, <2>5, <3>1 DEF Half, RestingSide, e
    <2> QED
      BY <2>4, <2>5
  <1>7. WalkPending(start, side, heap, 0 + 1 .. n)
    BY <1>6 DEF WalkPending
  <1>8. WalkLegs(start, side, limit, heap, 1 .. 0)
    BY <1>1 DEF WalkLegs
  <1>9. WalkPassed(start, side, heap, 1 .. 0)
    BY DEF WalkPassed
  <1> QED
    BY <1>2, <1>3, <1>4, <1>5, <1>7, <1>8, <1>9 DEF WalkInv, start

LEMMA WalkStepKeeps ==
    ASSUME TypeOK, NEW side \in Sides, NEW limit, NEW n, n = Cardinality(Entries(side)),
           NEW k \in 1 .. n, NEW walk, NEW start \in WalkSet,
           WalkInv(walk, start, side, limit, Heap(side), n, k - 1)
    PROVE  WalkInv(WalkEntry(side, limit, walk, Heap(side)[k]), start, side, limit,
                   Heap(side), n, k)
  <1> DEFINE e == Heap(side)[k]
             after == WalkEntry(side, limit, walk, e)
  <1>1. n \in Nat /\ e \in Entries(side)
    BY HeapFacts
  <1>2. e \in EntrySet /\ Matchable(e.price)
    BY <1>1, EntryFacts
  <1>3. walk \in WalkSet
    BY DEF WalkInv, WalkTyped
  <1>4. Half(walk.remaining, side, e) = e.size
    <2>1. k \in (k - 1) + 1 .. n
      BY <1>1
    <2> QED
      BY <2>1 DEF WalkInv, WalkPending
  <1>5. after = WalkEntry(side, limit, walk, e)
    OBVIOUS
  <1> HIDE DEF after
  <1>6. \/ after = [walk EXCEPT !.stopped = TRUE]
        \/ after = walk /\ ~walk.stopped /\ walk.unfilled # 0 /\ Worthless(walk, side, e)
        \/ \E in, out, residue \in Nat : Fills(side, limit, walk, e, after, in, out, residue)
    <2> HIDE DEF e
    <2> QED
      BY <1>2, <1>3, <1>4, <1>5, WalkEntryCases
  <1>7. CASE after = [walk EXCEPT !.stopped = TRUE]
    BY <1>1, <1>7, WalkStops DEF after
  <1>8. CASE after = walk /\ Worthless(walk, side, e)
    BY <1>1, <1>8, WalkPasses DEF after
  <1>9. CASE \E in, out, residue \in Nat : Fills(side, limit, walk, e, after, in, out, residue)
    BY <1>9, WalkFills DEF after
  <1> QED
    BY <1>6, <1>7, <1>8, <1>9

\* The whole walk.
LEMMA WalkedInv ==
    ASSUME TypeOK, BookBacked, NEW side \in Sides, NEW limit, NEW amount_in \in Nat,
           NEW n, n = Cardinality(Entries(side))
    PROVE  WalkInv(Walked(side, amount_in, limit), WalkStart(amount_in), side, limit,
                   Heap(side), n, n)
  <1> DEFINE start == WalkStart(amount_in)
             heap == Heap(side)
             Holds(walk, k) == WalkInv(walk, start, side, limit, heap, n, k)
  <1>1. n \in Nat /\ DOMAIN heap = 1 .. n
    BY HeapFacts
  <1>2. start \in WalkSet
    BY WalkStartFacts
  <1>3. Holds(start, 0)
    BY WalkStartsRight
  <1>4. ASSUME NEW k \in 1 .. n, NEW walk, Holds(walk, k - 1)
        PROVE  Holds(WalkEntry(side, limit, walk, heap[k]), k)
    BY <1>2, <1>4, WalkStepKeeps
  <1>5. Walked(side, amount_in, limit) = WalkOver(side, limit, start, heap)
    BY DEF Walked, WalkStart, WalkOver
  <1> HIDE DEF start, heap, Holds
  <1>6. PICK acc : /\ IsTrace(acc, "swap", side, limit, start, heap, n)
                   /\ acc[n] = WalkOver(side, limit, start, heap)
    BY <1>1, WalkTraced
  <1> DEFINE T == {k \in Nat : k <= n => Holds(acc[k], k)}
  <1>7. 0 \in T
    BY <1>3, <1>6 DEF IsTrace
  <1>8. ASSUME NEW k \in Nat, k \in T
        PROVE  k + 1 \in T
    <2>1. CASE k + 1 <= n
      <3>1. k + 1 \in 1 .. n /\ (k + 1) - 1 = k /\ Holds(acc[k], k)
        BY <1>1, <1>8, <2>1
      <3>2. acc[k + 1] = WalkEntry(side, limit, acc[k], heap[k + 1])
        BY <1>6, <3>1 DEF IsTrace, Step
      <3>3. Holds(acc[k + 1], k + 1)
        BY <1>4, <3>1, <3>2
      <3> QED
        BY <3>3
    <2>2. CASE ~(k + 1 <= n)
      BY <2>2
    <2> QED
      BY <2>1, <2>2
  <1>9. \A k \in Nat : k \in T
    <2> HIDE DEF T
    <2> QED
      BY <1>7, <1>8, NatSetInduction
  <1>10. Holds(acc[n], n)
    BY <1>1, <1>9
  <1> QED
    BY <1>5, <1>6, <1>10 DEF Holds, start, heap

-----------------------------------------------------------------------------
(* The inductive invariant *)

\* What a vault rests came from the ladder and the reference price it quotes now.
AtCurrentQuote ==
    \A x \in Vaults : ~vaults[x].flush /\ Matchable(vaults[x].price) =>
        \A side \in Sides, i \in Levels :
            SameTerms(remaining[x][side][i], MaterializedLevel(vaults[x], side, i))

\* BookBacked alone is not inductive: the walk takes a fill out of the leg that
\* the level is backed by, so the types, the treasuries and the terms of what
\* rests go with it.
BookIInv ==
    /\ TypeOK /\ BookBacked /\ BookSolvent /\ AtCurrentQuote
    /\ TakerProtected /\ FillsAtCurrentQuote

\* A ladder that has just been materialized is covered: its sizes are shares of
\* the leg that sum to no more than the whole.
LEMMA MaterializedCovered ==
    ASSUME NEW v \in Vault
    PROVE  Covered(Materialized(v), v.atoms)
  <1> SUFFICES ASSUME NEW side \in Sides
               PROVE  Resting(Materialized(v), side) <= v.atoms[LegOf(side)]
    BY DEF Covered
  <1> DEFINE bps == [i \in Levels |-> v.profile[side][i].size_bps]
             sizes == Sizes(Materialized(v), side)
             flips == FlipSizes(Materialized(v), OtherSide(side))
             stock == v.atoms[LegOf(side)]
  <1>1. /\ OtherSide(side) \in Sides /\ IsFiniteSet(Levels)
        /\ BPS \in Nat \ {0}
    BY SidesAndLegs, BookAssumption
  <1>2. \A i \in Levels : v.profile[side][i].size_bps \in Nat /\ stock \in Nat
    BY LevelTypes
  <1>3. stock \in Nat
    <2>1. v.atoms \in [Legs -> Nat]
      BY DEF Vault
    <2> QED
      BY <2>1, SidesAndLegs
  <1>4. bps \in [Levels -> Int] /\ \A i \in Levels : bps[i] \in Nat
    BY <1>2
  <1>5. flips = [i \in Levels |-> 0]
    BY <1>1 DEF FlipSizes, Materialized, MaterializedLevel
  <1>6. SumFunction(flips) = 0
    BY <1>1, <1>5, SumOfZeros
  <1>7. sizes = [i \in Levels |-> IF SideSum(v.profile, side) <= BPS
                                  THEN (stock * bps[i]) \div BPS ELSE 0]
    BY DEF Sizes, Materialized, MaterializedLevel
  <1>8. SideSum(v.profile, side) = SumFunction(bps)
    BY DEF SideSum
  <1>9. sizes \in [Levels -> Int] /\ SumFunction(sizes) \in Nat
    <2>1. Materialized(v) \in Ladder
      BY MaterializedType
    <2>2. sizes \in [Levels -> Nat] /\ SumFunction(sizes) \in Nat
      BY <2>1, SizesType
    <2> HIDE DEF sizes
    <2> QED
      BY <2>2
  <1> HIDE DEF bps, sizes, flips, stock
  <1>10. SumFunction(bps) \in Int
    BY <1>1, <1>4, SumType
  <1>11. SumFunction(sizes) <= stock
    <2>1. CASE SumFunction(bps) <= BPS
      <3>1. ASSUME NEW i \in Levels PROVE sizes[i] * BPS <= bps[i] * stock
        <4> DEFINE b == bps[i]
        <4>1. b \in Nat /\ sizes[i] = (stock * b) \div BPS
          BY <1>4, <1>7, <1>8, <2>1
        <4> HIDE DEF b
        <4>2. stock * b \in Nat
          BY <1>3, <4>1, ProductGrows
        <4>3. ((stock * b) \div BPS) * BPS <= stock * b
          BY <1>1, <4>2, DivFacts
        <4>4. stock * b = b * stock
          BY <1>3, <4>1
        <4> QED
          BY <4>1, <4>3, <4>4 DEF b
      <3>2. SumFunction(sizes) * BPS <= SumFunction(bps) * stock
        <4>1. BPS \in Nat
          BY <1>1
        <4> QED
          BY <1>1, <1>3, <1>4, <1>9, <3>1, <4>1, SumInProportion
      <3> DEFINE a == SumFunction(sizes)
                 b == SumFunction(bps)
      <3>3. a \in Nat /\ b \in Int /\ a * BPS <= b * stock /\ b <= BPS
        BY <1>9, <1>10, <2>1, <3>2
      <3> HIDE DEF a, b
      <3>4. a <= stock
        <4>1. b * stock <= BPS * stock
          BY <1>1, <1>3, <3>3
        <4>2. a > stock => a * BPS > BPS * stock
          <5>1. a > stock => a * BPS >= (stock + 1) * BPS
            <6>1. a > stock => stock + 1 \in Nat /\ BPS \in Nat /\ stock + 1 <= a
              BY <1>1, <1>3, <3>3
            <6> QED
              BY <3>3, <6>1, ProductGrows
          <5>2. (stock + 1) * BPS = BPS * stock + BPS
            BY <1>1, <1>3
          <5>3. BPS * stock \in Nat /\ a * BPS \in Nat
            BY <1>1, <1>3, <3>3, ProductGrows
          <5> QED
            BY <1>1, <5>1, <5>2, <5>3
        <4>3. a * BPS \in Nat /\ b * stock \in Int /\ BPS * stock \in Nat
          BY <1>1, <1>3, <3>3
        <4> QED
          BY <1>3, <3>3, <4>1, <4>2, <4>3
      <3> QED
        BY <3>4 DEF a
    <2>2. CASE ~(SumFunction(bps) <= BPS)
      <3>1. sizes = [i \in Levels |-> 0]
        BY <1>7, <1>8, <2>2
      <3>2. SumFunction(sizes) = 0
        BY <1>1, <3>1, SumOfZeros
      <3> QED
        BY <1>3, <3>2
    <2> QED
      BY <2>1, <2>2
  <1>12. Resting(Materialized(v), side) = SumFunction(sizes) + SumFunction(flips)
    BY DEF Resting, sizes, flips
  <1> QED
    BY <1>3, <1>6, <1>9, <1>11, <1>12 DEF stock

LEMMA ScaleFacts ==
    ASSUME NEW atoms \in Nat, NEW old \in Nat, NEW new \in Nat
    PROVE  /\ ScaleAtoms(atoms, old, new) \in Nat
           /\ old # 0 => ScaleAtoms(atoms, old, new) * old <= atoms * new
           /\ old = 0 => ScaleAtoms(atoms, old, new) = atoms
  <1>1. CASE old = 0
    BY <1>1 DEF ScaleAtoms
  <1>2. CASE old # 0 /\ old = new
    BY <1>2 DEF ScaleAtoms
  <1>3. CASE old # 0 /\ atoms = 0
    BY <1>3 DEF ScaleAtoms
  <1>4. CASE old # 0 /\ atoms # 0 /\ old # new
    <2>1. ScaleAtoms(atoms, old, new) = (atoms * new) \div old
      BY <1>4 DEF ScaleAtoms
    <2>2. atoms * new \in Nat /\ old \in Nat \ {0}
      BY <1>4, ProductGrows
    <2> QED
      BY <1>4, <2>1, <2>2, DivFacts
  <1> QED
    BY <1>1, <1>2, <1>3, <1>4

\* The ladder of a vault whose inventory moves.
LEMMA RescaledFacts ==
    ASSUME TypeOK, NEW x \in Vaults, NEW stock \in [Legs -> Nat], NEW side \in Sides,
           NEW i \in Levels
    PROVE  /\ Rescaled(x, stock)[side][i] \in Position
           /\ SameTerms(Rescaled(x, stock)[side][i], remaining[x][side][i])
           /\ Rescaled(x, stock)[side][i].size
                = ScaleAtoms(remaining[x][side][i].size, vaults[x].atoms[LegOf(side)],
                             stock[LegOf(side)])
           /\ Rescaled(x, stock)[side][i].flip_size
                = ScaleAtoms(remaining[x][side][i].flip_size,
                             vaults[x].atoms[LegOf(OtherSide(side))],
                             stock[LegOf(OtherSide(side))])
  <1> DEFINE p == remaining[x][side][i]
             size == ScaleAtoms(p.size, vaults[x].atoms[LegOf(side)], stock[LegOf(side)])
             flip_size == ScaleAtoms(p.flip_size, vaults[x].atoms[LegOf(OtherSide(side))],
                                     stock[LegOf(OtherSide(side))])
  <1>1. p \in Position
    BY RestedType DEF Ladder
  <1>2. \A leg \in Legs : vaults[x].atoms[leg] \in Nat /\ stock[leg] \in Nat
    BY RestedType DEF Vault
  <1>3. LegOf(side) \in Legs /\ LegOf(OtherSide(side)) \in Legs
    BY SidesAndLegs
  <1>4. p.size \in Nat /\ p.flip_size \in Nat
    BY <1>1 DEF Position
  <1>5. size \in Nat /\ flip_size \in Nat
    BY <1>2, <1>3, <1>4, ScaleFacts
  <1>6. Rescaled(x, stock)[side][i] = [p EXCEPT !.size = size, !.flip_size = flip_size]
    BY DEF Rescaled
  <1> HIDE DEF p, size, flip_size
  <1>7. LET q == [p EXCEPT !.size = size, !.flip_size = flip_size] IN
        q \in Position /\ SameTerms(q, p) /\ q.size = size /\ q.flip_size = flip_size
    BY <1>1, <1>5 DEF Position, SameTerms
  <1> QED
    BY <1>6, <1>7 DEF p, size, flip_size

\* Sums that scale with the stock stay within it.
LEMMA ScaledSums ==
    ASSUME NEW f \in [Levels -> Nat], NEW g \in [Levels -> Nat], NEW old \in Nat, NEW new \in Nat,
           SumFunction(f) + SumFunction(g) <= old,
           NEW h, h = [i \in Levels |-> ScaleAtoms(f[i], old, new)],
           NEW k, k = [i \in Levels |-> ScaleAtoms(g[i], old, new)]
    PROVE  SumFunction(h) + SumFunction(k) <= new
  <1>1. IsFiniteSet(Levels)
    BY SidesAndLegs
  <1>2. \A i \in Levels : f[i] \in Nat /\ g[i] \in Nat
    OBVIOUS
  <1>3. h \in [Levels -> Nat] /\ k \in [Levels -> Nat]
    BY <1>2, ScaleFacts
  <1>4. /\ f \in [Levels -> Int] /\ g \in [Levels -> Int]
        /\ h \in [Levels -> Int] /\ k \in [Levels -> Int]
    BY <1>3
  <1> DEFINE F == SumFunction(f)
             G == SumFunction(g)
             H == SumFunction(h)
             K == SumFunction(k)
  <1>5. F \in Nat /\ G \in Nat /\ H \in Nat /\ K \in Nat
    BY <1>1, <1>3, SumOfNats
  <1>6. F + G <= old
    OBVIOUS
  <1>7. CASE old = 0
    <2>1. h = f /\ k = g
      BY <1>2, <1>3, <1>7, ScaleFacts
    <2> HIDE DEF F, G, H, K
    <2>2. H = F /\ K = G
      BY <2>1 DEF F, G, H, K
    <2>3. H + K <= new
      BY <1>5, <1>6, <1>7, <2>2
    <2> QED
      BY <2>3 DEF H, K
  <1>8. CASE old # 0
    <2>1. \A i \in Levels : h[i] * old <= f[i] * new /\ k[i] * old <= g[i] * new
      BY <1>2, <1>8, ScaleFacts
    <2>2. H * old <= F * new
      <3>1. \A i \in Levels : h[i] * old <= f[i] * new
        BY <2>1
      <3> QED
        BY <1>1, <1>4, <3>1, SumInProportion
    <2>3. K * old <= G * new
      <3>1. \A i \in Levels : k[i] * old <= g[i] * new
        BY <2>1
      <3> QED
        BY <1>1, <1>4, <3>1, SumInProportion
    <2> HIDE DEF F, G, H, K
    <2>4. (H + K) * old <= (F + G) * new
      <3>1. (H + K) * old = H * old + K * old /\ (F + G) * new = F * new + G * new
        BY <1>5
      <3>2. H * old \in Nat /\ K * old \in Nat /\ F * new \in Nat /\ G * new \in Nat
        BY <1>5, ProductGrows
      <3> QED
        BY <2>2, <2>3, <3>1, <3>2
    <2>5. (F + G) * new <= old * new
      BY <1>5, <1>6, ProductGrows
    <2>6. H + K <= new
      <3>1. H + K > new => (new + 1) * old <= (H + K) * old
        <4>1. H + K \in Nat /\ new + 1 \in Nat
          BY <1>5
        <4>2. H + K > new => new + 1 <= H + K
          BY <1>5
        <4> HIDE DEF H, K
        <4> QED
          BY <4>1, <4>2, ProductGrows
      <3>2. (new + 1) * old = old * new + old
        OBVIOUS
      <3>3. /\ old * new \in Nat /\ (F + G) * new \in Nat /\ (H + K) * old \in Nat
            /\ (new + 1) * old \in Nat
        <4>1. F + G \in Nat /\ H + K \in Nat /\ new + 1 \in Nat
          BY <1>5
        <4> QED
          BY <4>1, ProductGrows
      <3>4. H + K \in Nat
        BY <1>5
      <3> QED
        BY <1>8, <2>4, <2>5, <3>1, <3>2, <3>3, <3>4
    <2> QED
      BY <2>6 DEF H, K
  <1> QED
    BY <1>7, <1>8

LEMMA RescaledCovered ==
    ASSUME TypeOK, NEW x \in Vaults, NEW stock \in [Legs -> Nat],
           Covered(remaining[x], vaults[x].atoms)
    PROVE  /\ Rescaled(x, stock) \in Ladder
           /\ Covered(Rescaled(x, stock), stock)
  <1>1. Rescaled(x, stock) \in Ladder
    <2>1. Rescaled(x, stock)
            = [side \in Sides |-> [i \in Levels |-> Rescaled(x, stock)[side][i]]]
      BY DEF Rescaled
    <2> QED
      BY <2>1, RescaledFacts DEF Ladder
  <1>2. ASSUME NEW side \in Sides
        PROVE  Resting(Rescaled(x, stock), side) <= stock[LegOf(side)]
    <2> DEFINE other == OtherSide(side)
               f == Sizes(remaining[x], side)
               g == FlipSizes(remaining[x], other)
               h == Sizes(Rescaled(x, stock), side)
               k == FlipSizes(Rescaled(x, stock), other)
               old == vaults[x].atoms[LegOf(side)]
               new == stock[LegOf(side)]
    <2>1. other \in Sides /\ OtherSide(other) = side /\ LegOf(side) \in Legs
      BY SidesAndLegs
    <2>2. old \in Nat /\ new \in Nat
      BY <2>1, RestedType DEF Vault
    <2>3. remaining[x] \in Ladder
      BY RestedType
    <2>4. f \in [Levels -> Nat] /\ g \in [Levels -> Nat]
      BY <2>1, <2>3, SizesType
    <2>5. SumFunction(f) + SumFunction(g) <= old
      BY DEF Covered, Resting
    <2>6. h = [i \in Levels |-> ScaleAtoms(f[i], old, new)]
      <3>1. \A i \in Levels : Rescaled(x, stock)[side][i].size
                                = ScaleAtoms(remaining[x][side][i].size, old, new)
        BY RescaledFacts
      <3> QED
        BY <3>1 DEF Sizes
    <2>7. k = [i \in Levels |-> ScaleAtoms(g[i], old, new)]
      <3> HIDE DEF other
      <3>1. \A i \in Levels : Rescaled(x, stock)[other][i].flip_size
                                = ScaleAtoms(remaining[x][other][i].flip_size, old, new)
        BY <2>1, RescaledFacts
      <3> QED
        BY <3>1 DEF FlipSizes
    <2>8. Resting(Rescaled(x, stock), side) = SumFunction(h) + SumFunction(k)
      BY DEF Resting
    <2> HIDE DEF f, g, h, k, old, new
    <2>9. SumFunction(h) + SumFunction(k) <= new
      BY <2>2, <2>4, <2>5, <2>6, <2>7, ScaledSums
    <2> QED
      BY <2>8, <2>9 DEF new
  <1> QED
    BY <1>1, <1>2 DEF Covered

\* The parts of the invariant after a step, vault by vault.
LEMMA BackedNow ==
    ASSUME BookBacked, NEW x \in Vaults, ~vaults[x].flush
    PROVE  Covered(remaining[x], vaults[x].atoms)
  <1>1. Rested(x) = remaining[x]
    BY DEF Rested
  <1> QED
    BY <1>1, CoveredIsBacked

LEMMA BackedNext ==
    ASSUME TypeOK',
           \A x \in Vaults : ~vaults'[x].flush => Covered(remaining'[x], vaults'[x].atoms)
    PROVE  BookBacked'
  <1>1. ASSUME NEW x \in Vaults, NEW leg \in Legs
        PROVE  RestingAtoms(x, leg)' <= vaults'[x].atoms[leg]
    <2>1. PICK side \in Sides : LegOf(side) = leg
      BY SidesAndLegs
    <2>2. (CHOOSE s \in Sides : LegOf(s) = leg) = side
      BY <2>1, SidesAndLegs
    <2> DEFINE rested == Rested(x)'
    <2>3. RestingAtoms(x, leg)' = Resting(rested, side)
      BY <2>2 DEF RestingAtoms, Resting, Sizes, FlipSizes
    <2>4. Covered(rested, vaults'[x].atoms)
      <3>1. rested = IF vaults'[x].flush THEN Materialized(vaults'[x]) ELSE remaining'[x]
        BY DEF Rested
      <3>2. vaults'[x] \in Vault
        BY DEF TypeOK
      <3> HIDE DEF rested
      <3>3. CASE vaults'[x].flush
        BY <3>1, <3>2, <3>3, MaterializedCovered
      <3>4. CASE ~vaults'[x].flush
        BY <3>1, <3>4
      <3> QED
        BY <3>3, <3>4
    <2> HIDE DEF rested
    <2> QED
      BY <2>1, <2>3, <2>4 DEF Covered
  <1> QED
    BY <1>1 DEF BookBacked

\* The atoms of every vault.
Stock == [x \in Vaults |-> vaults[x].atoms]

LEMMA SolventNow ==
    ASSUME BookSolvent, NEW leg \in Legs
    PROVE  treasury[leg] >= Inventory(Stock, leg) + accrued_fee[leg]
  <1>1. [x \in Vaults |-> Stock[x][leg]] = [x \in Vaults |-> vaults[x].atoms[leg]]
    BY DEF Stock
  <1> QED
    BY <1>1 DEF BookSolvent, Inventory

LEMMA SolventNext ==
    ASSUME NEW atoms, \A x \in Vaults : vaults'[x].atoms = atoms[x],
           \A leg \in Legs : treasury'[leg] >= Inventory(atoms, leg) + accrued_fee'[leg]
    PROVE  BookSolvent'
  <1>1. ASSUME NEW leg \in Legs
        PROVE  treasury'[leg]
                 >= SumFunction([x \in Vaults |-> vaults'[x].atoms[leg]]) + accrued_fee'[leg]
    <2>1. [x \in Vaults |-> vaults'[x].atoms[leg]] = [x \in Vaults |-> atoms[x][leg]]
      OBVIOUS
    <2> QED
      BY <2>1 DEF Inventory
  <1> QED
    BY <1>1 DEF BookSolvent

\* What a level's terms are made of.
SameQuote(v, w) ==
    /\ v.price = w.price /\ v.profile = w.profile
    /\ v.quote_unix = w.quote_unix /\ v.quote_slot = w.quote_slot

LEMMA SameQuoteSameTerms ==
    ASSUME NEW v, NEW w, SameQuote(v, w), NEW side, NEW i
    PROVE  SameTerms(MaterializedLevel(v, side, i), MaterializedLevel(w, side, i))
  BY DEF SameQuote, SameTerms, MaterializedLevel

LEMMA SameTermsChain ==
    ASSUME NEW p, NEW q, NEW r, SameTerms(p, q), SameTerms(q, r)
    PROVE  SameTerms(p, r) /\ SameTerms(q, p)
  BY DEF SameTerms

\* A step that fills nothing and leaves levels that rest under the same quote.
LEMMA QuoteNext ==
    ASSUME AtCurrentQuote,
           \A x \in Vaults : ~vaults'[x].flush =>
               /\ ~vaults[x].flush /\ SameQuote(vaults'[x], vaults[x])
               /\ \A side \in Sides, i \in Levels :
                     SameTerms(remaining'[x][side][i], remaining[x][side][i])
    PROVE  AtCurrentQuote'
  <1>1. ASSUME NEW x \in Vaults, ~vaults'[x].flush, Matchable(vaults'[x].price),
               NEW side \in Sides, NEW i \in Levels
        PROVE  SameTerms(remaining'[x][side][i], MaterializedLevel(vaults'[x], side, i))
    <2>1. /\ ~vaults[x].flush /\ SameQuote(vaults'[x], vaults[x])
          /\ SameTerms(remaining'[x][side][i], remaining[x][side][i])
      BY <1>1
    <2>2. vaults[x].price = vaults'[x].price
      BY <2>1 DEF SameQuote
    <2>3. Matchable(vaults[x].price)
      BY <1>1, <2>2
    <2>4. SameTerms(remaining[x][side][i], MaterializedLevel(vaults[x], side, i))
      BY <1>1, <2>1, <2>3 DEF AtCurrentQuote
    <2>5. SameTerms(MaterializedLevel(vaults[x], side, i), MaterializedLevel(vaults'[x], side, i))
      BY <2>1, SameQuoteSameTerms DEF SameQuote
    <2> QED
      BY <2>1, <2>4, <2>5, SameTermsChain
  <1> QED
    BY <1>1 DEF AtCurrentQuote

LEMMA NothingReported ==
    ASSUME receipt' = NoReceipt
    PROVE  TakerProtected' /\ FillsAtCurrentQuote'
  <1>1. /\ receipt'.legs = <<>> /\ receipt'.paid = 0 /\ receipt'.amount_in = 0
        /\ receipt'.got = 0
    BY DEF NoReceipt
  <1>2. DOMAIN receipt'.legs = {}
    BY <1>1
  <1> QED
    BY <1>1, <1>2 DEF TakerProtected, FillsAtCurrentQuote

LEMMA BookStarts == Init => BookIInv
  <1> SUFFICES ASSUME Init PROVE BookIInv
    OBVIOUS
  <1>1. ASSUME NEW x \in Vaults
        PROVE  /\ vaults[x] \in Vault /\ vaults[x].price = 0 /\ ~vaults[x].flush
               /\ vaults[x].atoms = [leg \in Legs |-> 0]
    <2>1. PICK profile \in Profiles :
             vaults[x] = [atoms |-> [leg \in Legs |-> 0], price |-> 0, stamp |-> 0,
                          flush |-> FALSE, quote_unix |-> 0, quote_slot |-> 0,
                          profile |-> profile, frozen |-> FALSE, listed |-> TRUE]
      BY DEF Init
    <2>2. 0 \in Prices /\ 0 \in 0 .. ClockMax
      BY BookAssumption DEF Prices, Infinity
    <2> QED
      BY <2>1, <2>2 DEF Vault
  <1>2. ASSUME NEW x \in Vaults, NEW side \in Sides, NEW i \in Levels
        PROVE  /\ remaining[x][side][i] \in Position
               /\ remaining[x][side][i].size = 0 /\ remaining[x][side][i].flip_size = 0
    <2>1. 0 \in Prices /\ 0 \in 0 .. ClockMax
      BY BookAssumption DEF Prices, Infinity
    <2>2. remaining[x][side][i] = [price |-> 0, size |-> 0, flip_price |-> 0, flip_size |-> 0,
                                   unix_deadline |-> 0, slot_deadline |-> 0]
      BY DEF Init
    <2> QED
      BY <2>1, <2>2 DEF Position
  <1>3. TypeOK
    <2>1. vaults \in [Vaults -> Vault]
      BY <1>1 DEF Init
    <2>2. remaining \in [Vaults -> [Sides -> [Levels -> Position]]]
      <3>1. remaining = [x \in Vaults |-> [side \in Sides |-> [i \in Levels |->
                           remaining[x][side][i]]]]
        BY DEF Init
      <3> QED
        BY <1>2, <3>1
    <2>3. /\ nonce \in 0 .. MaxNonce /\ treasury \in [Legs -> Nat]
          /\ accrued_fee \in [Legs -> Nat] /\ now \in [{"unix", "slot"} -> 0 .. ClockMax]
      <3>1. 0 \in 0 .. ClockMax /\ 0 \in 0 .. MaxNonce
        BY BookAssumption
      <3>2. now = [unix |-> 0, slot |-> 0]
        BY DEF Init
      <3>3. [unix |-> 0, slot |-> 0] \in [{"unix", "slot"} -> 0 .. ClockMax]
        BY <3>1
      <3> QED
        BY <3>1, <3>2, <3>3 DEF Init
    <2> QED
      BY <2>1, <2>2, <2>3 DEF TypeOK
  <1>4. BookBacked
    <2>1. ASSUME NEW x \in Vaults, NEW side \in Sides
          PROVE  Resting(Rested(x), side) = 0
      <3>1. Rested(x) = remaining[x]
        BY <1>1 DEF Rested
      <3>2. /\ Sizes(Rested(x), side) = [i \in Levels |-> 0]
            /\ FlipSizes(Rested(x), OtherSide(side)) = [i \in Levels |-> 0]
        BY <1>2, <3>1, SidesAndLegs DEF Sizes, FlipSizes
      <3>3. SumFunction([i \in Levels |-> 0]) = 0
        BY SidesAndLegs, SumOfZeros
      <3> QED
        BY <3>2, <3>3 DEF Resting
    <2>2. ASSUME NEW x \in Vaults PROVE Covered(Rested(x), vaults[x].atoms)
      <3>1. ASSUME NEW side \in Sides PROVE vaults[x].atoms[LegOf(side)] = 0
        BY <1>1, SidesAndLegs
      <3> QED
        BY <2>1, <3>1 DEF Covered
    <2> QED
      BY <2>2, CoveredIsBacked
  <1>5. BookSolvent
    <2>1. ASSUME NEW leg \in Legs
          PROVE  /\ treasury[leg] = 0 /\ accrued_fee[leg] = 0
                 /\ SumFunction([x \in Vaults |-> vaults[x].atoms[leg]]) = 0
      <3>1. [x \in Vaults |-> vaults[x].atoms[leg]] = [x \in Vaults |-> 0]
        BY <1>1
      <3> QED
        BY <3>1, SidesAndLegs, SumOfZeros DEF Init
    <2> QED
      BY <2>1 DEF BookSolvent
  <1>6. AtCurrentQuote
    BY <1>1, BookAssumption DEF AtCurrentQuote, Matchable
  <1>7. TakerProtected /\ FillsAtCurrentQuote
    <2>1. /\ receipt.legs = <<>> /\ receipt.paid = 0 /\ receipt.amount_in = 0
          /\ receipt.got = 0
      BY DEF Init, NoReceipt
    <2>2. DOMAIN receipt.legs = {}
      BY <2>1
    <2> QED
      BY <2>1, <2>2 DEF TakerProtected, FillsAtCurrentQuote
  <1> QED
    BY <1>3, <1>4, <1>5, <1>6, <1>7 DEF BookIInv

-----------------------------------------------------------------------------
(* Every action keeps the invariant *)

\* A step that moves no atoms and touches no level: each vault keeps its quote
\* or has a flush armed.
LEMMA SteadyKeeps ==
    ASSUME BookIInv, TypeOK', receipt' = NoReceipt,
           UNCHANGED <<remaining, treasury, accrued_fee>>,
           \A x \in Vaults : /\ vaults'[x].atoms = vaults[x].atoms
                             /\ ~vaults'[x].flush =>
                                  ~vaults[x].flush /\ SameQuote(vaults'[x], vaults[x])
    PROVE  BookIInv'
  <1>1. BookBacked'
    <2>1. ASSUME NEW x \in Vaults, ~vaults'[x].flush
          PROVE  Covered(remaining'[x], vaults'[x].atoms)
      BY <2>1, BackedNow DEF BookIInv
    <2> QED
      BY <2>1, BackedNext
  <1>2. BookSolvent'
    <2>1. \A x \in Vaults : vaults'[x].atoms = Stock[x]
      BY DEF Stock
    <2>2. \A leg \in Legs : treasury'[leg] >= Inventory(Stock, leg) + accrued_fee'[leg]
      BY SolventNow DEF BookIInv
    <2> HIDE DEF Stock
    <2> QED
      BY <2>1, <2>2, SolventNext
  <1>3. AtCurrentQuote'
    <2>1. \A x \in Vaults, side \in Sides, i \in Levels :
             SameTerms(remaining'[x][side][i], remaining[x][side][i])
      BY DEF SameTerms
    <2> QED
      BY <2>1, QuoteNext DEF BookIInv
  <1> QED
    BY <1>1, <1>2, <1>3, NothingReported DEF BookIInv

LEMMA QuoteWriteKeeps ==
    ASSUME BookIInv, NEW x \in Vaults, NEW v \in Vault, v.atoms = vaults[x].atoms,
           QuoteWrite(x, v)
    PROVE  BookIInv'
  <1>1. TypeOK
    BY DEF BookIInv
  <1>2. nonce \in Nat /\ nonce' \in 0 .. MaxNonce
    BY <1>1, BookAssumption DEF TypeOK, QuoteWrite
  <1>3. /\ ArmFlush(v) \in Vault /\ ArmFlush(v).flush = TRUE
        /\ ArmFlush(v).atoms = vaults[x].atoms
    BY <1>2 DEF ArmFlush, Vault
  <1>4. \A y \in Vaults : vaults'[y] = IF y = x THEN ArmFlush(v) ELSE vaults[y]
    BY <1>1 DEF TypeOK, QuoteWrite
  <1>5. TypeOK'
    <2>1. vaults' \in [Vaults -> Vault]
      BY <1>1, <1>3 DEF TypeOK, QuoteWrite
    <2> QED
      BY <1>1, <1>2, <2>1 DEF TypeOK, QuoteWrite
  <1>6. \A y \in Vaults : /\ vaults'[y].atoms = vaults[y].atoms
                          /\ ~vaults'[y].flush =>
                               ~vaults[y].flush /\ SameQuote(vaults'[y], vaults[y])
    BY <1>3, <1>4 DEF SameQuote
  <1> QED
    BY <1>5, <1>6, SteadyKeeps DEF QuoteWrite

LEMMA SetReferencePriceKeeps ==
    ASSUME BookIInv, NEW x \in Vaults, NEW price \in RefPrices, NEW at \in QuoteTimes,
           SetReferencePrice(x, price, at[1], at[2])
    PROVE  BookIInv'
  <1> DEFINE v == [vaults[x] EXCEPT !.price = price, !.quote_unix = at[1], !.quote_slot = at[2]]
  <1>1. vaults[x] \in Vault
    BY DEF BookIInv, TypeOK
  <1>2. price \in Prices /\ at[1] \in 0 .. ClockMax /\ at[2] \in 0 .. ClockMax
    BY BookAssumption
  <1>3. v \in Vault /\ v.atoms = vaults[x].atoms
    BY <1>1, <1>2 DEF Vault
  <1>4. QuoteWrite(x, v)
    BY DEF SetReferencePrice
  <1> HIDE DEF v
  <1> QED
    BY <1>3, <1>4, QuoteWriteKeeps

LEMMA SetLiquidityProfileKeeps ==
    ASSUME BookIInv, NEW x \in Vaults, NEW profile \in Profiles, SetLiquidityProfile(x, profile)
    PROVE  BookIInv'
  <1> DEFINE v == [vaults[x] EXCEPT !.profile = profile]
  <1>1. vaults[x] \in Vault
    BY DEF BookIInv, TypeOK
  <1>2. v \in Vault /\ v.atoms = vaults[x].atoms
    BY <1>1 DEF Vault
  <1>3. QuoteWrite(x, v)
    BY DEF SetLiquidityProfile
  <1> HIDE DEF v
  <1> QED
    BY <1>2, <1>3, QuoteWriteKeeps

LEMMA FreezeVaultKeeps ==
    ASSUME BookIInv, NEW x \in Vaults, FreezeVault(x)
    PROVE  BookIInv'
  <1> DEFINE v == [vaults[x] EXCEPT !.frozen = TRUE]
  <1>1. TypeOK
    BY DEF BookIInv
  <1>2. vaults[x] \in Vault
    BY <1>1 DEF TypeOK
  <1>3. /\ v \in Vault /\ v.atoms = vaults[x].atoms /\ v.flush = vaults[x].flush
        /\ SameQuote(v, vaults[x])
    BY <1>2 DEF Vault, SameQuote
  <1>4. vaults' = [vaults EXCEPT ![x] = v]
    BY DEF FreezeVault
  <1> HIDE DEF v
  <1>5. TypeOK'
    <2>1. vaults' \in [Vaults -> Vault]
      BY <1>1, <1>3, <1>4 DEF TypeOK
    <2> QED
      BY <1>1, <2>1 DEF TypeOK, FreezeVault
  <1>6. \A y \in Vaults : /\ vaults'[y].atoms = vaults[y].atoms
                          /\ ~vaults'[y].flush =>
                               ~vaults[y].flush /\ SameQuote(vaults'[y], vaults[y])
    BY <1>1, <1>3, <1>4 DEF SameQuote, TypeOK
  <1> QED
    BY <1>5, <1>6, SteadyKeeps DEF FreezeVault

LEMMA CloseVaultKeeps ==
    ASSUME BookIInv, NEW x \in Vaults, CloseVault(x)
    PROVE  BookIInv'
  <1> DEFINE v == [vaults[x] EXCEPT !.listed = FALSE]
  <1>1. TypeOK
    BY DEF BookIInv
  <1>2. vaults[x] \in Vault
    BY <1>1 DEF TypeOK
  <1>3. /\ v \in Vault /\ v.atoms = vaults[x].atoms /\ v.flush = vaults[x].flush
        /\ SameQuote(v, vaults[x])
    BY <1>2 DEF Vault, SameQuote
  <1>4. vaults' = [vaults EXCEPT ![x] = v]
    BY DEF CloseVault
  <1> HIDE DEF v
  <1>5. TypeOK'
    <2>1. vaults' \in [Vaults -> Vault]
      BY <1>1, <1>3, <1>4 DEF TypeOK
    <2> QED
      BY <1>1, <2>1 DEF TypeOK, CloseVault
  <1>6. \A y \in Vaults : /\ vaults'[y].atoms = vaults[y].atoms
                          /\ ~vaults'[y].flush =>
                               ~vaults[y].flush /\ SameQuote(vaults'[y], vaults[y])
    BY <1>1, <1>3, <1>4 DEF SameQuote, TypeOK
  <1> QED
    BY <1>5, <1>6, SteadyKeeps DEF CloseVault

LEMMA TickKeeps ==
    ASSUME BookIInv, NEW domain \in {"unix", "slot"}, Tick(domain)
    PROVE  BookIInv'
  <1>1. TypeOK
    BY DEF BookIInv
  <1>2. now[domain] \in 0 .. ClockMax /\ now[domain] < ClockMax /\ ClockMax \in Nat
    BY <1>1, BookAssumption DEF TypeOK, Tick
  <1>3. now[domain] + 1 \in 0 .. ClockMax
    BY <1>2
  <1>4. now' \in [{"unix", "slot"} -> 0 .. ClockMax]
    BY <1>1, <1>3 DEF TypeOK, Tick
  <1>5. TypeOK'
    BY <1>1, <1>4 DEF TypeOK, Tick
  <1> QED
    BY <1>5, SteadyKeeps DEF Tick, SameQuote

LEMMA MoveInventoryKeeps ==
    ASSUME BookIInv, NEW x \in Vaults, NEW stock \in [Legs -> Nat], MoveInventory(x, stock)
    PROVE  BookIInv'
  <1> DEFINE v == [vaults[x] EXCEPT !.atoms = stock]
             moved == [Stock EXCEPT ![x] = stock]
  <1>1. TypeOK /\ BookBacked /\ BookSolvent /\ AtCurrentQuote
    BY DEF BookIInv
  <1>2. vaults[x] \in Vault
    BY <1>1 DEF TypeOK
  <1>3. /\ v \in Vault /\ v.atoms = stock /\ v.flush = vaults[x].flush
        /\ SameQuote(v, vaults[x])
    BY <1>2 DEF Vault, SameQuote
  <1>4. vaults' = [vaults EXCEPT ![x] = v]
    BY DEF MoveInventory
  <1>5. /\ Stock \in [Vaults -> [Legs -> Nat]] /\ moved \in [Vaults -> [Legs -> Nat]]
        /\ Stock[x] = vaults[x].atoms /\ moved[x] = stock
        /\ \A y \in Vaults \ {x} : moved[y] = Stock[y]
    BY <1>1 DEF Stock, TypeOK, Vault
  <1>6. ASSUME NEW leg \in Legs
        PROVE  /\ treasury'[leg] \in Nat
               /\ treasury'[leg] >= Inventory(moved, leg) + accrued_fee'[leg]
    <2> DEFINE old == Inventory(Stock, leg)
               new == Inventory(moved, leg)
               was == vaults[x].atoms[leg]
               is == stock[leg]
               held == treasury[leg]
               fee == accrued_fee[leg]
    <2>1. held \in Nat /\ fee \in Nat /\ was \in Nat /\ is \in Nat
      BY <1>1, <1>2 DEF TypeOK, Vault
    <2>2. old \in Nat /\ new \in Nat /\ new = old - was + is
      <3> HIDE DEF moved
      <3> QED
        BY <1>5, InventoryUpdate
    <2>3. held >= old + fee
      BY <1>1, SolventNow
    <2>4. treasury'[leg] = held + is - was /\ accrued_fee'[leg] = fee
      BY DEF MoveInventory
    <2> HIDE DEF old, new, was, is, held, fee
    <2>5. treasury'[leg] >= new + fee /\ treasury'[leg] \in Nat
      BY <2>1, <2>2, <2>3, <2>4
    <2> QED
      BY <2>4, <2>5 DEF new
  <1> HIDE DEF v, moved
  <1>7. ~vaults[x].flush => Covered(remaining[x], vaults[x].atoms)
    BY <1>1, BackedNow
  <1>8. ASSUME NEW y \in Vaults
        PROVE  /\ remaining'[y] = IF y = x THEN Rescaled(x, stock) ELSE remaining[y]
               /\ vaults'[y] = IF y = x THEN v ELSE vaults[y]
    BY <1>1, <1>4 DEF MoveInventory, TypeOK
  <1>9. Rescaled(x, stock) \in Ladder
    <2>1. Rescaled(x, stock)
            = [side \in Sides |-> [i \in Levels |-> Rescaled(x, stock)[side][i]]]
      BY DEF Rescaled
    <2> QED
      BY <1>1, <2>1, RescaledFacts DEF Ladder
  <1>10. TypeOK'
    <2>1. vaults' \in [Vaults -> Vault]
      BY <1>1, <1>3, <1>4 DEF TypeOK
    <2>2. remaining' \in [Vaults -> [Sides -> [Levels -> Position]]]
      BY <1>1, <1>9 DEF TypeOK, MoveInventory, Ladder
    <2>3. treasury' \in [Legs -> Nat]
      BY <1>6 DEF MoveInventory
    <2> QED
      BY <1>1, <2>1, <2>2, <2>3 DEF TypeOK, MoveInventory
  <1>11. BookBacked'
    <2>1. ASSUME NEW y \in Vaults, ~vaults'[y].flush
          PROVE  Covered(remaining'[y], vaults'[y].atoms)
      <3>1. CASE y = x
        <4>1. Covered(Rescaled(x, stock), stock)
          BY <1>1, <1>3, <1>7, <1>8, <2>1, <3>1, RescaledCovered
        <4> QED
          BY <1>3, <1>8, <3>1, <4>1
      <3>2. CASE y # x
        BY <1>1, <1>8, <2>1, <3>2, BackedNow
      <3> QED
        BY <3>1, <3>2
    <2> QED
      BY <1>10, <2>1, BackedNext
  <1>12. BookSolvent'
    <2>1. \A y \in Vaults : vaults'[y].atoms = moved[y]
      <3>1. \A y \in Vaults : Stock[y] = vaults[y].atoms
        BY DEF Stock
      <3> QED
        BY <1>3, <1>5, <1>8, <3>1
    <2> QED
      BY <1>6, <2>1, SolventNext
  <1>13. AtCurrentQuote'
    <2>1. ASSUME NEW y \in Vaults, ~vaults'[y].flush
          PROVE  /\ ~vaults[y].flush /\ SameQuote(vaults'[y], vaults[y])
                 /\ \A side \in Sides, i \in Levels :
                       SameTerms(remaining'[y][side][i], remaining[y][side][i])
      <3>1. CASE y = x
        BY <1>1, <1>3, <1>8, <2>1, <3>1, RescaledFacts
      <3>2. CASE y # x
        BY <1>8, <2>1, <3>2 DEF SameQuote, SameTerms
      <3> QED
        BY <3>1, <3>2
    <2> QED
      BY <1>1, <2>1, QuoteNext
  <1> QED
    BY <1>10, <1>11, <1>12, <1>13, NothingReported DEF BookIInv, MoveInventory

LEMMA RevertSwapKeeps ==
    ASSUME BookIInv, NEW side \in Sides, NEW amount_in \in AmountsIn, NEW limit, NEW min_out,
           RevertSwap(side, amount_in, limit, min_out), UNCHANGED now
    PROVE  BookIInv'
  <1>1. TypeOK /\ BookBacked /\ BookSolvent /\ AtCurrentQuote
    BY DEF BookIInv
  <1>2. vaults' = vaults
    BY DEF RevertSwap
  <1>3. \A x \in Vaults : remaining'[x] = IF Quoting(x) THEN Rested(x) ELSE remaining[x]
    BY DEF RevertSwap
  <1>4. \A x \in Vaults : ~vaults'[x].flush => remaining'[x] = remaining[x]
    BY <1>2, <1>3 DEF Rested
  <1>5. TypeOK'
    <2>1. \A x \in Vaults : remaining'[x] \in Ladder
      BY <1>1, <1>3, RestedType
    <2>2. remaining' \in [Vaults -> Ladder]
      BY <2>1 DEF RevertSwap
    <2> QED
      BY <1>1, <2>2 DEF TypeOK, RevertSwap, Ladder
  <1>6. BookBacked'
    <2>1. ASSUME NEW x \in Vaults, ~vaults'[x].flush
          PROVE  Covered(remaining'[x], vaults'[x].atoms)
      BY <1>1, <1>2, <1>4, <2>1, BackedNow
    <2> QED
      BY <1>5, <2>1, BackedNext
  <1>7. BookSolvent'
    <2>1. \A x \in Vaults : vaults'[x].atoms = Stock[x]
      BY <1>2 DEF Stock
    <2>2. \A leg \in Legs : treasury'[leg] >= Inventory(Stock, leg) + accrued_fee'[leg]
      BY <1>1, SolventNow DEF RevertSwap
    <2> HIDE DEF Stock
    <2> QED
      BY <2>1, <2>2, SolventNext
  <1>8. AtCurrentQuote'
    <2>1. ASSUME NEW x \in Vaults, ~vaults'[x].flush
          PROVE  /\ ~vaults[x].flush /\ SameQuote(vaults'[x], vaults[x])
                 /\ \A s \in Sides, i \in Levels :
                       SameTerms(remaining'[x][s][i], remaining[x][s][i])
      BY <1>2, <1>4, <2>1 DEF SameQuote, SameTerms
    <2> QED
      BY <1>1, <2>1, QuoteNext
  <1>9. /\ receipt'.legs = <<>> /\ receipt'.paid = 0 /\ receipt'.got = 0
        /\ receipt'.amount_in = amount_in
    BY DEF RevertSwap, NoReceipt
  <1>10. TakerProtected' /\ FillsAtCurrentQuote'
    <2>1. amount_in \in Nat /\ DOMAIN receipt'.legs = {}
      BY <1>9, BookAssumption
    <2> QED
      BY <1>9, <2>1 DEF TakerProtected, FillsAtCurrentQuote
  <1> QED
    BY <1>5, <1>6, <1>7, <1>8, <1>10 DEF BookIInv

\* A level's terms are its vault's current quote, flushed or not.
LEMMA RestedTerms ==
    ASSUME AtCurrentQuote, NEW x \in Vaults, Matchable(vaults[x].price), NEW side \in Sides,
           NEW i \in Levels
    PROVE  SameTerms(Rested(x)[side][i], MaterializedLevel(vaults[x], side, i))
  <1>1. CASE vaults[x].flush
    BY <1>1 DEF Rested, Materialized, SameTerms
  <1>2. CASE ~vaults[x].flush
    BY <1>2 DEF Rested, AtCurrentQuote
  <1> QED
    BY <1>1, <1>2

\* Walked from the book as it is, with everything that holds of it at the end.
LEMMA WalkEnds ==
    ASSUME TypeOK, BookBacked, NEW side \in Sides, NEW limit, NEW amount_in \in Nat,
           NEW walk, walk = Walked(side, amount_in, limit)
    PROVE  /\ walk \in WalkSet /\ walk.unfilled <= amount_in /\ walk.fee <= walk.out
           /\ \A x \in Vaults :
                 IF Quoting(x)
                 THEN /\ Covered(walk.remaining[x], walk.atoms[x])
                      /\ \A s \in Sides, i \in Levels :
                            SameTerms(walk.remaining[x][s][i], Rested(x)[s][i])
                 ELSE /\ walk.atoms[x] = vaults[x].atoms
                      /\ walk.remaining[x] = remaining[x]
           /\ Inventory(walk.atoms, LegOf(side)) + walk.out = Inventory(Stock, LegOf(side))
           /\ Inventory(walk.atoms, LegOf(OtherSide(side))) + walk.unfilled
                <= Inventory(Stock, LegOf(OtherSide(side))) + amount_in
           /\ \A m \in DOMAIN walk.legs :
                 /\ walk.legs[m].entry \in Entries(side)
                 /\ ~CrossesLimit(side, walk.legs[m].entry.price, limit)
                 /\ \A e \in Entries(side) :
                       KeyBefore(Key(side, e), Key(side, walk.legs[m].entry))
                         => Worthless(walk, side, e)
  <1> DEFINE start == WalkStart(amount_in)
             heap == Heap(side)
             n == Cardinality(Entries(side))
  <1>1. WalkInv(walk, start, side, limit, heap, n, n)
    BY WalkedInv
  <1>2. /\ start.unfilled = amount_in /\ start.atoms = Stock
        /\ \A x \in Vaults :
              /\ start.atoms[x] = vaults[x].atoms
              /\ start.remaining[x] = IF Quoting(x) THEN Rested(x) ELSE remaining[x]
    BY WalkStartFacts DEF WalkStart, Stock
  <1>3. /\ n \in Nat /\ heap \in [1 .. n -> Entries(side)]
        /\ \A i, j \in 1 .. n : i < j => KeyBefore(Key(side, heap[i]), Key(side, heap[j]))
        /\ \A e \in Entries(side) : \E i \in 1 .. n : heap[i] = e
    BY HeapFacts
  <1> HIDE DEF start, heap, n
  <1>4. walk \in WalkSet /\ walk.unfilled <= amount_in /\ walk.fee <= walk.out
    BY <1>1, <1>2 DEF WalkInv, WalkTyped
  <1>5. ASSUME NEW x \in Vaults
        PROVE  IF Quoting(x)
               THEN /\ Covered(walk.remaining[x], walk.atoms[x])
                    /\ \A s \in Sides, i \in Levels :
                          SameTerms(walk.remaining[x][s][i], Rested(x)[s][i])
               ELSE /\ walk.atoms[x] = vaults[x].atoms
                    /\ walk.remaining[x] = remaining[x]
    <2>1. /\ IF Quoting(x) THEN Covered(walk.remaining[x], walk.atoms[x])
             ELSE walk.atoms[x] = start.atoms[x] /\ walk.remaining[x] = start.remaining[x]
          /\ \A s \in Sides, i \in Levels :
                SameTerms(walk.remaining[x][s][i], start.remaining[x][s][i])
      BY <1>1 DEF WalkInv, WalkLadders, WalkTerms
    <2> QED
      BY <1>2, <2>1
  <1>6. /\ Inventory(walk.atoms, LegOf(side)) + walk.out = Inventory(Stock, LegOf(side))
        /\ Inventory(walk.atoms, LegOf(OtherSide(side))) + walk.unfilled
             <= Inventory(Stock, LegOf(OtherSide(side))) + amount_in
    BY <1>1, <1>2 DEF WalkInv, WalkConserves
  <1>7. ASSUME NEW m \in DOMAIN walk.legs
        PROVE  /\ walk.legs[m].entry \in Entries(side)
               /\ ~CrossesLimit(side, walk.legs[m].entry.price, limit)
               /\ \A e \in Entries(side) :
                     KeyBefore(Key(side, e), Key(side, walk.legs[m].entry))
                       => Worthless(walk, side, e)
    <2>1. WalkLegs(walk, side, limit, heap, 1 .. n)
      BY <1>1 DEF WalkInv
    <2>2. ~CrossesLimit(side, walk.legs[m].entry.price, limit)
      BY <2>1 DEF WalkLegs
    <2>3. PICK j \in 1 .. n : /\ walk.legs[m].entry = heap[j]
                              /\ \A i \in 1 .. j - 1 : Worthless(walk, side, heap[i])
      BY <2>1 DEF WalkLegs
    <2>4. heap[j] \in Entries(side)
      BY <1>3
    <2>5. ASSUME NEW e \in Entries(side), KeyBefore(Key(side, e), Key(side, heap[j]))
          PROVE  Worthless(walk, side, e)
      <3>1. PICK i \in 1 .. n : heap[i] = e
        BY <1>3
      <3>2. i < j
        <4>1. ~KeyBefore(Key(side, e), Key(side, e))
              /\ (KeyBefore(Key(side, heap[j]), Key(side, e))
                    => KeyBefore(Key(side, e), Key(side, e)))
          BY <2>4, <2>5, KeyFacts, KeysAreOrdered
        <4>2. i # j
          BY <2>5, <3>1, <4>1
        <4>3. ~(j < i)
          BY <1>3, <3>1, <4>1
        <4> QED
          BY <1>3, <4>2, <4>3
      <3>3. i \in 1 .. j - 1
        BY <1>3, <3>2
      <3> QED
        BY <2>3, <3>1, <3>3
    <2> QED
      BY <2>2, <2>3, <2>4, <2>5
  <1> QED
    BY <1>4, <1>5, <1>6, <1>7

\* An entry is what vault v, by its ladder and its reference price, gives at time t.
IsQuotedBy(e, side, v, t) ==
    LET p == MaterializedLevel(v, RestingSide(side, e), e.level)
        level == v.profile[RestingSide(side, e)][e.level]
    IN /\ e.price = IF e.flipped THEN p.flip_price ELSE p.price
       /\ t.unix < v.quote_unix + level.wall_span
       /\ t.slot < v.quote_slot + level.slot_span
       /\ ~v.frozen /\ v.listed

LEMMA QuotedNext ==
    FillsAtCurrentQuote'
      <=> \A k \in DOMAIN receipt'.legs :
             IsQuotedBy(receipt'.legs[k].entry, receipt'.side,
                        vaults'[receipt'.legs[k].entry.vault], now')
  <1>1. FillsAtCurrentQuote
          <=> \A k \in DOMAIN receipt.legs :
                 IsQuotedBy(receipt.legs[k].entry, receipt.side,
                            vaults[receipt.legs[k].entry.vault], now)
    BY DEF FillsAtCurrentQuote, IsQuotedBy
  <1>2. FillsAtCurrentQuote'
          <=> (\A k \in DOMAIN receipt.legs :
                 IsQuotedBy(receipt.legs[k].entry, receipt.side,
                            vaults[receipt.legs[k].entry.vault], now))'
    BY <1>1, PTL
  <1> QED
    BY <1>2

\* What a fill comes from, in the terms of the vault's current quote.
LEMMA EntryAtCurrentQuote ==
    ASSUME TypeOK, AtCurrentQuote, NEW side \in Sides, NEW e \in Entries(side),
           NEW v, SameQuote(v, vaults[e.vault])
    PROVE  LET p == MaterializedLevel(v, RestingSide(side, e), e.level)
               level == v.profile[RestingSide(side, e)][e.level]
           IN /\ e.price = IF e.flipped THEN p.flip_price ELSE p.price
              /\ now.unix < v.quote_unix + level.wall_span
              /\ now.slot < v.quote_slot + level.slot_span
  <1> DEFINE x == e.vault
             at == RestingSide(side, e)
             p == MaterializedLevel(v, at, e.level)
             r == Rested(x)[at][e.level]
             level == v.profile[at][e.level]
  <1>1. /\ e \in EntrySet /\ Quoting(x)
        /\ e = IF e.flipped THEN FlippedEntry(side, x, e.level) ELSE OwnEntry(side, x, e.level)
        /\ LevelIsLive(e.price, e.size, r)
    BY EntryFacts
  <1>2. x \in Vaults /\ at \in Sides /\ e.level \in Levels
    BY <1>1, RestingSideType
  <1>3. SameTerms(r, MaterializedLevel(vaults[x], at, e.level))
    <2> HIDE DEF x, at
    <2> QED
      BY <1>1, <1>2, RestedTerms DEF Quoting
  <1>4. SameTerms(MaterializedLevel(vaults[x], at, e.level), p)
    <2>1. SameQuote(vaults[x], v)
      BY DEF SameQuote
    <2> QED
      BY <2>1, SameQuoteSameTerms
  <1>5. /\ r.price = p.price /\ r.flip_price = p.flip_price
        /\ r.unix_deadline = p.unix_deadline /\ r.slot_deadline = p.slot_deadline
    BY <1>3, <1>4 DEF SameTerms
  <1>6. e.price = IF e.flipped THEN r.flip_price ELSE r.price
    <2>1. CASE e.flipped
      <3>1. e.price = FlippedEntry(side, x, e.level).price
        BY <1>1, <2>1
      <3> QED
        BY <2>1, <3>1 DEF FlippedEntry, RestingSide
    <2>2. CASE ~e.flipped
      <3>1. e.price = OwnEntry(side, x, e.level).price
        BY <1>1, <2>2
      <3> QED
        BY <2>2, <3>1 DEF OwnEntry, RestingSide
    <2> QED
      BY <2>1, <2>2
  <1>7. /\ p.unix_deadline = DeadlineAfter(v.quote_unix, level.wall_span)
        /\ p.slot_deadline = DeadlineAfter(v.quote_slot, level.slot_span)
    BY DEF MaterializedLevel
  <1>8. /\ now.unix < p.unix_deadline /\ now.slot < p.slot_deadline
    BY <1>1, <1>5 DEF LevelIsLive
  <1>9. /\ now.unix \in Nat /\ now.slot \in Nat
        /\ v.quote_unix \in Nat /\ v.quote_slot \in Nat
        /\ level.wall_span \in Nat /\ level.slot_span \in Nat
    <2>1. now.unix \in 0 .. ClockMax /\ now.slot \in 0 .. ClockMax
      BY DEF TypeOK
    <2>2. vaults[x] \in Vault
      BY <1>2 DEF TypeOK
    <2>3. vaults[x].quote_unix \in 0 .. ClockMax /\ vaults[x].quote_slot \in 0 .. ClockMax
      BY <2>2 DEF Vault
    <2>4. LET w == vaults[x].profile[at][e.level] IN w.wall_span \in Nat /\ w.slot_span \in Nat
      <3> HIDE DEF x, at
      <3> QED
        BY <1>2, <2>2, LevelTypes
    <2>5. /\ v.quote_unix = vaults[x].quote_unix /\ v.quote_slot = vaults[x].quote_slot
          /\ v.profile = vaults[x].profile
      BY DEF SameQuote
    <2> QED
      BY <2>1, <2>3, <2>4, <2>5
  <1>10. /\ now.unix < v.quote_unix + level.wall_span
         /\ now.slot < v.quote_slot + level.slot_span
    <2> HIDE DEF p, level
    <2>1. ASSUME NEW t \in Nat, NEW datum \in Nat, NEW span \in Nat,
                 t < DeadlineAfter(datum, span)
          PROVE  t < datum + span
      BY <2>1, BookAssumption DEF DeadlineAfter, Lesser
    <2> QED
      BY <1>7, <1>8, <1>9, <2>1
  <1> QED
    BY <1>5, <1>6, <1>10

LEMMA CommitSwapKeeps ==
    ASSUME BookIInv, NEW side \in Sides, NEW amount_in \in AmountsIn, NEW limit, NEW min_out,
           NEW bps, NEW walk, walk = Walked(side, amount_in, limit),
           nonce + Len(walk.legs) <= MaxNonce, Commits(walk, bps, min_out),
           CommitSwap(side, amount_in, limit, min_out, bps, walk), UNCHANGED now
    PROVE  BookIInv'
  <1> DEFINE mine == LegOf(side)
             theirs == LegOf(OtherSide(side))
  <1>1. TypeOK /\ BookBacked /\ BookSolvent /\ AtCurrentQuote
    BY DEF BookIInv
  <1>2. amount_in \in Nat
    BY BookAssumption
  <1>3. /\ walk \in WalkSet /\ walk.unfilled <= amount_in /\ walk.fee <= walk.out
        /\ \A x \in Vaults :
              IF Quoting(x)
              THEN /\ Covered(walk.remaining[x], walk.atoms[x])
                   /\ \A s \in Sides, i \in Levels :
                         SameTerms(walk.remaining[x][s][i], Rested(x)[s][i])
              ELSE walk.atoms[x] = vaults[x].atoms /\ walk.remaining[x] = remaining[x]
        /\ Inventory(walk.atoms, mine) + walk.out = Inventory(Stock, mine)
        /\ Inventory(walk.atoms, theirs) + walk.unfilled <= Inventory(Stock, theirs) + amount_in
        /\ \A m \in DOMAIN walk.legs :
              /\ walk.legs[m].entry \in Entries(side)
              /\ ~CrossesLimit(side, walk.legs[m].entry.price, limit)
    BY <1>1, <1>2, WalkEnds
  <1>4. /\ walk.atoms \in [Vaults -> [Legs -> Nat]] /\ walk.remaining \in [Vaults -> Ladder]
        /\ walk.unfilled \in Nat /\ walk.out \in Nat /\ walk.fee \in Nat
        /\ walk.legs \in Seq(LegSet)
    BY <1>3, WalkSetFacts
  <1>5. /\ mine \in Legs /\ theirs \in Legs /\ mine # theirs
        /\ \A leg \in Legs : leg = mine \/ leg = theirs
    BY SidesAndLegs DEF Legs
  <1>6. ASSUME NEW x \in Vaults
        PROVE  /\ vaults'[x] \in Vault /\ vaults'[x].atoms = walk.atoms[x]
               /\ SameQuote(vaults'[x], vaults[x])
               /\ vaults'[x].frozen = vaults[x].frozen /\ vaults'[x].listed = vaults[x].listed
               /\ vaults'[x].flush = IF Quoting(x) THEN FALSE ELSE vaults[x].flush
    <2> DEFINE v == vaults[x]
               a == walk.atoms[x]
    <2>1. v \in Vault /\ a \in [Legs -> Nat]
      BY <1>1, <1>4 DEF TypeOK
    <2>2. vaults'[x] = IF Quoting(x) THEN [v EXCEPT !.flush = FALSE, !.atoms = a] ELSE v
      BY DEF CommitSwap
    <2>3. ~Quoting(x) => a = v.atoms
      BY <1>3
    <2> HIDE DEF v, a
    <2>4. CASE Quoting(x)
      <3> DEFINE w == [v EXCEPT !.flush = FALSE, !.atoms = a]
      <3>1. /\ w \in Vault /\ w.atoms = a /\ SameQuote(w, v)
            /\ w.frozen = v.frozen /\ w.listed = v.listed /\ w.flush = FALSE
        BY <2>1 DEF Vault, SameQuote
      <3>2. vaults'[x] = w
        BY <2>2, <2>4
      <3> HIDE DEF w
      <3> QED
        BY <2>4, <3>1, <3>2 DEF v, a
    <2>5. CASE ~Quoting(x)
      BY <2>1, <2>2, <2>3, <2>5 DEF SameQuote, v, a
    <2> QED
      BY <2>4, <2>5
  <1>7. /\ treasury'[theirs] = treasury[theirs] + (amount_in - walk.unfilled)
        /\ treasury'[mine] = treasury[mine] - (walk.out - walk.fee)
        /\ accrued_fee'[mine] = accrued_fee[mine] + walk.fee
        /\ accrued_fee'[theirs] = accrued_fee[theirs]
        /\ DOMAIN treasury' = Legs /\ DOMAIN accrued_fee' = Legs
        /\ treasury' = [leg \in Legs |-> treasury'[leg]]
        /\ accrued_fee' = [leg \in Legs |-> accrued_fee'[leg]]
    <2>1. treasury \in [Legs -> Nat] /\ accrued_fee \in [Legs -> Nat]
      BY <1>1 DEF TypeOK
    <2>2. /\ treasury' = [treasury EXCEPT ![theirs] = @ + (amount_in - walk.unfilled),
                                          ![mine] = @ - (walk.out - walk.fee)]
          /\ accrued_fee' = [accrued_fee EXCEPT ![mine] = @ + walk.fee]
      BY DEF CommitSwap, NetOfTakerFee
    <2> HIDE DEF mine, theirs
    <2> QED
      BY <1>5, <2>1, <2>2
  <1>8. ASSUME NEW leg \in Legs
        PROVE  /\ treasury'[leg] \in Nat /\ accrued_fee'[leg] \in Nat
               /\ treasury'[leg] >= Inventory(walk.atoms, leg) + accrued_fee'[leg]
    <2> DEFINE before(l) == Inventory(Stock, l)
               after(l) == Inventory(walk.atoms, l)
    <2>1. Stock \in [Vaults -> [Legs -> Nat]]
      BY <1>1 DEF TypeOK, Vault, Stock
    <2>2. \A l \in Legs : before(l) \in Nat /\ after(l) \in Nat
      <3>1. ASSUME NEW l \in Legs, NEW atoms \in [Vaults -> [Legs -> Nat]]
            PROVE  Inventory(atoms, l) \in Nat
        <4>1. [x \in Vaults |-> atoms[x][l]] \in [Vaults -> Nat]
          OBVIOUS
        <4> QED
          BY <4>1, SidesAndLegs, SumOfNats DEF Inventory
      <3> QED
        BY <1>4, <2>1, <3>1
    <2>3. \A l \in Legs : /\ treasury[l] \in Nat /\ accrued_fee[l] \in Nat
                          /\ treasury[l] >= before(l) + accrued_fee[l]
      BY <1>1, SolventNow DEF TypeOK
    <2>4. /\ after(mine) + walk.out = before(mine)
          /\ after(theirs) + walk.unfilled <= before(theirs) + amount_in
      BY <1>3
    <2> DEFINE out == walk.out
               fee == walk.fee
               unfilled == walk.unfilled
               old == before(leg)
               new == after(leg)
               held == treasury[leg]
               owed == accrued_fee[leg]
               holds == treasury'[leg]
               owes == accrued_fee'[leg]
    <2>5. /\ out \in Nat /\ fee \in Nat /\ unfilled \in Nat /\ fee <= out
          /\ unfilled <= amount_in
          /\ old \in Nat /\ new \in Nat /\ held \in Nat /\ owed \in Nat
          /\ held >= old + owed
      BY <1>3, <1>4, <2>2, <2>3
    <2> HIDE DEF before, after, mine, theirs
    <2>6. CASE leg = mine
      <3>1. holds = held - (out - fee) /\ owes = owed + fee /\ new + out = old
        BY <1>7, <2>4, <2>6
      <3> HIDE DEF out, fee, unfilled, old, new, held, owed, holds, owes
      <3>2. holds \in Nat /\ owes \in Nat /\ holds >= new + owes
        BY <2>5, <3>1
      <3> QED
        BY <3>2 DEF holds, owes, new, after
    <2>7. CASE leg = theirs
      <3>1. /\ holds = held + (amount_in - unfilled) /\ owes = owed
            /\ new + unfilled <= old + amount_in
        BY <1>7, <2>4, <2>7
      <3> HIDE DEF out, fee, unfilled, old, new, held, owed, holds, owes
      <3>2. holds \in Nat /\ owes \in Nat /\ holds >= new + owes
        BY <1>2, <2>5, <3>1
      <3> QED
        BY <3>2 DEF holds, owes, new, after
    <2> QED
      BY <1>5, <2>6, <2>7
  <1>9. TypeOK'
    <2>1. vaults' \in [Vaults -> Vault]
      <3>1. vaults' = [x \in Vaults |-> vaults'[x]]
        BY DEF CommitSwap
      <3> QED
        BY <1>6, <3>1
    <2>2. remaining' \in [Vaults -> [Sides -> [Levels -> Position]]]
      BY <1>4 DEF CommitSwap, Ladder
    <2>3. nonce' \in 0 .. MaxNonce
      <3> DEFINE legs == Len(walk.legs)
      <3>1. nonce \in Nat /\ legs \in Nat /\ MaxNonce \in Nat
        BY <1>1, <1>4, BookAssumption DEF TypeOK
      <3>2. nonce' = nonce + legs /\ nonce + legs <= MaxNonce
        BY DEF CommitSwap
      <3> HIDE DEF legs
      <3> QED
        BY <3>1, <3>2
    <2>4. treasury' \in [Legs -> Nat] /\ accrued_fee' \in [Legs -> Nat]
      BY <1>7, <1>8
    <2> QED
      BY <1>1, <2>1, <2>2, <2>3, <2>4 DEF TypeOK
  <1>10. remaining' = walk.remaining
    BY DEF CommitSwap
  <1>11. BookBacked'
    <2>1. ASSUME NEW x \in Vaults, ~vaults'[x].flush
          PROVE  Covered(remaining'[x], vaults'[x].atoms)
      <3>1. CASE Quoting(x)
        BY <1>3, <1>6, <1>10, <3>1
      <3>2. CASE ~Quoting(x)
        <4>1. Covered(remaining[x], vaults[x].atoms)
          BY <1>1, <1>6, <2>1, <3>2, BackedNow
        <4> QED
          BY <1>3, <1>6, <1>10, <3>2, <4>1
      <3> QED
        BY <3>1, <3>2
    <2> QED
      BY <1>9, <2>1, BackedNext
  <1>12. BookSolvent'
    <2> DEFINE atoms == walk.atoms
    <2>1. /\ \A x \in Vaults : vaults'[x].atoms = atoms[x]
          /\ \A leg \in Legs : treasury'[leg] >= Inventory(atoms, leg) + accrued_fee'[leg]
      BY <1>6, <1>8
    <2> HIDE DEF atoms
    <2> QED
      BY <2>1, SolventNext
  <1>13. AtCurrentQuote'
    <2>1. ASSUME NEW x \in Vaults, ~vaults'[x].flush, Matchable(vaults'[x].price),
                 NEW s \in Sides, NEW i \in Levels
          PROVE  SameTerms(remaining'[x][s][i], MaterializedLevel(vaults'[x], s, i))
      <3>1. SameQuote(vaults'[x], vaults[x]) /\ SameQuote(vaults[x], vaults'[x])
        BY <1>6 DEF SameQuote
      <3>2. Matchable(vaults[x].price)
        <4>1. vaults[x].price = vaults'[x].price
          BY <3>1 DEF SameQuote
        <4> QED
          BY <2>1, <4>1
      <3>3. SameTerms(remaining'[x][s][i], MaterializedLevel(vaults[x], s, i))
        <4>1. CASE Quoting(x)
          <5>1. SameTerms(walk.remaining[x][s][i], Rested(x)[s][i])
            BY <1>3, <4>1
          <5>2. SameTerms(Rested(x)[s][i], MaterializedLevel(vaults[x], s, i))
            BY <1>1, <3>2, RestedTerms
          <5> QED
            BY <1>10, <5>1, <5>2, SameTermsChain
        <4>2. CASE ~Quoting(x)
          <5>1. ~vaults[x].flush /\ remaining'[x] = remaining[x]
            BY <1>3, <1>6, <1>10, <2>1, <4>2
          <5> QED
            BY <1>1, <3>2, <5>1 DEF AtCurrentQuote
        <4> QED
          BY <4>1, <4>2
      <3>4. SameTerms(MaterializedLevel(vaults[x], s, i), MaterializedLevel(vaults'[x], s, i))
        BY <3>1, SameQuoteSameTerms
      <3> QED
        BY <3>3, <3>4, SameTermsChain
    <2> QED
      BY <2>1 DEF AtCurrentQuote
  <1>14. /\ receipt'.side = side /\ receipt'.amount_in = amount_in /\ receipt'.limit = limit
         /\ receipt'.min_out = min_out /\ receipt'.paid = amount_in - walk.unfilled
         /\ receipt'.got = AchievableOut(walk, bps) /\ receipt'.legs = walk.legs
    BY DEF CommitSwap
  <1>15. TakerProtected'
    <2>1. amount_in - walk.unfilled <= amount_in
      BY <1>2, <1>4
    <2>2. walk.legs # <<>> /\ AchievableOut(walk, bps) >= min_out
      BY DEF Commits
    <2>3. \A k \in DOMAIN walk.legs : ~CrossesLimit(side, walk.legs[k].entry.price, limit)
      BY <1>3
    <2> QED
      BY <1>14, <2>1, <2>2, <2>3 DEF TakerProtected
  <1>16. FillsAtCurrentQuote'
    <2>1. ASSUME NEW k \in DOMAIN walk.legs
          PROVE  IsQuotedBy(walk.legs[k].entry, side, vaults'[walk.legs[k].entry.vault], now)
      <3> DEFINE e == walk.legs[k].entry
                 v == vaults'[e.vault]
      <3>1. e \in Entries(side)
        BY <1>3
      <3> HIDE DEF e
      <3>2. e.vault \in Vaults /\ Quoting(e.vault)
        BY <1>1, <3>1, EntryFacts, RestingSideType
      <3>3. SameQuote(v, vaults[e.vault]) /\ ~v.frozen /\ v.listed
        BY <1>6, <3>2 DEF Quoting
      <3> HIDE DEF v
      <3>4. IsQuotedBy(e, side, v, now)
        BY <1>1, <3>1, <3>3, EntryAtCurrentQuote DEF IsQuotedBy
      <3> QED
        BY <3>4 DEF e, v
    <2>2. receipt'.legs = walk.legs /\ receipt'.side = side /\ now' = now
      BY <1>14
    <2> QED
      BY <2>1, <2>2, QuotedNext
  <1> QED
    BY <1>9, <1>11, <1>12, <1>13, <1>15, <1>16 DEF BookIInv

LEMMA SwapKeeps ==
    ASSUME BookIInv, NEW side \in Sides, NEW amount_in \in AmountsIn, NEW limit, NEW min_out,
           NEW bps, Swap(side, amount_in, limit, min_out, bps)
    PROVE  BookIInv'
  <1> DEFINE walk == Walked(side, amount_in, limit)
  <1>1. /\ nonce + Len(walk.legs) <= MaxNonce /\ UNCHANGED now
        /\ IF Commits(walk, bps, min_out)
           THEN CommitSwap(side, amount_in, limit, min_out, bps, walk)
           ELSE RevertSwap(side, amount_in, limit, min_out)
    BY DEF Swap
  <1>2. CASE Commits(walk, bps, min_out)
    <2>1. walk = Walked(side, amount_in, limit)
      OBVIOUS
    <2>2. CommitSwap(side, amount_in, limit, min_out, bps, walk)
      BY <1>1, <1>2
    <2> HIDE DEF walk
    <2> QED
      BY <1>1, <1>2, <2>1, <2>2, CommitSwapKeeps
  <1>3. CASE ~Commits(walk, bps, min_out)
    BY <1>1, <1>3, RevertSwapKeeps
  <1> QED
    BY <1>2, <1>3

LEMMA StutterKeeps ==
    ASSUME BookIInv, UNCHANGED bookVars
    PROVE  BookIInv'
  <1>1. /\ vaults' = vaults /\ remaining' = remaining /\ nonce' = nonce /\ treasury' = treasury
        /\ accrued_fee' = accrued_fee /\ now' = now /\ receipt' = receipt
    BY DEF bookVars
  <1>2. TypeOK'
    BY <1>1 DEF BookIInv, TypeOK
  <1>3. BookBacked'
    <2>1. ASSUME NEW x \in Vaults, ~vaults'[x].flush
          PROVE  Covered(remaining'[x], vaults'[x].atoms)
      BY <1>1, <2>1, BackedNow DEF BookIInv
    <2> QED
      BY <1>2, <2>1, BackedNext
  <1>4. BookSolvent'
    BY <1>1 DEF BookIInv, BookSolvent
  <1>5. AtCurrentQuote'
    BY <1>1 DEF BookIInv, AtCurrentQuote
  <1>6. TakerProtected'
    BY <1>1 DEF BookIInv, TakerProtected
  <1>7. FillsAtCurrentQuote'
    <2>1. \A k \in DOMAIN receipt.legs :
             IsQuotedBy(receipt.legs[k].entry, receipt.side,
                        vaults[receipt.legs[k].entry.vault], now)
      BY DEF BookIInv, FillsAtCurrentQuote, IsQuotedBy
    <2> QED
      BY <1>1, <2>1, QuotedNext
  <1> QED
    BY <1>2, <1>3, <1>4, <1>5, <1>6, <1>7 DEF BookIInv

-----------------------------------------------------------------------------
(* The safety of the book *)

\* The inductive invariant of the book and the swap: no write of a quote, no
\* movement of an inventory and no walk, committed or reverted, breaks it.
THEOREM BookInductive == Spec => []BookIInv
  <1>1. Init => BookIInv
    BY BookStarts
  <1>2. BookIInv /\ [Next]_bookVars => BookIInv'
    <2> SUFFICES ASSUME BookIInv, [Next]_bookVars PROVE BookIInv'
      OBVIOUS
    <2>1. ASSUME NEW x \in Vaults, NEW price \in RefPrices, NEW at \in QuoteTimes,
                 SetReferencePrice(x, price, at[1], at[2])
          PROVE  BookIInv'
      BY <2>1, SetReferencePriceKeeps
    <2>2. ASSUME NEW x \in Vaults, NEW profile \in Profiles, SetLiquidityProfile(x, profile)
          PROVE  BookIInv'
      BY <2>2, SetLiquidityProfileKeeps
    <2>3. ASSUME NEW x \in Vaults, NEW stock \in [Legs -> Stocks],
                 Deposit(x, stock) \/ Withdraw(x, stock)
          PROVE  BookIInv'
      <3>1. stock \in [Legs -> Nat]
        BY BookAssumption
      <3>2. MoveInventory(x, stock)
        BY <2>3 DEF Deposit, Withdraw
      <3> QED
        BY <3>1, <3>2, MoveInventoryKeeps
    <2>4. ASSUME NEW x \in Vaults, FreezeVault(x) PROVE BookIInv'
      BY <2>4, FreezeVaultKeeps
    <2>5. ASSUME NEW x \in Vaults, CloseVault(x) PROVE BookIInv'
      BY <2>5, CloseVaultKeeps
    <2>6. ASSUME NEW domain \in {"unix", "slot"}, Tick(domain) PROVE BookIInv'
      BY <2>6, TickKeeps
    <2>7. ASSUME NEW side \in Sides, NEW amount_in \in AmountsIn, NEW limit \in Limits,
                 NEW min_out \in MinOuts, NEW bps \in PlatformFees,
                 Swap(side, amount_in, limit, min_out, bps)
          PROVE  BookIInv'
      BY <2>7, SwapKeeps
    <2>8. CASE UNCHANGED bookVars
      BY <2>8, StutterKeeps
    <2> QED
      BY <2>1, <2>2, <2>3, <2>4, <2>5, <2>6, <2>7, <2>8 DEF Next
  <1> QED
    BY <1>1, <1>2, PTL DEF Spec

\* Sizes, prices and deadlines stay what their fields can hold: no fill takes a
\* level below zero, and the treasuries always have what a swap pays out.
THEOREM BookTypeOK == Spec => []TypeOK
  <1>1. BookIInv => TypeOK
    BY DEF BookIInv
  <1> QED
    BY <1>1, BookInductive, PTL

\* A vault never offers more of a leg than it holds, whatever order flushes,
\* fills on both sides of a level, deposits and withdrawals come in.
THEOREM BookNeverOversells == Spec => []BookBacked
  <1>1. BookIInv => BookBacked
    BY DEF BookIInv
  <1> QED
    BY <1>1, BookInductive, PTL

\* The treasuries cover every inventory and every fee accrued after any number
\* of swaps.
THEOREM BookStaysSolvent == Spec => []BookSolvent
  <1>1. BookIInv => BookSolvent
    BY DEF BookIInv
  <1> QED
    BY <1>1, BookInductive, PTL

\* What a committed swap reports respects the budget, the limit and the floor
\* its taker set.
THEOREM BookProtectsTakers == Spec => []TakerProtected
  <1>1. BookIInv => TakerProtected
    BY DEF BookIInv
  <1> QED
    BY <1>1, BookInductive, PTL

\* No swap meets a level of an earlier quote or one whose deadline has passed.
THEOREM BookTradesAtTheQuote == Spec => []FillsAtCurrentQuote
  <1>1. BookIInv => FillsAtCurrentQuote
    BY DEF BookIInv
  <1> QED
    BY <1>1, BookInductive, PTL

\* A swap fills the best of what is on offer first: whatever it leaves ahead of
\* a level it hit is not worth an atom.
THEOREM BookPriceTimePriority == Spec => PriceTimePriority
  <1> DEFINE Passed(leg, side) ==
               \A e \in Entries(side) :
                  KeyBefore(Key(side, e), Key(side, leg)) =>
                    LET left == Lesser(SizeAfter(side, e), vaults'[e.vault].atoms[LegOf(side)])
                    IN left = 0 \/ InputFor(side, e.price, left) = 0
             Fair == \A k \in DOMAIN receipt'.legs : Passed(receipt'.legs[k].entry, receipt'.side)
  <1>1. ASSUME BookIInv, Next PROVE Fair
    <2>1. CASE receipt'.legs = <<>>
      <3>1. DOMAIN receipt'.legs = {}
        BY <2>1
      <3> QED
        BY <3>1
    <2>2. CASE receipt'.legs # <<>>
      <3>1. receipt' # NoReceipt
        BY <2>2 DEF NoReceipt
      <3>2. PICK side \in Sides, amount_in \in AmountsIn, limit \in Limits, min_out \in MinOuts,
                 bps \in PlatformFees : Swap(side, amount_in, limit, min_out, bps)
        BY <1>1, <3>1, Zenon
        DEF Next, SetReferencePrice, SetLiquidityProfile, QuoteWrite, Deposit, Withdraw,
            MoveInventory, FreezeVault, CloseVault, Tick
      <3> DEFINE walk == Walked(side, amount_in, limit)
      <3>3. CommitSwap(side, amount_in, limit, min_out, bps, walk)
        <4>1. CASE Commits(walk, bps, min_out)
          BY <3>2, <4>1 DEF Swap
        <4>2. CASE ~Commits(walk, bps, min_out)
          <5>1. RevertSwap(side, amount_in, limit, min_out)
            BY <3>2, <4>2 DEF Swap
          <5> QED
            BY <2>2, <5>1 DEF RevertSwap, NoReceipt
        <4> QED
          BY <4>1, <4>2
      <3>4. walk = Walked(side, amount_in, limit)
        OBVIOUS
      <3> HIDE DEF walk
      <3>5. /\ receipt'.legs = walk.legs /\ receipt'.side = side /\ remaining' = walk.remaining
            /\ \A x \in Vaults : Quoting(x) => vaults'[x].atoms = walk.atoms[x]
        <4>1. \A x \in Vaults : Quoting(x) => vaults'[x].atoms = walk.atoms[x]
          <5>1. vaults' = [x \in Vaults |->
                             IF Quoting(x)
                             THEN [vaults[x] EXCEPT !.flush = FALSE, !.atoms = walk.atoms[x]]
                             ELSE vaults[x]]
            BY <3>3 DEF CommitSwap
          <5>2. \A x \in Vaults : vaults[x] \in Vault
            BY <1>1 DEF BookIInv, TypeOK
          <5>3. ASSUME NEW v \in Vault, NEW a
                PROVE  [v EXCEPT !.flush = FALSE, !.atoms = a].atoms = a
            BY DEF Vault
          <5> QED
            BY <5>1, <5>2, <5>3
        <4> QED
          BY <3>3, <4>1 DEF CommitSwap
      <3>6. /\ amount_in \in Nat /\ TypeOK /\ BookBacked
        BY <1>1, BookAssumption DEF BookIInv
      <3>7. \A m \in DOMAIN walk.legs : \A e \in Entries(side) :
               KeyBefore(Key(side, e), Key(side, walk.legs[m].entry)) => Worthless(walk, side, e)
        BY <3>4, <3>6, WalkEnds
      <3>8. ASSUME NEW m \in DOMAIN walk.legs
            PROVE  Passed(walk.legs[m].entry, side)
        <4>1. ASSUME NEW e \in Entries(side),
                     KeyBefore(Key(side, e), Key(side, walk.legs[m].entry))
              PROVE  LET left == Lesser(SizeAfter(side, e), vaults'[e.vault].atoms[LegOf(side)])
                     IN left = 0 \/ InputFor(side, e.price, left) = 0
          <5>1. Worthless(walk, side, e)
            BY <3>7, <4>1
          <5>2. e.vault \in Vaults /\ Quoting(e.vault)
            BY <3>6, EntryFacts, RestingSideType
          <5>3. SizeAfter(side, e) = Half(walk.remaining, side, e)
            BY <3>5 DEF SizeAfter, Half
          <5>4. vaults'[e.vault].atoms = walk.atoms[e.vault]
            BY <3>5, <5>2
          <5> QED
            BY <5>1, <5>3, <5>4 DEF Worthless
        <4> QED
          BY <4>1
      <3> QED
        BY <3>5, <3>8
    <2> QED
      BY <2>1, <2>2
  <1>2. BookIInv /\ [Next]_bookVars => [Fair]_bookVars
    BY <1>1
  <1> QED
    BY <1>2, BookInductive, PTL DEF Spec, PriceTimePriority

-----------------------------------------------------------------------------
(* Reverted swaps *)

\* Only a swap reports an amount in.
LEMMA OnlySwapsReport ==
    ASSUME Next, receipt'.amount_in > 0
    PROVE  \E side \in Sides, amount_in \in AmountsIn, limit \in Limits, min_out \in MinOuts,
              bps \in PlatformFees : Swap(side, amount_in, limit, min_out, bps)
  <1>1. receipt' # NoReceipt
    BY DEF NoReceipt
  <1> QED
    BY <1>1, Zenon
    DEF Next, SetReferencePrice, SetLiquidityProfile, QuoteWrite, Deposit, Withdraw,
        MoveInventory, FreezeVault, CloseVault, Tick

\* What a reverted swap leaves rests exactly as a flush would have left it.
LEMMA RevertRests ==
    ASSUME NEW side, NEW amount_in, NEW limit, NEW min_out,
           RevertSwap(side, amount_in, limit, min_out), NEW x \in Vaults
    PROVE  Rested(x)' = Rested(x)
  <1>1. vaults' = vaults
    BY DEF RevertSwap
  <1>2. remaining'[x] = IF Quoting(x) THEN Rested(x) ELSE remaining[x]
    BY DEF RevertSwap
  <1>3. Rested(x)' = IF vaults[x].flush THEN Materialized(vaults[x]) ELSE remaining'[x]
    BY <1>1 DEF Rested
  <1>4. CASE vaults[x].flush
    BY <1>3, <1>4 DEF Rested
  <1>5. CASE ~vaults[x].flush
    BY <1>2, <1>3, <1>5 DEF Rested
  <1> QED
    BY <1>4, <1>5

\* A swap that commits has filled a leg.
LEMMA CommitFills ==
    ASSUME NEW side, NEW amount_in, NEW limit, NEW min_out, NEW bps,
           Swap(side, amount_in, limit, min_out, bps), receipt'.legs = <<>>
    PROVE  RevertSwap(side, amount_in, limit, min_out)
  <1> DEFINE walk == Walked(side, amount_in, limit)
  <1>1. CASE Commits(walk, bps, min_out)
    <2>1. walk.legs # <<>>
      BY <1>1 DEF Commits
    <2>2. CommitSwap(side, amount_in, limit, min_out, bps, walk)
      BY <1>1 DEF Swap
    <2>3. receipt'.legs = walk.legs
      BY <2>2 DEF CommitSwap
    <2> QED
      BY <2>1, <2>3
  <1>2. CASE ~Commits(walk, bps, min_out)
    BY <1>2 DEF Swap
  <1> QED
    BY <1>1, <1>2

\* A swap that gives nothing is as if it had not been sent: the next taker sees
\* the same book, however many flushes the failed one had done.
THEOREM BookRevertIsNeutral == Spec => RevertIsNeutral
  <1>1. ASSUME Next, receipt'.amount_in > 0, receipt'.legs = <<>>
        PROVE  /\ \A x \in Vaults : Rested(x)' = Rested(x)
               /\ UNCHANGED <<vaults, nonce, treasury, accrued_fee>>
    <2>1. PICK side \in Sides, amount_in \in AmountsIn, limit \in Limits, min_out \in MinOuts,
               bps \in PlatformFees : Swap(side, amount_in, limit, min_out, bps)
      BY <1>1, OnlySwapsReport
    <2>2. RevertSwap(side, amount_in, limit, min_out)
      BY <1>1, <2>1, CommitFills
    <2>3. UNCHANGED <<vaults, nonce, treasury, accrued_fee>>
      BY <2>2 DEF RevertSwap
    <2>4. ASSUME NEW x \in Vaults PROVE Rested(x)' = Rested(x)
      BY <2>2, RevertRests
    <2> QED
      BY <2>3, <2>4
  <1>2. ASSUME UNCHANGED bookVars
        PROVE  /\ \A x \in Vaults : vaults[x].flush \/ Rested(x)' = Rested(x)
               /\ UNCHANGED <<vaults, nonce, treasury, accrued_fee>>
    BY <1>2 DEF bookVars, Rested
  <1>3. [Next]_bookVars
          => [receipt'.amount_in > 0 /\ receipt'.legs = <<>> =>
                 /\ \A x \in Vaults : vaults[x].flush \/ Rested(x)' = Rested(x)
                 /\ UNCHANGED <<vaults, nonce, treasury, accrued_fee>>]_bookVars
    BY <1>1, <1>2
  <1> QED
    BY <1>3, PTL DEF Spec, RevertIsNeutral

-----------------------------------------------------------------------------
(* The quoter's levels *)

\* Two sets listed in orders that f carries onto each other: so does it carry
\* one list onto the other.
LEMMA SortedImage ==
    ASSUME NEW S, IsFiniteSet(S), NEW lt, StrictOrder(S, lt),
           NEW T, NEW gt, NEW f \in Bijection(S, T),
           \A a, b \in S : <<f[a], f[b]>> \in gt <=> <<a, b>> \in lt
    PROVE  /\ AntiFunction(Ahead(T, gt)) \in [1 .. Cardinality(S) -> T]
           /\ \A k \in 1 .. Cardinality(S) :
                 AntiFunction(Ahead(T, gt))[k] = f[AntiFunction(Ahead(S, lt))[k]]
  <1>1. /\ f \in [S -> T] /\ (\A a, b \in S : f[a] = f[b] => a = b)
        /\ \A t \in T : \E a \in S : f[a] = t
    BY DEF Bijection, Injection, Surjection, IsInjective
  <1>2. IsFiniteSet(T) /\ Cardinality(T) = Cardinality(S)
    <2>1. f \in Surjection(S, T) /\ f \in Injection(S, T)
      BY DEF Bijection
    <2> QED
      BY <2>1, FS_Surjection
  <1>3. StrictOrder(T, gt)
    <2>1. ASSUME NEW t \in T PROVE <<t, t>> \notin gt
      <3>1. PICK a \in S : f[a] = t
        BY <1>1
      <3>2. <<a, a>> \notin lt
        BY DEF StrictOrder
      <3> QED
        BY <3>1, <3>2
    <2>2. ASSUME NEW t \in T, NEW u \in T, t # u PROVE <<t, u>> \in gt \/ <<u, t>> \in gt
      <3>1. PICK a \in S : f[a] = t
        BY <1>1
      <3>2. PICK b \in S : f[b] = u
        BY <1>1
      <3>3. <<a, b>> \in lt \/ <<b, a>> \in lt
        BY <2>2, <3>1, <3>2 DEF StrictOrder
      <3> QED
        BY <3>1, <3>2, <3>3
    <2>3. ASSUME NEW t \in T, NEW u \in T, NEW w \in T, <<t, u>> \in gt, <<u, w>> \in gt
          PROVE  <<t, w>> \in gt
      <3>1. PICK a \in S : f[a] = t
        BY <1>1
      <3>2. PICK b \in S : f[b] = u
        BY <1>1
      <3>3. PICK c \in S : f[c] = w
        BY <1>1
      <3>4. <<a, b>> \in lt /\ <<b, c>> \in lt
        BY <2>3, <3>1, <3>2, <3>3
      <3>5. <<a, c>> \in lt
        BY <3>4 DEF StrictOrder
      <3> QED
        BY <3>1, <3>3, <3>5
    <2> QED
      BY <2>1, <2>2, <2>3 DEF StrictOrder
  <1>4. ASSUME NEW a \in S
        PROVE  Ahead(T, gt)[f[a]] = Ahead(S, lt)[a]
    <2> DEFINE A == {b \in S : <<b, a>> \in lt}
               B == {t \in T : <<t, f[a]>> \in gt}
               g == [b \in A |-> f[b]]
    <2>1. g \in [A -> B]
      BY <1>1
    <2>2. \A b, c \in A : g[b] = g[c] => b = c
      BY <1>1
    <2>3. \A t \in B : \E b \in A : g[b] = t
      <3> SUFFICES ASSUME NEW t \in B PROVE \E b \in A : g[b] = t
        OBVIOUS
      <3>1. PICK b \in S : f[b] = t
        BY <1>1
      <3>2. b \in A
        BY <3>1
      <3> QED
        BY <3>1, <3>2
    <2>4. IsFiniteSet(A) /\ IsFiniteSet(B)
      BY <1>2, FS_Subset
    <2>5. Ahead(T, gt)[f[a]] = 1 + Cardinality(B) /\ Ahead(S, lt)[a] = 1 + Cardinality(A)
      BY <1>1 DEF Ahead
    <2> HIDE DEF A, B, g
    <2>6. g \in Injection(A, B) /\ g \in Surjection(A, B)
      BY <2>1, <2>2, <2>3 DEF Injection, Surjection, IsInjective
    <2>7. Cardinality(A) = Cardinality(B)
      BY <2>4, <2>6, FS_Surjection
    <2> QED
      BY <2>5, <2>7
  <1> DEFINE n == Cardinality(S)
             s == AntiFunction(Ahead(S, lt))
             t == AntiFunction(Ahead(T, gt))
             p == Ahead(T, gt)
  <1>5. /\ s \in [1 .. n -> S] /\ \A k \in 1 .. n : Ahead(S, lt)[s[k]] = k
    BY SortedLists DEF Lists
  <1>6. /\ t \in [1 .. n -> T] /\ \A k \in 1 .. n : p[t[k]] = k
    BY <1>2, <1>3, SortedLists DEF Lists
  <1>7. /\ p \in [T -> 1 .. n] /\ \A a, b \in T : <<a, b>> \in gt => p[a] < p[b]
    BY <1>2, <1>3, AheadOrders
  <1>8. n \in Nat
    BY FS_CardinalityType
  <1> HIDE DEF s, t, n
  <1>9. \A k \in 1 .. n : p[f[s[k]]] = k
    BY <1>1, <1>4, <1>5
  <1> HIDE DEF p
  <1>10. ASSUME NEW k \in 1 .. n PROVE t[k] = f[s[k]]
    <2>1. t[k] \in T /\ f[s[k]] \in T /\ p[t[k]] = p[f[s[k]]] /\ p[t[k]] \in Int
      BY <1>1, <1>5, <1>6, <1>7, <1>9
    <2>2. ~(p[t[k]] < p[f[s[k]]]) /\ ~(p[f[s[k]]] < p[t[k]])
      BY <2>1
    <2> QED
      BY <1>7, <1>3, <2>1, <2>2 DEF StrictOrder
  <1> QED
    BY <1>6, <1>10 DEF s, t, n

\* What the quoter computes for an own level is what the swap's flush would rest,
\* but on a side that overfills, of which nothing rests.
LEMMA OwnLevelState ==
    ASSUME TypeOK, NEW side \in Sides, NEW x \in Vaults, NEW i \in Levels
    PROVE  LET e == OwnEntry(side, x, i)
               p == Rested(x)[side][i]
           IN IF vaults[x].flush /\ FlushSideSumExceedsBps(vaults[x], side)
              THEN e.size = 0
              ELSE LevelState(x, side, i)
                     = [price |-> e.price, size |-> e.size,
                        unix_deadline |-> p.unix_deadline, slot_deadline |-> p.slot_deadline]
  <1> DEFINE v == vaults[x]
             sum == SideSum(v.profile, side)
             own == MaterializedLevel(v, side, i)
  <1>1. v \in Vault /\ sum \in Nat /\ BPS \in Nat
    <2>1. v \in Vault
      BY RestedType
    <2>2. v.profile \in Profile
      BY <2>1, BookAssumption DEF Vault
    <2> DEFINE f == [j \in Levels |-> v.profile[side][j].size_bps]
    <2>3. f \in [Levels -> Nat] /\ IsFiniteSet(Levels)
      BY <2>2, SidesAndLegs DEF Profile, Level
    <2> HIDE DEF f
    <2>4. SumFunction(f) \in Nat
      BY <2>3, SumOfNats
    <2> QED
      BY <2>1, <2>4, BookAssumption DEF SideSum, f
  <1>2. OwnEntry(side, x, i).price = Rested(x)[side][i].price
        /\ OwnEntry(side, x, i).size = Rested(x)[side][i].size
    BY DEF OwnEntry
  <1>3. CASE v.flush
    <2>1. Rested(x)[side][i] = own
      BY <1>3 DEF Rested, Materialized
    <2>2. FlushSideSumExceedsBps(v, side) <=> ~(sum <= BPS)
      <3> HIDE DEF sum
      <3>1. sum > BPS <=> ~(sum <= BPS)
        BY <1>1
      <3> QED
        BY <3>1 DEF FlushSideSumExceedsBps, sum
    <2>3. ~(sum <= BPS) => own.size = 0
      BY DEF MaterializedLevel
    <2>4. sum <= BPS =>
            LevelState(x, side, i)
              = [price |-> own.price, size |-> own.size,
                 unix_deadline |-> own.unix_deadline, slot_deadline |-> own.slot_deadline]
      BY <1>3 DEF LevelState, MaterializedLevel
    <2> HIDE DEF own, v, sum
    <2> QED
      BY <1>2, <1>3, <2>1, <2>2, <2>3, <2>4 DEF v
  <1>4. CASE ~v.flush
    BY <1>2, <1>4 DEF Rested, LevelState
  <1> QED
    BY <1>3, <1>4

\* What has flipped to a side is there until the next flush, which drops it.
LEMMA FlippedLevelState ==
    ASSUME NEW side \in Sides, NEW x \in Vaults, NEW i \in Levels
    PROVE  LET e == FlippedEntry(side, x, i)
               p == Rested(x)[OtherSide(side)][i]
           IN IF vaults[x].flush
              THEN e.size = 0
              ELSE FlippedState(x, side, i)
                     = [price |-> e.price, size |-> e.size,
                        unix_deadline |-> p.unix_deadline, slot_deadline |-> p.slot_deadline]
  <1>1. CASE vaults[x].flush
    <2>1. Rested(x)[OtherSide(side)][i] = MaterializedLevel(vaults[x], OtherSide(side), i)
      BY <1>1, SidesAndLegs DEF Rested, Materialized
    <2> QED
      BY <1>1, <2>1 DEF FlippedEntry, MaterializedLevel
  <1>2. CASE ~vaults[x].flush
    BY <1>2 DEF Rested, FlippedState, FlippedEntry
  <1> QED
    BY <1>1, <1>2

\* The quoter's view of an entry.
StateOf(side, e) ==
    IF e.flipped THEN FlippedState(e.vault, side, e.level) ELSE LevelState(e.vault, side, e.level)

AsLevel(side, e) ==
    [sector |-> e.vault, level |-> e.level, flipped |-> e.flipped, state |-> StateOf(side, e),
     nonce |-> e.nonce]

\* Levels, and their order, as the quoter collects them.
LiveLevels(side) ==
    LET quoting == {x \in Vaults : Quoting(x)}
        flushed == {x \in quoting : vaults[x].flush}
        overfull == {x \in flushed : FlushSideSumExceedsBps(vaults[x], side)}
        lvl(x, i, flipped, state) ==
            [sector |-> x, level |-> i, flipped |-> flipped, state |-> state,
             nonce |-> vaults[x].stamp]
        own == {lvl(x, i, FALSE, LevelState(x, side, i)) : x \in quoting \ overfull, i \in Levels}
        flips == {lvl(x, i, TRUE, FlippedState(x, side, i)) : x \in quoting \ flushed, i \in Levels}
    IN {l \in own \cup flips : LevelIsLive(l.state.price, l.state.size, l.state)}

LevelOrder(side) ==
    {p \in LiveLevels(side) \X LiveLevels(side) : LevelBefore(side, p[1], p[2])}

\* A level of the quoter's: an own one of a side that does not overfill, or one
\* that has flipped and no flush will drop.
IsOwnLevel(side, l) ==
    \E x \in Vaults, i \in Levels :
        /\ Quoting(x) /\ ~(vaults[x].flush /\ FlushSideSumExceedsBps(vaults[x], side))
        /\ l = [sector |-> x, level |-> i, flipped |-> FALSE,
                state |-> LevelState(x, side, i), nonce |-> vaults[x].stamp]

IsFlippedLevel(side, l) ==
    \E x \in Vaults, i \in Levels :
        /\ Quoting(x) /\ ~vaults[x].flush
        /\ l = [sector |-> x, level |-> i, flipped |-> TRUE,
                state |-> FlippedState(x, side, i), nonce |-> vaults[x].stamp]

LEMMA LiveLevelsAre ==
    ASSUME NEW side, NEW l
    PROVE  l \in LiveLevels(side) <=> /\ LevelIsLive(l.state.price, l.state.size, l.state)
                                      /\ IsOwnLevel(side, l) \/ IsFlippedLevel(side, l)
  <1> DEFINE quoting == {x \in Vaults : Quoting(x)}
             flushed == {x \in quoting : vaults[x].flush}
             overfull == {x \in flushed : FlushSideSumExceedsBps(vaults[x], side)}
             lvl(x, i, flipped, state) ==
                 [sector |-> x, level |-> i, flipped |-> flipped, state |-> state,
                  nonce |-> vaults[x].stamp]
             own == {lvl(x, i, FALSE, LevelState(x, side, i)) :
                        x \in quoting \ overfull, i \in Levels}
             flips == {lvl(x, i, TRUE, FlippedState(x, side, i)) :
                        x \in quoting \ flushed, i \in Levels}
  <1>1. LiveLevels(side)
          = {m \in own \cup flips : LevelIsLive(m.state.price, m.state.size, m.state)}
    BY DEF LiveLevels
  <1>2. \A x : /\ x \in quoting \ overfull <=>
                     /\ x \in Vaults /\ Quoting(x)
                     /\ ~(vaults[x].flush /\ FlushSideSumExceedsBps(vaults[x], side))
               /\ x \in quoting \ flushed <=> x \in Vaults /\ Quoting(x) /\ ~vaults[x].flush
    OBVIOUS
  <1> DEFINE Q == quoting \ overfull
             R == quoting \ flushed
  <1>3. l \in own <=> \E x \in Q, i \in Levels : l = lvl(x, i, FALSE, LevelState(x, side, i))
    <2> HIDE DEF quoting, flushed, overfull, lvl
    <2> QED
      OBVIOUS
  <1>4. l \in flips <=> \E x \in R, i \in Levels : l = lvl(x, i, TRUE, FlippedState(x, side, i))
    <2> HIDE DEF quoting, flushed, overfull, lvl
    <2> QED
      OBVIOUS
  <1> HIDE DEF quoting, flushed, overfull, own, flips
  <1>5. l \in own <=> IsOwnLevel(side, l)
    BY <1>2, <1>3, Zenon DEF IsOwnLevel, Q, lvl
  <1>6. l \in flips <=> IsFlippedLevel(side, l)
    BY <1>2, <1>4, Zenon DEF IsFlippedLevel, R, lvl
  <1> HIDE DEF Q, R, lvl
  <1> QED
    BY <1>1, <1>5, <1>6

LEMMA CollectedInOrder ==
    ASSUME NEW side
    PROVE  CollectSideLevels(side) = AntiFunction(Ahead(LiveLevels(side), LevelOrder(side)))
  <1>1. ASSUME NEW e \in LiveLevels(side)
        PROVE  {f \in LiveLevels(side) : LevelBefore(side, f, e)}
                 = {f \in LiveLevels(side) : <<f, e>> \in LevelOrder(side)}
    BY DEF LevelOrder
  <1>2. CollectSideLevels(side) = AntiFunction([e \in LiveLevels(side) |->
            1 + Cardinality({f \in LiveLevels(side) : LevelBefore(side, f, e)})])
    BY DEF CollectSideLevels, InOrder, LiveLevels
  <1>3. [e \in LiveLevels(side) |->
            1 + Cardinality({f \in LiveLevels(side) : LevelBefore(side, f, e)})]
          = Ahead(LiveLevels(side), LevelOrder(side))
    BY <1>1 DEF Ahead
  <1> QED
    BY <1>2, <1>3

\* Every entry is a level to the quoter, with the same price and size.
LEMMA EntryIsLevel ==
    ASSUME TypeOK, NEW side \in Sides, NEW e \in Entries(side)
    PROVE  /\ StateOf(side, e).price = e.price /\ StateOf(side, e).size = e.size
           /\ AsLevel(side, e) \in LiveLevels(side)
  <1> DEFINE x == e.vault
             i == e.level
             p == Rested(x)[RestingSide(side, e)][i]
             state == StateOf(side, e)
             flushed == vaults[x].flush
             overfull == vaults[x].flush /\ FlushSideSumExceedsBps(vaults[x], side)
  <1>1. /\ x \in Vaults /\ i \in Levels /\ e.flipped \in BOOLEAN /\ Quoting(x)
        /\ e = IF e.flipped THEN FlippedEntry(side, x, i) ELSE OwnEntry(side, x, i)
        /\ LevelIsLive(e.price, e.size, p)
    <2>1. e \in EntrySet
      BY EntryFacts
    <2> QED
      BY <2>1, EntryFacts DEF EntrySet
  <1>2. e.size # 0
    BY <1>1 DEF LevelIsLive
  <1>3. e.nonce = vaults[x].stamp
    BY <1>1 DEF FlippedEntry, OwnEntry
  <1>4. /\ state = [price |-> e.price, size |-> e.size,
                    unix_deadline |-> p.unix_deadline, slot_deadline |-> p.slot_deadline]
        /\ IF e.flipped THEN ~flushed ELSE ~overfull
    <2>1. CASE e.flipped
      <3>1. /\ IF flushed THEN FlippedEntry(side, x, i).size = 0
               ELSE FlippedState(x, side, i)
                      = [price |-> FlippedEntry(side, x, i).price,
                         size |-> FlippedEntry(side, x, i).size,
                         unix_deadline |-> Rested(x)[OtherSide(side)][i].unix_deadline,
                         slot_deadline |-> Rested(x)[OtherSide(side)][i].slot_deadline]
        BY <1>1, FlippedLevelState
      <3>2. e = FlippedEntry(side, x, i) /\ state = FlippedState(x, side, i)
            /\ p = Rested(x)[OtherSide(side)][i]
        BY <1>1, <2>1 DEF StateOf, RestingSide
      <3> HIDE DEF x, i, p, state, flushed
      <3> QED
        BY <1>2, <2>1, <3>1, <3>2
    <2>2. CASE ~e.flipped
      <3>1. IF overfull THEN OwnEntry(side, x, i).size = 0
            ELSE LevelState(x, side, i)
                   = [price |-> OwnEntry(side, x, i).price, size |-> OwnEntry(side, x, i).size,
                      unix_deadline |-> Rested(x)[side][i].unix_deadline,
                      slot_deadline |-> Rested(x)[side][i].slot_deadline]
        BY <1>1, OwnLevelState
      <3>2. e = OwnEntry(side, x, i) /\ state = LevelState(x, side, i)
            /\ p = Rested(x)[side][i]
        BY <1>1, <2>2 DEF StateOf, RestingSide
      <3> HIDE DEF x, i, p, state, overfull
      <3> QED
        BY <1>2, <2>2, <3>1, <3>2
    <2> QED
      BY <1>1, <2>1, <2>2
  <1>5. LevelIsLive(state.price, state.size, state)
    <2>1. /\ state.price = e.price /\ state.size = e.size
          /\ state.unix_deadline = p.unix_deadline /\ state.slot_deadline = p.slot_deadline
      <3> HIDE DEF state, p
      <3> QED
        BY <1>4
    <2> HIDE DEF state, p
    <2> QED
      BY <1>1, <2>1 DEF LevelIsLive
  <1>6. AsLevel(side, e) = [sector |-> x, level |-> i, flipped |-> e.flipped, state |-> state,
                            nonce |-> vaults[x].stamp]
    BY <1>3 DEF AsLevel
  <1>7. state = IF e.flipped THEN FlippedState(x, side, i) ELSE LevelState(x, side, i)
    BY DEF StateOf
  <1>8. state.price = e.price /\ state.size = e.size
    <2> HIDE DEF state
    <2> QED
      BY <1>4
  <1> HIDE DEF x, i, p, state
  <1>9. IsOwnLevel(side, AsLevel(side, e)) \/ IsFlippedLevel(side, AsLevel(side, e))
    <2>1. CASE e.flipped
      <3>1. AsLevel(side, e) = [sector |-> x, level |-> i, flipped |-> TRUE,
                                state |-> FlippedState(x, side, i), nonce |-> vaults[x].stamp]
        BY <1>1, <1>6, <1>7, <2>1
      <3>2. Quoting(x) /\ ~vaults[x].flush /\ x \in Vaults /\ i \in Levels
        BY <1>1, <1>4, <2>1
      <3> QED
        BY <3>1, <3>2 DEF IsFlippedLevel
    <2>2. CASE ~e.flipped
      <3>1. AsLevel(side, e) = [sector |-> x, level |-> i, flipped |-> FALSE,
                                state |-> LevelState(x, side, i), nonce |-> vaults[x].stamp]
        BY <1>1, <1>6, <1>7, <2>2
      <3>2. /\ Quoting(x) /\ ~(vaults[x].flush /\ FlushSideSumExceedsBps(vaults[x], side))
            /\ x \in Vaults /\ i \in Levels
        BY <1>1, <1>4, <2>2
      <3> QED
        BY <3>1, <3>2 DEF IsOwnLevel
    <2> QED
      BY <2>1, <2>2
  <1>10. AsLevel(side, e).state = state
    BY <1>6
  <1>11. AsLevel(side, e) \in LiveLevels(side)
    BY <1>5, <1>9, <1>10, LiveLevelsAre
  <1> QED
    BY <1>8, <1>11 DEF state

\* And every level the quoter collects is an entry.
LEMMA LevelIsEntry ==
    ASSUME TypeOK, NEW side \in Sides, NEW l \in LiveLevels(side)
    PROVE  \E e \in Entries(side) : l = AsLevel(side, e)
  <1>1. LevelIsLive(l.state.price, l.state.size, l.state)
    BY LiveLevelsAre
  <1>2. CASE IsOwnLevel(side, l)
    <2>1. PICK x \in Vaults, i \in Levels :
                /\ Quoting(x) /\ ~(vaults[x].flush /\ FlushSideSumExceedsBps(vaults[x], side))
                /\ l = [sector |-> x, level |-> i, flipped |-> FALSE,
                        state |-> LevelState(x, side, i), nonce |-> vaults[x].stamp]
      BY <1>2 DEF IsOwnLevel
    <2> DEFINE e == OwnEntry(side, x, i)
               p == Rested(x)[side][i]
    <2>2. e.vault = x /\ e.level = i /\ e.flipped = FALSE /\ e.nonce = vaults[x].stamp
      BY DEF OwnEntry
    <2>3. LevelState(x, side, i)
            = [price |-> e.price, size |-> e.size,
               unix_deadline |-> p.unix_deadline, slot_deadline |-> p.slot_deadline]
      BY <2>1, OwnLevelState
    <2>4. RestingSide(side, e) = side
      BY <2>2 DEF RestingSide
    <2>5. e \in {OwnEntry(side, y, j) : y \in {z \in Vaults : Quoting(z)}, j \in Levels}
      BY <2>1
    <2> HIDE DEF e, p
    <2>6. LevelIsLive(e.price, e.size, p)
      BY <1>1, <2>1, <2>3 DEF LevelIsLive
    <2>7. e \in Entries(side)
      BY <2>2, <2>4, <2>5, <2>6 DEF Entries, p
    <2>8. l = AsLevel(side, e)
      BY <2>1, <2>2 DEF AsLevel, StateOf
    <2> QED
      BY <2>7, <2>8
  <1>3. CASE IsFlippedLevel(side, l)
    <2>1. PICK x \in Vaults, i \in Levels :
                /\ Quoting(x) /\ ~vaults[x].flush
                /\ l = [sector |-> x, level |-> i, flipped |-> TRUE,
                        state |-> FlippedState(x, side, i), nonce |-> vaults[x].stamp]
      BY <1>3 DEF IsFlippedLevel
    <2> DEFINE e == FlippedEntry(side, x, i)
               p == Rested(x)[OtherSide(side)][i]
    <2>2. e.vault = x /\ e.level = i /\ e.flipped = TRUE /\ e.nonce = vaults[x].stamp
      BY DEF FlippedEntry
    <2>3. FlippedState(x, side, i)
            = [price |-> e.price, size |-> e.size,
               unix_deadline |-> p.unix_deadline, slot_deadline |-> p.slot_deadline]
      BY <2>1, FlippedLevelState
    <2>4. RestingSide(side, e) = OtherSide(side)
      BY <2>2 DEF RestingSide
    <2>5. e \in {FlippedEntry(side, y, j) : y \in {z \in Vaults : Quoting(z)}, j \in Levels}
      BY <2>1
    <2> HIDE DEF e, p
    <2>6. LevelIsLive(e.price, e.size, p)
      BY <1>1, <2>1, <2>3 DEF LevelIsLive
    <2>7. e \in Entries(side)
      BY <2>2, <2>4, <2>5, <2>6 DEF Entries, p
    <2>8. l = AsLevel(side, e)
      BY <2>1, <2>2 DEF AsLevel, StateOf
    <2> QED
      BY <2>7, <2>8
  <1> QED
    BY <1>2, <1>3, LiveLevelsAre

LEMMA SameOrder ==
    ASSUME TypeOK, NEW side \in Sides, NEW a \in Entries(side), NEW b \in Entries(side)
    PROVE  <<AsLevel(side, a), AsLevel(side, b)>> \in LevelOrder(side)
             <=> <<a, b>> \in PriceTime(side)
  <1>1. StateOf(side, a).price = a.price /\ StateOf(side, b).price = b.price
    BY EntryIsLevel
  <1> DEFINE key(l) == <<IF side = "ask" THEN l.state.price ELSE Infinity - l.state.price,
                         l.nonce, l.sector, l.level, IF l.flipped THEN 1 ELSE 0>>
  <1>2. key(AsLevel(side, a)) = Key(side, a) /\ key(AsLevel(side, b)) = Key(side, b)
    BY <1>1 DEF AsLevel, Key
  <1>3. LevelBefore(side, AsLevel(side, a), AsLevel(side, b))
          <=> KeyBefore(key(AsLevel(side, a)), key(AsLevel(side, b)))
    BY DEF LevelBefore, KeyBefore
  <1> HIDE DEF key
  <1>4. LevelBefore(side, AsLevel(side, a), AsLevel(side, b)) <=> <<a, b>> \in PriceTime(side)
    BY <1>2, <1>3, PriceTimeFacts
  <1>5. AsLevel(side, a) \in LiveLevels(side) /\ AsLevel(side, b) \in LiveLevels(side)
    BY EntryIsLevel
  <1> QED
    BY <1>4, <1>5 DEF LevelOrder

\* The quoter walks the levels the swap walks, in the same order.
LEMMA LevelsMirrorHeap ==
    ASSUME TypeOK, NEW side \in Sides, NEW n, n = Cardinality(Entries(side))
    PROVE  /\ DOMAIN CollectSideLevels(side) = 1 .. n
           /\ \A k \in 1 .. n : CollectSideLevels(side)[k] = AsLevel(side, Heap(side)[k])
  <1> DEFINE S == Entries(side)
             T == LiveLevels(side)
             lt == PriceTime(side)
             gt == LevelOrder(side)
             f == [e \in S |-> AsLevel(side, e)]
  <1>1. \A e \in S : AsLevel(side, e) \in T
    BY EntryIsLevel
  <1>2. \A l \in T : \E e \in S : l = AsLevel(side, e)
    BY LevelIsEntry
  <1>3. ASSUME NEW a \in S, NEW b \in S, AsLevel(side, a) = AsLevel(side, b)
        PROVE  a = b
    <2>1. a.vault = b.vault /\ a.level = b.level /\ a.flipped = b.flipped
      BY <1>3 DEF AsLevel
    <2> QED
      BY <2>1, EntriesDiffer
  <1>4. \A a, b \in S : <<AsLevel(side, a), AsLevel(side, b)>> \in gt <=> <<a, b>> \in lt
    BY SameOrder
  <1>5. IsFiniteSet(S) /\ StrictOrder(S, lt)
    BY EntriesFinite, PriceTimeIsStrict
  <1>6. Heap(side) = AntiFunction(Ahead(S, lt)) /\ Heap(side) \in [1 .. n -> S]
    BY HeapLists, HeapFacts
  <1>7. CollectSideLevels(side) = AntiFunction(Ahead(T, gt))
    BY CollectedInOrder
  <1> HIDE DEF S, T, lt, gt
  <1>8. /\ f \in [S -> T] /\ (\A a, b \in S : f[a] = f[b] => a = b)
        /\ (\A t \in T : \E e \in S : f[e] = t)
        /\ \A e \in S : f[e] = AsLevel(side, e)
    BY <1>1, <1>2, <1>3
  <1> HIDE DEF f
  <1>9. f \in Bijection(S, T)
    BY <1>8 DEF Bijection, Injection, Surjection, IsInjective
  <1>10. \A a, b \in S : <<f[a], f[b]>> \in gt <=> <<a, b>> \in lt
    BY <1>4, <1>8
  <1>11. /\ AntiFunction(Ahead(T, gt)) \in [1 .. n -> T]
         /\ \A k \in 1 .. n : AntiFunction(Ahead(T, gt))[k] = f[AntiFunction(Ahead(S, lt))[k]]
    <2>1. n = Cardinality(S)
      BY DEF S
    <2> QED
      BY <1>5, <1>9, <1>10, <2>1, SortedImage
  <1>12. ASSUME NEW k \in 1 .. n
         PROVE  CollectSideLevels(side)[k] = AsLevel(side, Heap(side)[k])
    BY <1>6, <1>7, <1>8, <1>11
  <1> QED
    BY <1>7, <1>11, <1>12

-----------------------------------------------------------------------------
(* The quoter's walk *)

QuoteSet == [taken : [Vaults -> Nat], unfilled : Nat, out : Nat, fee : Nat, legs : Nat,
             done : BOOLEAN]

QuoteStart(amount_in) ==
    [taken |-> [x \in Vaults |-> 0], unfilled |-> amount_in, out |-> 0, fee |-> 0, legs |-> 0,
     done |-> FALSE]

\* The quoter's walk stands where the swap's does: what it counts as taken out of
\* a vault is what the swap has moved.
InStep(q, walk, side) ==
    /\ q \in QuoteSet
    /\ q.unfilled = walk.unfilled /\ q.out = walk.out /\ q.fee = walk.fee
    /\ q.legs = Len(walk.legs) /\ q.done = walk.stopped
    /\ \A x \in Vaults : vaults[x].atoms[LegOf(side)] - q.taken[x] = walk.atoms[x][LegOf(side)]

LEMMA MinOfThree ==
    ASSUME NEW a \in Nat, NEW b \in Nat, NEW c \in Nat
    PROVE  Min({a, b, c}) = Lesser(a, Lesser(b, c))
  <1> DEFINE m == Lesser(a, Lesser(b, c))
  <1>1. m \in {a, b, c} /\ m \in Nat /\ \A y \in {a, b, c} : m <= y
    BY DEF Lesser
  <1> HIDE DEF m
  <1>2. /\ Min({a, b, c}) \in {a, b, c}
        /\ \A y \in {a, b, c} : Min({a, b, c}) <= y
    BY <1>1 DEF Min
  <1>3. Min({a, b, c}) \in Nat /\ Min({a, b, c}) <= m /\ m <= Min({a, b, c})
    BY <1>1, <1>2
  <1> QED
    BY <1>1, <1>3 DEF m

LEMMA StartsInStep ==
    ASSUME TypeOK, NEW side \in Sides, NEW amount_in \in Nat
    PROVE  InStep(QuoteStart(amount_in), WalkStart(amount_in), side)
  <1> DEFINE q == QuoteStart(amount_in)
             walk == WalkStart(amount_in)
  <1>1. /\ walk.unfilled = amount_in /\ walk.out = 0 /\ walk.fee = 0 /\ walk.legs = <<>>
        /\ walk.stopped = FALSE /\ \A x \in Vaults : walk.atoms[x] = vaults[x].atoms
    BY WalkStartFacts
  <1>2. /\ q \in QuoteSet /\ q.unfilled = amount_in /\ q.out = 0 /\ q.fee = 0 /\ q.legs = 0
        /\ q.done = FALSE /\ \A x \in Vaults : q.taken[x] = 0
    BY DEF QuoteStart, QuoteSet
  <1>3. \A x \in Vaults : vaults[x].atoms[LegOf(side)] \in Nat
    BY RestedType, SidesAndLegs DEF Vault
  <1>4. Len(<<>>) = 0
    OBVIOUS
  <1> HIDE DEF q, walk
  <1>5. \A x \in Vaults : vaults[x].atoms[LegOf(side)] - q.taken[x] = walk.atoms[x][LegOf(side)]
    BY <1>1, <1>2, <1>3
  <1> QED
    BY <1>1, <1>2, <1>4, <1>5 DEF InStep, q, walk

\* One level further, both walks stop, pass on or give the same.
LEMMA StepsInStep ==
    ASSUME TypeOK, NEW side \in Sides, NEW limit, NEW walk \in WalkSet, NEW e \in EntrySet,
           Matchable(e.price), NEW l, l.sector = e.vault, l.state.price = e.price,
           l.state.size = e.size, NEW q, InStep(q, walk, side)
    PROVE  InStep(FillLevel(side, limit, q, l), WalkEntry(side, limit, walk, e), side)
  <1> DEFINE x == e.vault
             stock == walk.atoms[x][LegOf(side)]
             cap == OutputFor(side, e.price, walk.unfilled)
             out == Lesser(cap, Lesser(e.size, stock))
             in == InputFor(side, e.price, out)
             fee == (out * TakerFee) \div PPM
             bound == out = cap
             nothing == out = 0 \/ in = 0
             charged == IF bound THEN walk.unfilled ELSE in
             stops == \/ walk.stopped \/ walk.unfilled = 0 \/ Len(walk.legs) >= MaxLegs
                      \/ CrossesLimit(side, e.price, limit) \/ (nothing /\ bound)
             fill == ComputeFill(side, e, walk.unfilled, stock)
             after == WalkEntry(side, limit, walk, e)
             next == FillLevel(side, limit, q, l)
  <1>1. /\ e.price \in 1 .. MaxPrice /\ e.size \in Nat /\ x \in Vaults
        /\ walk.unfilled \in Nat /\ stock \in Nat /\ walk.atoms \in [Vaults -> [Legs -> Nat]]
        /\ walk.out \in Nat /\ walk.fee \in Nat /\ walk.legs \in Seq(LegSet)
        /\ walk.stopped \in BOOLEAN
    BY SidesAndLegs, WalkSetFacts DEF EntrySet, Matchable
  <1>2. /\ q \in QuoteSet /\ q.unfilled = walk.unfilled /\ q.out = walk.out /\ q.fee = walk.fee
        /\ q.legs = Len(walk.legs) /\ q.done = walk.stopped
        /\ \A y \in Vaults : vaults[y].atoms[LegOf(side)] - q.taken[y] = walk.atoms[y][LegOf(side)]
    BY DEF InStep
  <1>3. cap \in Nat
    BY <1>1, ConversionFacts
  <1>4. out \in Nat
    <2> HIDE DEF cap, stock
    <2> QED
      BY <1>1, <1>3 DEF Lesser
  <1>5. in \in Nat
    <2> HIDE DEF out
    <2> QED
      BY <1>1, <1>4, ConversionFacts
  <1>6. fee \in Nat
    <2> HIDE DEF out
    <2>1. (out * TakerFee) \div PPM \in 0 .. out
      BY <1>4, FeeFacts
    <2> QED
      BY <1>4, <2>1
  <1>7. /\ fill.out = out /\ fill.in = in
        /\ fill.fills <=> ~nothing
        /\ fill.exhausted <=> nothing /\ bound
        /\ fill.residue = IF bound THEN walk.unfilled - in ELSE 0
    <2>1. /\ fill.out = out /\ fill.in = in
          /\ fill.fills <=> out > 0 /\ in > 0
          /\ fill.exhausted <=> bound /\ (out = 0 \/ in = 0)
          /\ fill.residue = IF bound THEN walk.unfilled - in ELSE 0
      BY DEF ComputeFill
    <2> HIDE DEF out, in, fill, bound
    <2> QED
      BY <1>4, <1>5, <2>1
  <1>8. after = IF stops THEN [walk EXCEPT !.stopped = TRUE]
                ELSE IF ~nothing THEN FillLeg(side, e, fill, walk) ELSE walk
    <2> HIDE DEF out, in, bound, nothing
    <2> QED
      BY <1>7 DEF WalkEntry
  <1>9. Min({cap, e.size, stock}) = out
    <2> HIDE DEF cap, stock
    <2> QED
      BY <1>1, <1>3, MinOfThree
  <1>10. next = IF stops THEN [q EXCEPT !.done = TRUE]
                ELSE IF nothing THEN q
                ELSE [q EXCEPT !.taken = [q.taken EXCEPT ![x] = q.taken[x] + out],
                               !.unfilled = walk.unfilled - charged,
                               !.out = walk.out + out, !.fee = walk.fee + fee,
                               !.legs = Len(walk.legs) + 1]
    <2> DEFINE given == vaults[x].atoms[LegOf(side)] - q.taken[x]
    <2>1. given = stock
      BY <1>1, <1>2
    <2>2. next =
            LET f == Min({cap, e.size, given})
                i == InputFor(side, e.price, f)
                none == f = 0 \/ i = 0
            IN IF \/ q.done \/ q.unfilled = 0 \/ q.legs >= MaxLegs
                  \/ CrossesLimit(side, e.price, limit) \/ (none /\ f = cap)
               THEN [q EXCEPT !.done = TRUE]
               ELSE IF none THEN q
               ELSE [q EXCEPT !.taken = [q.taken EXCEPT ![x] = q.taken[x] + f],
                              !.unfilled = q.unfilled - (IF f = cap THEN q.unfilled ELSE i),
                              !.out = q.out + f,
                              !.fee = q.fee + (f * TakerFee) \div PPM,
                              !.legs = q.legs + 1]
      BY <1>2 DEF FillLevel, QuoteSet
    <2>3. Min({cap, e.size, given}) = out
      BY <1>9, <2>1
    <2> HIDE DEF given, next, cap
    <2> QED
      BY <1>2, <2>2, <2>3
  <1>11. /\ out <= stock /\ charged \in Nat /\ walk.unfilled - charged \in Nat
         /\ charged = in + fill.residue
    <2>1. /\ fill.out <= stock /\ fill.in + fill.residue <= walk.unfilled
          /\ fill.residue \in Nat
      <3> HIDE DEF stock
      <3> QED
        BY <1>1, FillFacts
    <2> HIDE DEF out, in, stock, fill, bound
    <2>2. charged = in + fill.residue
      BY <1>1, <1>5, <1>7
    <2> HIDE DEF charged
    <2> QED
      BY <1>1, <1>5, <1>7, <2>1, <2>2
  <1>12. CASE stops
    <2>1. after = [walk EXCEPT !.stopped = TRUE] /\ next = [q EXCEPT !.done = TRUE]
      BY <1>8, <1>10, <1>12
    <2> HIDE DEF after, next, stops
    <2>2. /\ after.atoms = walk.atoms /\ after.unfilled = walk.unfilled /\ after.out = walk.out
          /\ after.fee = walk.fee /\ after.legs = walk.legs /\ after.stopped = TRUE
      BY <2>1 DEF WalkSet
    <2>3. /\ next \in QuoteSet /\ next.taken = q.taken /\ next.unfilled = q.unfilled
          /\ next.out = q.out /\ next.fee = q.fee /\ next.legs = q.legs /\ next.done = TRUE
      BY <1>2, <2>1 DEF QuoteSet
    <2>4. InStep(next, after, side)
      BY <1>2, <2>2, <2>3 DEF InStep
    <2> QED
      BY <2>4 DEF next, after
  <1>13. CASE ~stops /\ nothing
    <2>1. after = walk /\ next = q
      <3> HIDE DEF stops, nothing, after, next
      <3> QED
        BY <1>8, <1>10, <1>13
    <2> QED
      BY <2>1
  <1>14. CASE ~stops /\ ~nothing
    <2>1. /\ after = FillLeg(side, e, fill, walk)
          /\ next = [q EXCEPT !.taken = [q.taken EXCEPT ![x] = q.taken[x] + out],
                              !.unfilled = walk.unfilled - charged,
                              !.out = walk.out + out, !.fee = walk.fee + fee,
                              !.legs = Len(walk.legs) + 1]
      <3> HIDE DEF stops, nothing, after, next, fill, out, charged, fee
      <3> QED
        BY <1>8, <1>10, <1>14
    <2> HIDE DEF fill, out, in, charged, after, next, fee
    <2>2. /\ after.atoms = FilledAtoms(walk.atoms, side, e, in, out)
          /\ after.unfilled = walk.unfilled - in - fill.residue
          /\ after.out = walk.out + out
          /\ after.fee = walk.fee + (out * TakerFee) \div PPM
          /\ after.legs = Append(walk.legs, [entry |-> e, in |-> in, out |-> out])
          /\ after.stopped = walk.stopped
      BY <1>7, <2>1 DEF FillLeg, FilledAtoms, WalkSet
    <2>3. (out * TakerFee) \div PPM = fee
      BY DEF fee
    <2>4. after.unfilled = walk.unfilled - charged
      <3> DEFINE r == fill.residue
                 u == walk.unfilled
      <3>1. r \in Int /\ u \in Int /\ in \in Int /\ charged = in + r /\ after.unfilled = u - in - r
        <4>1. r \in Int
          BY <1>1, <1>5, <1>7
        <4> QED
          BY <1>1, <1>5, <1>11, <2>2, <4>1
      <3> HIDE DEF r, u
      <3>2. after.unfilled = u - charged
        BY <3>1
      <3> QED
        BY <3>2 DEF u
    <2>5. Len(after.legs) = Len(walk.legs) + 1 /\ Len(walk.legs) \in Nat
      <3> DEFINE s == walk.legs
                 leg == [entry |-> e, in |-> in, out |-> out]
      <3>1. s \in Seq(LegSet) /\ after.legs = Append(s, leg)
        BY <1>1, <2>2
      <3> HIDE DEF s, leg
      <3>2. Len(Append(s, leg)) = Len(s) + 1 /\ Len(s) \in Nat
        BY <3>1
      <3> QED
        BY <3>1, <3>2 DEF s
    <2>6. /\ \A y \in Vaults \ {x} : after.atoms[y] = walk.atoms[y]
          /\ after.atoms[x][LegOf(side)] = stock - out
      <3> DEFINE w == walk.atoms
      <3>1. w \in [Vaults -> [Legs -> Nat]] /\ out <= w[e.vault][LegOf(side)]
        BY <1>1, <1>11
      <3>2. after.atoms = FilledAtoms(w, side, e, in, out)
        BY <2>2
      <3> HIDE DEF w
      <3>3. /\ \A y \in Vaults \ {e.vault} : FilledAtoms(w, side, e, in, out)[y] = w[y]
            /\ FilledAtoms(w, side, e, in, out)[e.vault][LegOf(side)]
                 = w[e.vault][LegOf(side)] - out
        BY <1>4, <1>5, <3>1, FilledAtomsFacts, SMTT(30)
      <3> QED
        BY <3>2, <3>3, Zenon DEF w
    <2> DEFINE taken == [q.taken EXCEPT ![x] = q.taken[x] + out]
    <2>7. taken \in [Vaults -> Nat] /\ taken[x] = q.taken[x] + out
          /\ \A y \in Vaults \ {x} : taken[y] = q.taken[y]
      <3> DEFINE t == q.taken
      <3>1. t \in [Vaults -> Nat]
        BY <1>2 DEF QuoteSet
      <3> HIDE DEF t
      <3>2. /\ [t EXCEPT ![x] = t[x] + out] \in [Vaults -> Nat]
            /\ [t EXCEPT ![x] = t[x] + out][x] = t[x] + out
            /\ \A y \in Vaults \ {x} : [t EXCEPT ![x] = t[x] + out][y] = t[y]
        BY <1>1, <1>4, <3>1
      <3> QED
        BY <3>2 DEF t
    <2> HIDE DEF taken
    <2>8. /\ next \in QuoteSet /\ next.taken = taken /\ next.unfilled = walk.unfilled - charged
          /\ next.out = walk.out + out /\ next.fee = walk.fee + fee
          /\ next.legs = Len(walk.legs) + 1 /\ next.done = q.done
      <3> DEFINE unfilled == walk.unfilled - charged
                 gave == walk.out + out
                 fees == walk.fee + fee
                 legs == Len(walk.legs) + 1
      <3>1. unfilled \in Nat
        BY <1>11
      <3>2. gave \in Nat
        BY <1>1, <1>4
      <3>3. fees \in Nat
        BY <1>1, <1>6
      <3>4. legs \in Nat
        BY <2>5
      <3>5. next = [q EXCEPT !.taken = taken, !.unfilled = unfilled, !.out = gave, !.fee = fees,
                             !.legs = legs]
        BY <2>1 DEF taken
      <3> HIDE DEF unfilled, gave, fees, legs
      <3>6. /\ next \in QuoteSet /\ next.taken = taken /\ next.unfilled = unfilled
            /\ next.out = gave /\ next.fee = fees /\ next.legs = legs /\ next.done = q.done
        BY <1>2, <2>7, <3>1, <3>2, <3>3, <3>4, <3>5 DEF QuoteSet
      <3> QED
        BY <3>6 DEF unfilled, gave, fees, legs
    <2>9. ASSUME NEW y \in Vaults
          PROVE  vaults[y].atoms[LegOf(side)] - taken[y] = after.atoms[y][LegOf(side)]
      <3> DEFINE had == vaults[y].atoms[LegOf(side)]
                 t == q.taken[y]
      <3>1. had \in Nat
        BY RestedType, SidesAndLegs DEF Vault
      <3>2. t \in Nat
        BY <1>2 DEF QuoteSet
      <3>3. had - t = walk.atoms[y][LegOf(side)]
        BY <1>2
      <3> HIDE DEF had, t
      <3>4. CASE y = x
        <4>1. taken[y] = t + out /\ after.atoms[y][LegOf(side)] = stock - out /\ had - t = stock
          BY <2>6, <2>7, <3>3, <3>4 DEF t
        <4> HIDE DEF stock
        <4>2. had - taken[y] = after.atoms[y][LegOf(side)]
          BY <1>1, <1>4, <3>1, <3>2, <4>1
        <4> QED
          BY <4>2 DEF had
      <3>5. CASE y # x
        <4>1. taken[y] = t /\ after.atoms[y] = walk.atoms[y]
          BY <2>6, <2>7, <3>5 DEF t
        <4> QED
          BY <3>3, <4>1 DEF had
      <3> QED
        BY <3>4, <3>5
    <2>10. InStep(next, after, side)
      BY <1>2, <2>2, <2>3, <2>4, <2>5, <2>8, <2>9 DEF InStep
    <2> QED
      BY <2>10 DEF next, after
  <1> QED
    <2> HIDE DEF stops, nothing, after, next
    <2> QED
      BY <1>12, <1>13, <1>14

\* The two walks end together.
LEMMA WalksEndInStep ==
    ASSUME TypeOK, BookBacked, NEW side \in Sides, NEW limit, NEW amount_in \in Nat
    PROVE  InStep(QuoteOver(side, limit, QuoteStart(amount_in), CollectSideLevels(side)),
                  Walked(side, amount_in, limit), side)
  <1> DEFINE n == Cardinality(Entries(side))
             start == WalkStart(amount_in)
             qstart == QuoteStart(amount_in)
             heap == Heap(side)
             levels == CollectSideLevels(side)
             Holds(walk, k) == WalkInv(walk, start, side, limit, heap, n, k)
             Both(q, walk, k) == Holds(walk, k) /\ InStep(q, walk, side)
  <1>1. n \in Nat /\ DOMAIN heap = 1 .. n /\ DOMAIN levels = 1 .. n
    BY HeapFacts, LevelsMirrorHeap
  <1>2. start \in WalkSet
    BY WalkStartFacts
  <1>3. Both(qstart, start, 0)
    BY WalkStartsRight, StartsInStep
  <1>4. ASSUME NEW k \in 1 .. n, NEW walk, NEW q, Both(q, walk, k - 1)
        PROVE  Both(FillLevel(side, limit, q, levels[k]), WalkEntry(side, limit, walk, heap[k]), k)
    <2>1. Holds(WalkEntry(side, limit, walk, heap[k]), k)
      BY <1>2, <1>4, WalkStepKeeps
    <2> DEFINE e == heap[k]
               l == levels[k]
    <2>2. e \in Entries(side) /\ l = AsLevel(side, e)
      BY HeapFacts, LevelsMirrorHeap
    <2>3. walk \in WalkSet /\ InStep(q, walk, side)
      BY <1>4 DEF WalkInv, WalkTyped
    <2> HIDE DEF e, l
    <2>4. e \in EntrySet /\ Matchable(e.price)
      BY <2>2, EntryFacts
    <2>5. l.sector = e.vault /\ l.state.price = e.price /\ l.state.size = e.size
      <3>1. l.sector = e.vault /\ l.state = StateOf(side, e)
        BY <2>2 DEF AsLevel
      <3> QED
        BY <2>2, <3>1, EntryIsLevel
    <2>6. InStep(FillLevel(side, limit, q, l), WalkEntry(side, limit, walk, e), side)
      BY <2>3, <2>4, <2>5, StepsInStep
    <2> QED
      BY <2>1, <2>6 DEF e, l
  <1>5. Walked(side, amount_in, limit) = WalkOver(side, limit, start, heap)
    BY DEF Walked, WalkStart, WalkOver
  <1> HIDE DEF start, qstart, heap, levels, n, Both
  <1>6. PICK acc : /\ IsTrace(acc, "swap", side, limit, start, heap, n)
                   /\ acc[n] = WalkOver(side, limit, start, heap)
    BY <1>1, WalkTraced
  <1>7. PICK qcc : /\ IsTrace(qcc, "quote", side, limit, qstart, levels, n)
                   /\ qcc[n] = QuoteOver(side, limit, qstart, levels)
    BY <1>1, QuoteTraced
  <1> DEFINE T == {k \in Nat : k <= n => Both(qcc[k], acc[k], k)}
  <1>8. 0 \in T
    BY <1>3, <1>6, <1>7 DEF IsTrace
  <1>9. ASSUME NEW k \in Nat, k \in T
        PROVE  k + 1 \in T
    <2>1. CASE k + 1 <= n
      <3>1. k + 1 \in 1 .. n /\ (k + 1) - 1 = k /\ Both(qcc[k], acc[k], k)
        BY <1>1, <1>9, <2>1
      <3>2. acc[k + 1] = WalkEntry(side, limit, acc[k], heap[k + 1])
        BY <1>6, <3>1 DEF IsTrace, Step
      <3>3. qcc[k + 1] = FillLevel(side, limit, qcc[k], levels[k + 1])
        BY <1>7, <3>1 DEF IsTrace, Step
      <3>4. Both(qcc[k + 1], acc[k + 1], k + 1)
        BY <1>4, <3>1, <3>2, <3>3
      <3> QED
        BY <3>4
    <2>2. CASE ~(k + 1 <= n)
      BY <2>2
    <2> QED
      BY <2>1, <2>2
  <1>10. \A k \in Nat : k \in T
    <2> HIDE DEF T
    <2> QED
      BY <1>8, <1>9, NatSetInduction
  <1>11. Both(qcc[n], acc[n], n)
    BY <1>1, <1>10
  <1> QED
    BY <1>5, <1>6, <1>7, <1>11 DEF Both, qstart, levels

\* What the quoter answers, from the walk of the swap it foretells.
LEMMA QuoteOfWalk ==
    ASSUME TypeOK, BookBacked, NEW side \in Sides, NEW limit, NEW amount_in \in Nat \ {0},
           NEW bps, limit # IF side = "ask" THEN 0 ELSE Infinity,
           NEW walk, walk = Walked(side, amount_in, limit),
           NEW q, q = SimulateSwap(side, amount_in, limit, bps)
    PROVE  IF walk.legs = <<>> THEN q.legs = 0
           ELSE /\ q.in_amount = amount_in - walk.unfilled
                /\ q.out_amount = AchievableOut(walk, bps)
                /\ q.fee_amount = walk.fee
                /\ q.platform_fee_amount = PlatformFee(walk, bps)
                /\ q.legs = Len(walk.legs) /\ q.legs # 0
  <1> DEFINE over == QuoteOver(side, limit, QuoteStart(amount_in), CollectSideLevels(side))
             net == over.out - over.fee
             platform_fee == (net * bps) \div BPS
  <1>1. InStep(over, walk, side)
    BY WalksEndInStep
  <1>2. q = IF over.legs = 0 THEN EmptyQuote
            ELSE [in_amount |-> amount_in - over.unfilled, out_amount |-> net - platform_fee,
                  fee_amount |-> over.fee, platform_fee_amount |-> platform_fee,
                  legs |-> over.legs]
    BY Zenon DEF SimulateSwap, QuoteOver, QuoteStart
  <1> HIDE DEF over
  <1>3. /\ over.unfilled = walk.unfilled /\ over.out = walk.out /\ over.fee = walk.fee
        /\ over.legs = Len(walk.legs)
    BY <1>1 DEF InStep
  <1>4. walk.legs \in Seq(LegSet)
    BY WalkEnds, WalkSetFacts
  <1>5. Len(walk.legs) = 0 <=> walk.legs = <<>>
    <2> DEFINE s == walk.legs
    <2>1. s \in Seq(LegSet)
      BY <1>4
    <2> HIDE DEF s
    <2>2. Len(s) = 0 <=> s = <<>>
      BY <2>1
    <2> QED
      BY <2>2 DEF s
  <1>6. net = NetOfTakerFee(walk) /\ platform_fee = PlatformFee(walk, bps)
        /\ net - platform_fee = AchievableOut(walk, bps)
    BY <1>3 DEF NetOfTakerFee, PlatformFee, AchievableOut
  <1> HIDE DEF net, platform_fee
  <1>7. CASE walk.legs = <<>>
    BY <1>2, <1>3, <1>5, <1>7 DEF EmptyQuote
  <1>8. CASE walk.legs # <<>>
    BY <1>2, <1>3, <1>5, <1>6, <1>8
  <1> QED
    BY <1>7, <1>8

\* What a swap gives, against what the quoter answered.
PaysTheQuote(side, amount_in, limit, min_out, bps) ==
    LET q == SimulateSwap(side, amount_in, limit, bps)
        out_leg == LegOf(side)
        r == receipt'
    IN IF r.legs = <<>>
       THEN q.legs = 0 \/ q.out_amount < min_out
       ELSE /\ q.in_amount = r.paid /\ q.out_amount = r.got /\ q.legs = Len(r.legs)
            /\ q.fee_amount = accrued_fee'[out_leg] - accrued_fee[out_leg]
            /\ q.out_amount + q.platform_fee_amount = treasury[out_leg] - treasury'[out_leg]

LEMMA SwapPaysTheQuote ==
    ASSUME BookIInv, NEW side \in Sides, NEW amount_in \in Nat \ {0}, NEW limit,
           NEW min_out \in Nat, NEW bps \in PlatformFees,
           Swap(side, amount_in, limit, min_out, bps)
    PROVE  PaysTheQuote(side, amount_in, limit, min_out, bps)
  <1> DEFINE walk == Walked(side, amount_in, limit)
             q == SimulateSwap(side, amount_in, limit, bps)
             leg == LegOf(side)
             in_leg == LegOf(OtherSide(side))
             net == NetOfTakerFee(walk)
             platform_fee == PlatformFee(walk, bps)
             got == AchievableOut(walk, bps)
  <1>1. TypeOK /\ BookBacked
    BY DEF BookIInv
  <1>2. limit # IF side = "ask" THEN 0 ELSE Infinity
    BY DEF Swap
  <1>3. IF walk.legs = <<>> THEN q.legs = 0
        ELSE /\ q.in_amount = amount_in - walk.unfilled /\ q.out_amount = got
             /\ q.fee_amount = walk.fee /\ q.platform_fee_amount = platform_fee
             /\ q.legs = Len(walk.legs) /\ q.legs # 0
    BY <1>1, <1>2, QuoteOfWalk
  <1>4. walk \in WalkSet /\ walk.fee <= walk.out
    BY <1>1, WalkEnds
  <1>5. /\ Commits(walk, bps, min_out) =>
              CommitSwap(side, amount_in, limit, min_out, bps, walk)
        /\ ~Commits(walk, bps, min_out) => RevertSwap(side, amount_in, limit, min_out)
    BY DEF Swap
  <1>6. leg \in Legs /\ in_leg \in Legs /\ leg # in_leg
    BY SidesAndLegs
  <1>7. treasury \in [Legs -> Nat] /\ accrued_fee \in [Legs -> Nat]
    BY <1>1 DEF TypeOK
  <1> HIDE DEF walk, q, leg, in_leg
  <1>8. net \in Nat /\ platform_fee \in Nat /\ got = net - platform_fee
        /\ walk.fee \in Nat
    <2> DEFINE out == walk.out
               fee == walk.fee
    <2>1. out \in Nat /\ fee \in Nat /\ fee <= out /\ net = out - fee
      BY <1>4, WalkSetFacts DEF NetOfTakerFee
    <2> HIDE DEF out, fee
    <2>2. net \in Nat
      BY <2>1
    <2>3. bps \in Nat /\ BPS \in Nat \ {0}
      BY BookAssumption
    <2>4. platform_fee = (net * bps) \div BPS /\ got = net - platform_fee
      BY DEF PlatformFee, AchievableOut
    <2> HIDE DEF net, platform_fee, got
    <2>5. net * bps \in Nat
      BY <2>2, <2>3
    <2>6. (net * bps) \div BPS \in Nat
      BY <2>3, <2>5, DivFacts
    <2> QED
      BY <2>1, <2>2, <2>4, <2>6 DEF fee
  <1>9. CASE Commits(walk, bps, min_out)
    <2>1. walk.legs # <<>>
      BY <1>9 DEF Commits
    <2>2. CommitSwap(side, amount_in, limit, min_out, bps, walk)
      BY <1>5, <1>9
    <2>3. /\ receipt'.legs = walk.legs /\ receipt'.paid = amount_in - walk.unfilled
          /\ receipt'.got = got
      BY <2>2 DEF CommitSwap
    <2>4. accrued_fee'[leg] - accrued_fee[leg] = walk.fee
      <3> DEFINE a == accrued_fee
                 fee == walk.fee
      <3>1. a \in [Legs -> Nat] /\ fee \in Nat /\ accrued_fee' = [a EXCEPT ![leg] = a[leg] + fee]
        BY <1>7, <1>8, <2>2 DEF CommitSwap, leg
      <3> HIDE DEF a, fee
      <3>2. [a EXCEPT ![leg] = a[leg] + fee][leg] = a[leg] + fee /\ a[leg] \in Nat
        BY <1>6, <3>1
      <3>3. (a[leg] + fee) - a[leg] = fee
        BY <3>1, <3>2
      <3> QED
        BY <3>1, <3>2, <3>3 DEF a, fee
    <2>5. treasury[leg] - treasury'[leg] = net
      <3> DEFINE t == treasury
                 paid == amount_in - walk.unfilled
      <3>1. treasury' = [t EXCEPT ![in_leg] = @ + paid, ![leg] = @ - net]
        BY <2>2 DEF CommitSwap, leg, in_leg
      <3>2. t \in [Legs -> Nat]
        BY <1>7
      <3> HIDE DEF t, paid, net
      <3>3. treasury'[leg] = t[leg] - net
        BY <1>6, <3>1, <3>2
      <3>4. t[leg] \in Nat /\ net \in Nat
        BY <1>6, <1>8, <3>2
      <3>5. t[leg] - (t[leg] - net) = net
        BY <3>4
      <3> QED
        BY <3>3, <3>5 DEF t
    <2>6. got + platform_fee = net
      <3> HIDE DEF got, net, platform_fee
      <3> QED
        BY <1>8
    <2> HIDE DEF got, net, platform_fee
    <2> QED
      BY <1>3, <2>1, <2>3, <2>4, <2>5, <2>6 DEF PaysTheQuote, q, leg
  <1>10. CASE ~Commits(walk, bps, min_out)
    <2>1. receipt'.legs = <<>>
      <3>1. RevertSwap(side, amount_in, limit, min_out)
        BY <1>5, <1>10
      <3> QED
        BY <3>1 DEF RevertSwap, NoReceipt
    <2>2. walk.legs = <<>> \/ ~(got >= min_out)
      BY <1>10 DEF Commits
    <2>3. CASE walk.legs = <<>>
      BY <1>3, <2>1, <2>3 DEF PaysTheQuote, q
    <2>4. CASE walk.legs # <<>>
      <3>1. q.out_amount = got /\ ~(got >= min_out)
        BY <1>3, <2>2, <2>4
      <3> HIDE DEF got, net, platform_fee
      <3>2. got < min_out
        BY <1>8, <3>1
      <3> QED
        BY <2>1, <3>1, <3>2 DEF PaysTheQuote, q
    <2> QED
      BY <2>3, <2>4
  <1> QED
    BY <1>9, <1>10

\* The quoter's answer on a snapshot is the swap's outcome on it: input, output,
\* both fees and the number of legs, or that the taker gets nothing.
THEOREM QuoterForetellsSwaps == Spec => QuoteIsWhatTheSwapPays
  <1> DEFINE Foretold ==
               LET r == receipt' IN
               r.amount_in > 0 =>
                  \A bps \in PlatformFees :
                     Swap(r.side, r.amount_in, r.limit, r.min_out, bps) =>
                        PaysTheQuote(r.side, r.amount_in, r.limit, r.min_out, bps)
  <1>1. ASSUME BookIInv, Next PROVE Foretold
    <2>1. SUFFICES ASSUME receipt'.amount_in > 0, NEW bps \in PlatformFees,
                          Swap(receipt'.side, receipt'.amount_in, receipt'.limit,
                               receipt'.min_out, bps)
                   PROVE  PaysTheQuote(receipt'.side, receipt'.amount_in, receipt'.limit,
                                       receipt'.min_out, bps)
      OBVIOUS
    <2>2. PICK side \in Sides, amount_in \in AmountsIn, limit \in Limits, min_out \in MinOuts,
               fee \in PlatformFees : Swap(side, amount_in, limit, min_out, fee)
      BY <1>1, <2>1, OnlySwapsReport
    <2>3. /\ receipt'.side = side /\ receipt'.amount_in = amount_in
          /\ receipt'.limit = limit /\ receipt'.min_out = min_out
      <3> DEFINE walk == Walked(side, amount_in, limit)
      <3>1. \/ CommitSwap(side, amount_in, limit, min_out, fee, walk)
            \/ RevertSwap(side, amount_in, limit, min_out)
        BY <2>2 DEF Swap
      <3> HIDE DEF walk
      <3>2. CASE CommitSwap(side, amount_in, limit, min_out, fee, walk)
        BY <3>2 DEF CommitSwap
      <3>3. CASE RevertSwap(side, amount_in, limit, min_out)
        BY <3>3 DEF RevertSwap, NoReceipt
      <3> QED
        BY <3>1, <3>2, <3>3
    <2>4. amount_in \in Nat \ {0} /\ min_out \in Nat
      BY BookAssumption
    <2>5. Swap(side, amount_in, limit, min_out, bps)
      BY <2>1, <2>3
    <2>6. PaysTheQuote(side, amount_in, limit, min_out, bps)
      BY <1>1, <2>4, <2>5, SwapPaysTheQuote
    <2> QED
      BY <2>3, <2>6
  <1>2. BookIInv /\ [Next]_bookVars => [Foretold]_bookVars
    BY <1>1
  <1> QED
    BY <1>2, BookInductive, PTL DEF Spec, QuoteIsWhatTheSwapPays, PaysTheQuote
=============================================================================
