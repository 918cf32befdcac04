--------------------------- MODULE IndexerProofs ---------------------------
(***************************************************************************)
(* What the indexer keeps through every crash, for any ledger and any page *)
(* size: the walk tiles the window above the cursor, so the tables are a   *)
(* prefix of the ledger but for what a growing tip page lost, and so the   *)
(* aggregator's watermark passes no leg of a slot it has not seen whole.   *)
(***************************************************************************)
EXTENDS Indexer, FiniteSetTheorems, SequenceTheorems, TLAPS

\* Each page ends where the newer one starts, and is no longer than a page.
Tiled(keys) ==
    \A i \in 1 .. Len(keys) :
        IF i = 1 THEN keys[i].before = AtTip
        ELSE keys[i].before = keys[i].newest + 1 /\ keys[i - 1].newest <= keys[i].newest + BatchLimit

\* The walk that found these pages goes on below them, above the cursor.
GoesOn(keys, before) ==
    /\ last_signature < before
    /\ IF keys = <<>> THEN before = AtTip
       ELSE before <= keys[Len(keys)].newest /\ keys[Len(keys)].newest < before + BatchLimit

\* The pages of an unfinished walk leave no gap, those of a finished one reach
\* down to the cursor.
WalkCovers ==
    /\ Tiled(pending)
    /\ ~reached_bound => GoesOn(pending, walk_before)
    /\ reached_bound /\ pending # <<>>
         => pending[Len(pending)].newest <= last_signature + BatchLimit
    /\ IF pc = "walk"
       THEN ~reached_bound /\ Tiled(segment.keys) /\ GoesOn(segment.keys, segment.before)
       ELSE segment = NoSegment

\* Up to the cursor everything is in the tables, in the batch or cut; and the
\* tables are a prefix of the ledger but for the cut.
PrefixStored ==
    /\ pc = "commit" => /\ batch.records \in SUBSET (1 .. last_signature)
                        /\ 1 .. last_signature \subseteq rows \cup cut \cup batch.records
    /\ pc # "commit" => 1 .. last_signature \subseteq rows \cup cut
    /\ \A t \in rows : 1 .. t \subseteq rows \cup cut

\* The watermark is a stored leg's; behind it takes are whole, and so are those
\* upserted on the way to the next one.
FoldKeepsUp ==
    /\ \/ watermark = [slot |-> 0, ordinal |-> 0, sig |-> 0]
       \/ \E leg \in LegsOf(rows) : watermark = Key(leg)
    /\ \A t \in upserted : takes[t] = LegCount[t]
    /\ pc = "mark" => Touched \subseteq upserted

\* The inductive invariant.
IInv == TypeOK /\ WalkCovers /\ PrefixStored /\ LeftBehindOnlyAtTheTip /\ FoldKeepsUp /\ TakesAreWhole

-----------------------------------------------------------------------------
(* Pages *)

\* A page is a run of transactions above the cursor.
LEMMA PageIsARun ==
    ASSUME TypeOK, NEW before \in 1 .. AtTip
    PROVE  /\ Newest(before) \in 0 .. tip /\ Newest(before) < before
           /\ Oldest(before) \in Nat /\ last_signature < Oldest(before)
           /\ Page(before) # {} <=> Oldest(before) <= Newest(before)
           /\ Page(before) = {} => Newest(before) <= last_signature
           /\ Page(before) # {} => /\ Newest(before) \in Txs /\ last_signature < Newest(before)
                                   /\ Oldest(before) \in Txs
                                   /\ Newest(before) < Oldest(before) + BatchLimit
  <1>1. /\ tip \in Nat /\ tip <= MaxTx /\ last_signature \in Nat /\ before \in Nat /\ 1 <= before
        /\ BatchLimit \in Nat /\ 0 < BatchLimit /\ MaxTx \in Nat
    BY BoundsAssumption, LimitAssumption DEF TypeOK, AtTip
  <1>2. Newest(before) \in Nat /\ Newest(before) <= tip /\ Newest(before) < before
    BY <1>1 DEF Newest, Lesser
  <1> DEFINE n == Newest(before)
             start == n + 1 - Lesser(BatchLimit, n)
  <1>3. start \in Nat /\ start <= n + 1 /\ 1 <= start /\ n < start + BatchLimit
        /\ (start = 1 \/ n + 1 = start + BatchLimit)
    <2>1. n \in Nat
      BY <1>2
    <2> HIDE DEF n
    <2> QED
      BY <1>1, <2>1 DEF Lesser
  <1>4. Oldest(before) = Greater(last_signature + 1, start)
    BY DEF Oldest
  <1>5. /\ Oldest(before) \in Nat /\ last_signature < Oldest(before)
        /\ n < Oldest(before) + BatchLimit
        /\ (n < Oldest(before) => n <= last_signature)
    <2> HIDE DEF n, start
    <2>1. n \in Nat
      BY <1>2 DEF n
    <2> QED
      BY <1>1, <1>3, <1>4, <2>1 DEF Greater
  <1>6. Page(before) # {} <=> Oldest(before) <= Newest(before)
    BY <1>2, <1>5 DEF Page
  <1> QED
    BY <1>1, <1>2, <1>5, <1>6 DEF Txs

\* A short page is one that reaches down to the cursor.
LEMMA ShortPageReaches ==
    ASSUME TypeOK, NEW before \in 1 .. AtTip, IsShort(before)
    PROVE  Newest(before) < last_signature + BatchLimit
  <1>1. /\ Newest(before) \in Nat /\ last_signature \in Nat
        /\ BatchLimit \in Nat /\ 0 < BatchLimit
    BY PageIsARun, LimitAssumption DEF TypeOK
  <1> DEFINE n == Newest(before)
             start == n + 1 - Lesser(BatchLimit, n)
  <1>2. start \in Nat /\ (start = 1 \/ n + 1 = start + BatchLimit)
    <2>1. n \in Nat
      BY <1>1
    <2> HIDE DEF n
    <2> QED
      BY <1>1, <2>1 DEF Lesser
  <1>3. Oldest(before) = Greater(last_signature + 1, start) /\ n + 1 < Oldest(before) + BatchLimit
    BY DEF Oldest, IsShort
  <1> HIDE DEF start
  <1> QED
    BY <1>1, <1>2, <1>3 DEF Greater

\* A full page is not empty.
LEMMA FullPageIsNotEmpty ==
    ASSUME TypeOK, NEW before \in 1 .. AtTip, ~IsShort(before)
    PROVE  Page(before) # {}
  BY PageIsARun, LimitAssumption DEF IsShort, TypeOK

\* What a walk that goes on finds next leaves no gap either, and the walk goes
\* on below it.
LEMMA WalkTiles ==
    ASSUME TypeOK, pc = "walk", WalkCovers
    PROVE  LET before == segment.before
               keys == Extended(before)
           IN /\ Queued(keys) /\ Tiled(keys)
              /\ NextBefore(before) \in 1 .. AtTip
              /\ Page(before) # {} => GoesOn(keys, NextBefore(before))
              /\ IsShort(before) /\ keys # <<>>
                   => keys[Len(keys)].newest <= last_signature + BatchLimit
  <1> DEFINE before == segment.before
             found == segment.keys
             keys == Extended(before)
  <1>1. /\ before \in 1 .. AtTip /\ Queued(found) /\ Tiled(found) /\ GoesOn(found, before)
        /\ last_signature \in 0 .. tip /\ tip \in 0 .. MaxTx
    BY DEF TypeOK, WalkCovers
  <1>2. CASE Page(before) = {}
    <2>1. keys = found /\ NextBefore(before) = before
      BY <1>2 DEF Extended, NextBefore
    <2>2. ASSUME keys # <<>> PROVE keys[Len(keys)].newest <= last_signature + BatchLimit
      <3>1. before <= found[Len(found)].newest /\ found[Len(found)].newest < before + BatchLimit
        BY <1>1, <2>1, <2>2 DEF GoesOn
      <3>2. found \in Seq(PageKey) /\ Len(found) \in 1 .. Len(found)
        BY <1>1, <2>1, <2>2, EmptySeq, LenProperties DEF Queued
      <3>3. found[Len(found)].newest \in Txs /\ found[Len(found)].newest <= tip
        <4>1. found[Len(found)] \in PageKey
          BY <3>2, ElementOfSeq
        <4> QED
          BY <1>1, <3>2, <4>1 DEF Queued, PageKey
      <3>4. Newest(before) <= last_signature
        BY <1>1, <1>2, PageIsARun
      <3>5. before <= last_signature + 1
        BY <1>1, <3>1, <3>3, <3>4, BoundsAssumption DEF Newest, Lesser, AtTip, Txs
      <3> QED
        BY <1>1, <2>1, <3>1, <3>3, <3>5, BoundsAssumption, LimitAssumption DEF AtTip, Txs
    <2> QED
      BY <1>1, <1>2, <2>1, <2>2
  <1>3. CASE Page(before) # {}
    <2> DEFINE key == [before |-> before, newest |-> Newest(before)]
    <2>1. /\ Newest(before) \in Txs /\ Newest(before) <= tip /\ Newest(before) < before
          /\ last_signature < Newest(before) /\ last_signature < Oldest(before)
          /\ Oldest(before) \in Txs /\ Oldest(before) <= Newest(before)
          /\ Newest(before) < Oldest(before) + BatchLimit
      BY <1>1, <1>3, PageIsARun DEF Txs
    <2>2. key \in PageKey
      BY <1>1, <2>1 DEF PageKey
    <2>3. found \in Seq(PageKey) /\ Len(found) \in Nat
      BY <1>1, LenProperties DEF Queued
    <2>4. /\ keys = Append(found, key) /\ keys \in Seq(PageKey)
          /\ Len(keys) = Len(found) + 1 /\ keys[Len(keys)] = key /\ keys # <<>>
          /\ \A i \in 1 .. Len(found) : keys[i] = found[i]
      <3>1. keys = Append(found, key)
        BY <1>3 DEF Extended
      <3> HIDE DEF keys, key, found
      <3> QED
        BY <2>2, <2>3, <3>1, AppendProperties
    <2>5. \A i \in 1 .. Len(found) :
             /\ found[i].newest \in Txs /\ found[i].before \in 1 .. AtTip
             /\ Newest(before) < found[i].newest
      <3> SUFFICES ASSUME NEW i \in 1 .. Len(found)
                   PROVE  /\ found[i].newest \in Txs /\ found[i].before \in 1 .. AtTip
                          /\ Newest(before) < found[i].newest
        OBVIOUS
      <3>1. found[i] \in PageKey /\ found[Len(found)] \in PageKey /\ found # <<>>
        BY <2>3, ElementOfSeq, EmptySeq
      <3>2. before <= found[Len(found)].newest
        BY <1>1, <3>1 DEF GoesOn
      <3>3. i < Len(found) => found[Len(found)].newest < found[i].newest
        BY <1>1, <2>3 DEF Queued
      <3>4. /\ found[i].newest \in Txs /\ found[i].before \in 1 .. AtTip
            /\ found[Len(found)].newest \in Txs
        BY <3>1 DEF PageKey
      <3>5. Newest(before) < found[Len(found)].newest
        BY <1>1, <2>1, <3>2, <3>4 DEF Txs
      <3>6. CASE i < Len(found)
        BY <2>1, <3>3, <3>4, <3>5, <3>6 DEF Txs
      <3>7. CASE i = Len(found)
        BY <3>4, <3>5, <3>7
      <3> QED
        BY <2>3, <3>4, <3>6, <3>7
    <2>6. Queued(keys)
      <3>1. \A i \in 1 .. Len(keys) : i \in 1 .. Len(found) \/ (i = Len(keys) /\ keys[i] = key)
        BY <2>3, <2>4
      <3>2. \A i \in 1 .. Len(keys) :
              /\ last_signature < keys[i].newest /\ keys[i].newest <= tip
              /\ keys[i].newest < keys[i].before
        BY <1>1, <2>1, <2>4, <3>1 DEF Queued
      <3>3. \A i, j \in 1 .. Len(keys) : i < j => keys[j].newest < keys[i].newest
        <4> SUFFICES ASSUME NEW i \in 1 .. Len(keys), NEW j \in 1 .. Len(keys), i < j
                     PROVE  keys[j].newest < keys[i].newest
          OBVIOUS
        <4>1. i \in 1 .. Len(found)
          BY <2>3, <2>4
        <4>2. CASE j \in 1 .. Len(found)
          BY <1>1, <2>4, <4>1, <4>2 DEF Queued
        <4>3. CASE keys[j] = key
          BY <2>4, <2>5, <4>1, <4>3
        <4> QED
          BY <3>1, <4>2, <4>3
      <3> QED
        BY <2>4, <3>2, <3>3 DEF Queued
    <2>7. Tiled(keys)
      <3> SUFFICES ASSUME NEW i \in 1 .. Len(keys)
                   PROVE  IF i = 1 THEN keys[i].before = AtTip
                          ELSE /\ keys[i].before = keys[i].newest + 1
                               /\ keys[i - 1].newest <= keys[i].newest + BatchLimit
        BY DEF Tiled
      <3>1. CASE i \in 1 .. Len(found)
        <4>1. i # 1 => i - 1 \in 1 .. Len(found)
          BY <2>3, <3>1
        <4> QED
          BY <1>1, <2>4, <3>1, <4>1 DEF Tiled
      <3>2. CASE i = Len(found) + 1 /\ i = 1
        <4>1. found = <<>>
          BY <2>3, <3>2, EmptySeq
        <4> QED
          BY <1>1, <2>4, <3>2, <4>1 DEF GoesOn
      <3>3. CASE i = Len(found) + 1 /\ i # 1
        <4>1. i - 1 = Len(found) /\ i - 1 \in 1 .. Len(found) /\ found # <<>>
          BY <2>3, <3>3, EmptySeq
        <4>2. before <= found[i - 1].newest /\ found[i - 1].newest < before + BatchLimit
          BY <1>1, <4>1 DEF GoesOn
        <4>3. found[i - 1].newest \in Txs /\ found[i - 1].newest <= tip
          BY <1>1, <2>5, <4>1 DEF Queued
        <4>4. Newest(before) = before - 1
          BY <1>1, <4>2, <4>3 DEF Newest, Lesser, AtTip, Txs
        <4> QED
          BY <1>1, <2>4, <3>3, <4>1, <4>2, <4>3, <4>4, LimitAssumption DEF AtTip, Txs
      <3> QED
        BY <2>3, <2>4, <3>1, <3>2, <3>3
    <2>8. NextBefore(before) = Oldest(before) /\ Oldest(before) \in 1 .. AtTip
      BY <1>3, <2>1, BoundsAssumption DEF NextBefore, AtTip, Txs
    <2>9. GoesOn(keys, NextBefore(before))
      BY <2>1, <2>4, <2>8 DEF GoesOn
    <2>10. IsShort(before) => keys[Len(keys)].newest <= last_signature + BatchLimit
      BY <1>1, <2>1, <2>4, ShortPageReaches, LimitAssumption DEF Txs
    <2> QED
      BY <2>6, <2>7, <2>8, <2>9, <2>10
  <1> QED
    BY <1>2, <1>3

-----------------------------------------------------------------------------
(* Legs *)

\* The order of the legs' keys is linear.
LEMMA BeforeIsLinear ==
    ASSUME NEW a \in [slot : Nat, ordinal : Nat, sig : Nat],
           NEW b \in [slot : Nat, ordinal : Nat, sig : Nat],
           NEW c \in [slot : Nat, ordinal : Nat, sig : Nat]
    PROVE  /\ Before(a, b) => ~Before(b, a)
           /\ Before(a, b) /\ Before(b, c) => Before(a, c)
           /\ ~Before(b, a) /\ Before(c, a) => Before(c, b)
  BY DEF Before

LEMMA LegsAreKeyed ==
    ASSUME NEW txs, NEW leg \in LegsOf(txs)
    PROVE  /\ leg[1] \in txs /\ leg[1] \in Txs
           /\ Key(leg) \in [slot : Nat, ordinal : Nat, sig : Nat] /\ 0 < Key(leg).slot
           /\ Key(leg).slot = Slot[leg[1]]
  <1>1. leg[1] \in txs /\ leg[1] \in Txs /\ leg[2] \in Nat
    BY BoundsAssumption DEF LegsOf
  <1>2. Slot[leg[1]] \in Nat \ {0} /\ SigRank[leg[1]] \in Nat
    BY <1>1, LedgerAssumption
  <1> QED
    BY <1>1, <1>2 DEF Key

\* A fold takes the first legs past the watermark: with a leg, every one that
\* is not after it.
LEMMA FoldTakesThemInOrder ==
    ASSUME TypeOK, NEW last \in NewFills, NEW leg \in FillsAfter,
           ~Before(Key(last), Key(leg))
    PROVE  leg \in NewFills
  <1> DEFINE Ahead(l) == {m \in FillsAfter : Before(Key(m), Key(l))}
  <1>1. FillsAfter \subseteq LegsOf(rows) /\ last \in FillsAfter
    BY DEF FillsAfter, NewFills
  <1>2. Ahead(leg) \subseteq Ahead(last)
    BY <1>1, LegsAreKeyed, BeforeIsLinear
  <1>3. IsFiniteSet(Ahead(last))
    <2>1. IsFiniteSet(Txs \X (0 .. MaxLegs))
      <3>1. IsFiniteSet(Txs)
        BY FS_Interval, BoundsAssumption DEF Txs
      <3>2. IsFiniteSet(0 .. MaxLegs)
        BY FS_Interval, BoundsAssumption
      <3> QED
        BY <3>1, <3>2, FS_Product
    <2>2. Ahead(last) \subseteq Txs \X (0 .. MaxLegs)
      BY DEF FillsAfter, LegsOf
    <2> QED
      BY <2>1, <2>2, FS_Subset
  <1>4. /\ Cardinality(Ahead(leg)) <= Cardinality(Ahead(last))
        /\ Cardinality(Ahead(leg)) \in Nat /\ Cardinality(Ahead(last)) \in Nat
    BY <1>2, <1>3, FS_Subset, FS_CardinalityType
  <1>5. Cardinality(Ahead(last)) < BatchLimit
    BY DEF NewFills
  <1>6. Cardinality(Ahead(leg)) < BatchLimit
    BY <1>4, <1>5, LimitAssumption
  <1> QED
    BY <1>6 DEF NewFills

-----------------------------------------------------------------------------
(* Steps that leave a part alone *)

\* The tables stay, and at most the cut grows.
LEMMA FoldStays ==
    ASSUME FoldKeepsUp, TakesAreWhole, pc' # "mark" \/ pc = "mark",
           rows' = rows, cut \subseteq cut', watermark' = watermark, takes' = takes,
           upserted' = upserted \/ (upserted' = {} /\ pc' # "mark")
    PROVE  FoldKeepsUp' /\ TakesAreWhole'
  <1>1. LegsOf(rows)' = LegsOf(rows) /\ LegsOf(rows \ cut)' \subseteq LegsOf(rows \ cut)
    BY DEF LegsOf
  <1>2. Touched' = Touched
    BY DEF Touched, NewFills, FillsAfter, LegsOf, Key, Before
  <1>3. FoldKeepsUp'
    BY <1>1, <1>2 DEF FoldKeepsUp, Key
  <1>4. TakesAreWhole'
    BY <1>1 DEF TakesAreWhole, Alone, Passed, Key, Before
  <1> QED
    BY <1>3, <1>4

\* Neither the tables nor the cursors change, and no batch is due.
LEMMA StoreStays ==
    ASSUME PrefixStored, LeftBehindOnlyAtTheTip, pc # "commit", pc' # "commit",
           rows' = rows, cut' = cut, saved' = saved, last_signature' = last_signature
    PROVE  PrefixStored' /\ LeftBehindOnlyAtTheTip'
  BY DEF PrefixStored, LeftBehindOnlyAtTheTip

\* Nothing is in the batch yet.
LEMMA StoreStaysEmpty ==
    ASSUME PrefixStored, LeftBehindOnlyAtTheTip, pc # "commit", batch' = EmptyBatch,
           rows' = rows, cut' = cut, saved' = saved, last_signature' = last_signature
    PROVE  PrefixStored' /\ LeftBehindOnlyAtTheTip'
  BY DEF PrefixStored, LeftBehindOnlyAtTheTip, EmptyBatch

\* The source's view of the window does not change.
LEMMA WalkStays ==
    ASSUME WalkCovers, UNCHANGED sourceVars, pc # "walk", pc' # "walk"
    PROVE  WalkCovers'
  BY DEF WalkCovers, sourceVars, Tiled, GoesOn

-----------------------------------------------------------------------------
(* The inductive invariant *)

LEMMA InitEstablishes == Init => IInv
  <1> SUFFICES ASSUME Init PROVE IInv
    OBVIOUS
  <1> USE BoundsAssumption, LimitAssumption DEF Init, NoSegment, EmptyBatch, AtTip, Txs
  <1>1. <<>> \in Seq(PageKey) /\ Len(<<>>) = 0
    BY EmptySeq
  <1>2. TypeOK
    <2>1. Queued(pending) /\ Queued(segment.keys)
      BY <1>1 DEF Queued
    <2>2. watermark \in [slot : Nat, ordinal : Nat, sig : Nat]
      OBVIOUS
    <2>3. takes \in [Txs -> Nat] /\ rollup \in [Txs -> Nat]
      OBVIOUS
    <2>4. /\ segment.before \in 1 .. AtTip /\ segment.calls \in 0 .. MaxPages - 1
          /\ walk_before \in 1 .. AtTip
      OBVIOUS
    <2>5. batch.records \in SUBSET (1 .. tip) /\ batch.cursor \in 0 .. last_signature
      OBVIOUS
    <2>6. /\ tip \in 0 .. MaxTx /\ last_signature \in 0 .. tip /\ saved \in 0 .. last_signature
          /\ faults \in 0 .. MaxFaults
      OBVIOUS
    <2>7. /\ rows \in SUBSET (1 .. tip) /\ cut \in SUBSET (1 .. tip) /\ upserted \in SUBSET rows
          /\ reached_bound \in BOOLEAN
          /\ pc \in {"poll", "walk", "commit", "save", "fold", "mark"}
      OBVIOUS
    <2> QED
      BY <2>1, <2>2, <2>3, <2>4, <2>5, <2>6, <2>7 DEF TypeOK
  <1>3. WalkCovers
    BY <1>1 DEF WalkCovers, Tiled, GoesOn
  <1>4. PrefixStored /\ LeftBehindOnlyAtTheTip
    BY DEF PrefixStored, LeftBehindOnlyAtTheTip
  <1>5. LegsOf(rows) = {} /\ LegsOf(rows \ cut) = {}
    BY DEF LegsOf
  <1>6. FoldKeepsUp
    BY <1>5 DEF FoldKeepsUp
  <1>7. TakesAreWhole
    BY <1>5 DEF TakesAreWhole
  <1> QED
    BY <1>2, <1>3, <1>4, <1>6, <1>7 DEF IInv

LEMMA BeginWalkStep == IInv /\ BeginWalk => IInv'
  <1> SUFFICES ASSUME IInv, BeginWalk PROVE IInv'
    OBVIOUS
  <1>1. TypeOK'
    BY LimitAssumption DEF IInv, BeginWalk, TypeOK, Queued, foldVars
  <1>2. WalkCovers'
    BY DEF IInv, BeginWalk, WalkCovers, Tiled, GoesOn
  <1>3. PrefixStored' /\ LeftBehindOnlyAtTheTip'
    BY StoreStays DEF IInv, BeginWalk
  <1>4. FoldKeepsUp' /\ TakesAreWhole'
    BY FoldStays DEF IInv, BeginWalk, foldVars
  <1> QED
    BY <1>1, <1>2, <1>3, <1>4 DEF IInv

LEMMA WalkOnStep == IInv /\ WalkOn => IInv'
  <1> SUFFICES ASSUME IInv, WalkOn PROVE IInv'
    OBVIOUS
  <1>1. TypeOK /\ WalkCovers /\ pc = "walk"
    BY DEF IInv, WalkOn
  <1>2. Page(segment.before) # {}
    BY <1>1, FullPageIsNotEmpty DEF WalkOn, TypeOK
  <1>3. /\ Queued(segment'.keys) /\ Tiled(segment'.keys) /\ GoesOn(segment'.keys, segment'.before)
        /\ segment'.before \in 1 .. AtTip
    BY <1>1, <1>2, WalkTiles DEF WalkOn
  <1>4. segment'.calls \in 0 .. MaxPages - 1
    BY <1>1, LimitAssumption DEF WalkOn, TypeOK
  <1>5. TypeOK'
    BY <1>1, <1>3, <1>4 DEF WalkOn, TypeOK, Queued, foldVars
  <1>6. WalkCovers'
    BY <1>1, <1>3 DEF WalkOn, WalkCovers, Tiled, GoesOn
  <1>7. PrefixStored' /\ LeftBehindOnlyAtTheTip'
    BY StoreStays DEF IInv, WalkOn
  <1>8. FoldKeepsUp' /\ TakesAreWhole'
    BY FoldStays DEF IInv, WalkOn, foldVars
  <1> QED
    BY <1>5, <1>6, <1>7, <1>8 DEF IInv

LEMMA WalkYieldsStep == IInv /\ WalkYields => IInv'
  <1> SUFFICES ASSUME IInv, WalkYields PROVE IInv'
    OBVIOUS
  <1>1. TypeOK /\ WalkCovers /\ pc = "walk" /\ pc' = "commit"
    BY DEF IInv, WalkYields, Return
  <1>2. Page(segment.before) # {}
    BY <1>1, FullPageIsNotEmpty DEF WalkYields, TypeOK
  <1>3. /\ Queued(pending') /\ Tiled(pending') /\ GoesOn(pending', walk_before')
        /\ walk_before' \in 1 .. AtTip
    BY <1>1, <1>2, WalkTiles DEF WalkYields, Extend
  <1>4. /\ segment' = NoSegment /\ batch' = EmptyBatch /\ reached_bound' = FALSE
        /\ UNCHANGED <<tip, last_signature, rows, saved, cut, faults>>
        /\ UNCHANGED <<watermark, takes, rollup, upserted>>
    BY DEF WalkYields, Extend, Return, foldVars
  <1>5. <<>> \in Seq(PageKey) /\ Len(<<>>) = 0
    BY EmptySeq
  <1>6. TypeOK'
    <2>1. Queued(pending)'
      BY <1>3, <1>4 DEF Queued
    <2>2. Queued(segment.keys)'
      BY <1>4, <1>5 DEF Queued, NoSegment
    <2>3. segment'.before \in 1 .. AtTip /\ segment'.calls \in 0 .. MaxPages - 1
      BY <1>4, BoundsAssumption, LimitAssumption DEF NoSegment, AtTip
    <2>4. batch'.records \in SUBSET (1 .. tip) /\ batch'.cursor \in 0 .. last_signature
      BY <1>1, <1>4 DEF TypeOK, EmptyBatch
    <2> QED
      BY <1>1, <1>3, <1>4, <2>1, <2>2, <2>3, <2>4 DEF TypeOK
  <1>7. WalkCovers'
    BY <1>1, <1>3, <1>4 DEF WalkCovers, Tiled, GoesOn
  <1>8. PrefixStored' /\ LeftBehindOnlyAtTheTip'
    BY <1>1, <1>4, StoreStaysEmpty DEF IInv
  <1>9. FoldKeepsUp' /\ TakesAreWhole'
    BY <1>1, <1>4, FoldStays DEF IInv
  <1> QED
    BY <1>6, <1>7, <1>8, <1>9 DEF IInv

LEMMA WalkReachesStep == IInv /\ WalkReaches => IInv'
  <1> SUFFICES ASSUME IInv, WalkReaches PROVE IInv'
    OBVIOUS
  <1>1. TypeOK /\ WalkCovers /\ pc = "walk" /\ pc' = "poll" /\ IsShort(segment.before)
    BY DEF IInv, WalkReaches
  <1>2. /\ Queued(pending') /\ Tiled(pending') /\ walk_before' \in 1 .. AtTip
        /\ pending' # <<>> => pending'[Len(pending')].newest <= last_signature + BatchLimit
    BY <1>1, WalkTiles DEF WalkReaches, Extend
  <1>3. /\ segment' = NoSegment /\ reached_bound' = TRUE
        /\ UNCHANGED <<tip, last_signature, batch, rows, saved, cut, faults>>
        /\ UNCHANGED <<watermark, takes, rollup, upserted>>
    BY DEF WalkReaches, Extend, foldVars
  <1>4. <<>> \in Seq(PageKey) /\ Len(<<>>) = 0
    BY EmptySeq
  <1>5. TypeOK'
    <2>1. Queued(pending)'
      BY <1>2, <1>3 DEF Queued
    <2>2. Queued(segment.keys)'
      BY <1>3, <1>4 DEF Queued, NoSegment
    <2>3. segment'.before \in 1 .. AtTip /\ segment'.calls \in 0 .. MaxPages - 1
      BY <1>3, BoundsAssumption, LimitAssumption DEF NoSegment, AtTip
    <2> QED
      BY <1>1, <1>2, <1>3, <2>1, <2>2, <2>3 DEF TypeOK
  <1>6. WalkCovers'
    BY <1>1, <1>2, <1>3 DEF WalkCovers, Tiled
  <1>7. PrefixStored' /\ LeftBehindOnlyAtTheTip'
    BY <1>1, <1>3, StoreStays DEF IInv
  <1>8. FoldKeepsUp' /\ TakesAreWhole'
    BY <1>1, <1>3, FoldStays DEF IInv
  <1> QED
    BY <1>5, <1>6, <1>7, <1>8 DEF IInv

LEMMA WalkFailsStep == IInv /\ WalkFails => IInv'
  <1> SUFFICES ASSUME IInv, WalkFails PROVE IInv'
    OBVIOUS
  <1>1. TypeOK /\ WalkCovers /\ pc = "walk" /\ pc' = "poll"
    BY DEF IInv, WalkFails
  <1>2. /\ segment' = NoSegment
        /\ UNCHANGED <<tip, last_signature, walk_before, pending, reached_bound, batch, rows,
                       saved, cut>>
        /\ UNCHANGED <<watermark, takes, rollup, upserted>>
        /\ faults' \in 0 .. MaxFaults
    BY <1>1, LimitAssumption DEF WalkFails, foldVars, TypeOK
  <1>3. <<>> \in Seq(PageKey) /\ Len(<<>>) = 0
    BY EmptySeq
  <1>4. TypeOK'
    <2>1. Queued(pending)'
      BY <1>1, <1>2 DEF Queued, TypeOK
    <2>2. Queued(segment.keys)'
      BY <1>2, <1>3 DEF Queued, NoSegment
    <2>3. segment'.before \in 1 .. AtTip /\ segment'.calls \in 0 .. MaxPages - 1
      BY <1>2, BoundsAssumption, LimitAssumption DEF NoSegment, AtTip
    <2> QED
      BY <1>1, <1>2, <2>1, <2>2, <2>3 DEF TypeOK
  <1>5. WalkCovers'
    BY <1>1, <1>2 DEF WalkCovers, Tiled, GoesOn
  <1>6. PrefixStored' /\ LeftBehindOnlyAtTheTip'
    BY <1>1, <1>2, StoreStays DEF IInv
  <1>7. FoldKeepsUp' /\ TakesAreWhole'
    BY <1>1, <1>2, FoldStays DEF IInv
  <1> QED
    BY <1>4, <1>5, <1>6, <1>7 DEF IInv

\* The page that is due reaches down to the cursor, but for what the tip has
\* pushed off it.
LEMMA PageIsComplete ==
    ASSUME TypeOK, WalkCovers, pc = "poll", reached_bound, pending # <<>>,
           NEW t \in last_signature + 1 .. OldestPage.newest
    PROVE  \/ t \in Page(OldestPage.before)
           \/ OldestPage.before = AtTip /\ OldestPage.newest < t + BatchLimit
  <1> DEFINE key == OldestPage
  <1>1. /\ key \in PageKey /\ last_signature < key.newest /\ key.newest <= tip
        /\ key.newest <= last_signature + BatchLimit
        /\ key.before = AtTip \/ key.before = key.newest + 1
    <2>1. Len(pending) \in 1 .. Len(pending) /\ pending \in Seq(PageKey)
      BY EmptySeq, LenProperties DEF TypeOK, Queued
    <2>2. key \in PageKey
      BY <2>1, ElementOfSeq DEF OldestPage
    <2> QED
      BY <2>1, <2>2 DEF TypeOK, Queued, WalkCovers, Tiled, OldestPage
  <1>2. /\ tip \in Nat /\ tip <= MaxTx /\ last_signature \in Nat /\ MaxTx \in Nat
        /\ BatchLimit \in Nat /\ 0 < BatchLimit /\ key.newest \in Nat /\ t \in Nat
        /\ last_signature < t /\ t <= key.newest
    BY <1>1, BoundsAssumption, LimitAssumption DEF TypeOK, PageKey, Txs
  <1>3. CASE key.before = AtTip
    BY <1>1, <1>2, <1>3
  <1>4. CASE key.before = key.newest + 1
    <2>1. Newest(key.before) = key.newest
      BY <1>1, <1>2, <1>4 DEF Newest, Lesser
    <2>2. Oldest(key.before) = last_signature + 1
      <3> HIDE DEF key
      <3>1. key.newest + 1 - Lesser(BatchLimit, key.newest) <= last_signature + 1
        BY <1>1, <1>2 DEF Lesser
      <3>2. key.newest + 1 - Lesser(BatchLimit, key.newest) \in Nat
        BY <1>1, <1>2 DEF Lesser
      <3> QED
        BY <1>2, <2>1, <3>1, <3>2 DEF Oldest, Greater
    <2> QED
      BY <1>1, <1>2, <2>1, <2>2 DEF Page
  <1> QED
    BY <1>1, <1>3, <1>4

LEMMA EmitStep == IInv /\ Emit => IInv'
  <1> SUFFICES ASSUME IInv, Emit PROVE IInv'
    OBVIOUS
  <1> DEFINE key == OldestPage
             n == Len(pending)
             emitted == {t \in Page(key.before) : t <= key.newest}
             pushed == {t \in last_signature + 1 .. key.newest :
                          t \notin Page(key.before) /\ key.newest < t + BatchLimit}
  <1>1. /\ TypeOK /\ WalkCovers /\ PrefixStored /\ LeftBehindOnlyAtTheTip
        /\ pc = "poll" /\ reached_bound /\ pending # <<>>
    BY DEF IInv, Emit
  <1>2. /\ pc' = "commit" /\ batch' = [records |-> emitted, cursor |-> key.newest]
        /\ last_signature' = key.newest
        /\ cut' = IF key.before = AtTip THEN cut \cup pushed ELSE cut
        /\ pending' = SubSeq(pending, 1, n - 1)
        /\ UNCHANGED <<tip, walk_before, reached_bound, segment, rows, saved, faults>>
        /\ UNCHANGED <<watermark, takes, rollup, upserted>>
    BY DEF Emit, Return, foldVars
  <1>3. /\ n \in Nat /\ 1 <= n /\ pending \in Seq(PageKey) /\ key = pending[n]
        /\ \A i \in 1 .. n : pending[i] \in PageKey /\ pending[i].newest \in Nat
    <2>1. n \in Nat /\ n # 0 /\ pending \in Seq(PageKey)
      BY <1>1, EmptySeq, LenProperties DEF TypeOK, Queued
    <2>2. \A i \in 1 .. n : pending[i] \in PageKey
      BY <2>1, ElementOfSeq
    <2>3. \A i \in 1 .. n : pending[i].newest \in Nat
      BY <2>2 DEF PageKey, Txs
    <2> QED
      BY <2>1, <2>2, <2>3 DEF OldestPage
  <1>4. /\ \A i \in 1 .. n : /\ last_signature < pending[i].newest /\ pending[i].newest <= tip
                             /\ pending[i].newest < pending[i].before
        /\ \A i, j \in 1 .. n : i < j => pending[j].newest < pending[i].newest
        /\ \A i \in 1 .. n :
              IF i = 1 THEN pending[1].before = AtTip
              ELSE /\ pending[i].before = pending[i].newest + 1
                   /\ pending[i - 1].newest <= pending[i].newest + BatchLimit
    BY <1>1 DEF TypeOK, Queued, WalkCovers, Tiled
  <1>3a. /\ key \in PageKey /\ key.newest \in Nat /\ last_signature < key.newest
         /\ key.newest <= tip /\ tip \in Nat /\ last_signature \in Nat
    <2>1. n \in 1 .. n
      BY <1>3
    <2>2. tip \in Nat /\ last_signature \in Nat
      BY <1>1, BoundsAssumption DEF TypeOK
    <2> HIDE DEF n, key
    <2> QED
      BY <1>3, <1>4, <2>1, <2>2
  <1>4a. /\ pending' \in Seq(PageKey) /\ Len(pending') = n - 1
         /\ \A i \in 1 .. n - 1 : pending'[i] = pending[i]
    <2>1. 1 \in 1 .. Len(pending) + 1 /\ n - 1 \in 1 - 1 .. Len(pending)
      BY <1>3
    <2> HIDE DEF n
    <2>2. n \in Nat /\ 1 <= n /\ pending \in Seq(PageKey) /\ pending' = SubSeq(pending, 1, n - 1)
      BY <1>2, <1>3
    <2>3. /\ SubSeq(pending, 1, n - 1) \in Seq(PageKey)
          /\ Len(SubSeq(pending, 1, n - 1)) = n - 1
      BY <2>1, <2>2, SubSeqProperties
    <2>4. \A i \in 1 .. n - 1 : SubSeq(pending, 1, n - 1)[i] = pending[i]
      BY <2>1, <2>2, SubSeqProperties
    <2> QED
      BY <2>2, <2>3, <2>4
  <1>5. emitted \subseteq last_signature + 1 .. key.newest
    <2>1. key.before \in 1 .. AtTip
      BY <1>3a DEF PageKey
    <2> QED
      BY <1>1, <1>3a, <2>1, PageIsARun DEF Page
  <1>6. last_signature + 1 .. key.newest \subseteq emitted \cup cut'
    BY <1>1, <1>2, PageIsComplete
  <1>7. emitted \in SUBSET (1 .. key.newest) /\ pushed \in SUBSET (1 .. tip)
    BY <1>3a, <1>5
  <1>8. cut \subseteq cut' /\ cut' \in SUBSET (1 .. tip)
    BY <1>1, <1>2, <1>7 DEF TypeOK
  <1>9. TypeOK'
    <2>1. Queued(pending)'
      <3> HIDE DEF n, key
      <3>1. \A i \in 1 .. n - 1 : key.newest < pending[i].newest /\ i \in 1 .. n
        BY <1>3, <1>4
      <3>2. \A i \in 1 .. Len(pending') :
              /\ last_signature' < pending'[i].newest /\ pending'[i].newest <= tip'
              /\ pending'[i].newest < pending'[i].before
        BY <1>2, <1>3, <1>4, <1>4a, <3>1
      <3>3. \A i, j \in 1 .. Len(pending') : i < j => pending'[j].newest < pending'[i].newest
        BY <1>4, <1>4a, <3>1
      <3> QED
        BY <1>4a, <3>2, <3>3 DEF Queued
    <2>2. Queued(segment.keys)'
      <3>1. <<>> \in Seq(PageKey) /\ Len(<<>>) = 0
        BY EmptySeq
      <3>2. segment'.keys = <<>>
        BY <1>1, <1>2 DEF WalkCovers, NoSegment
      <3> QED
        BY <3>1, <3>2 DEF Queued
    <2>3. last_signature' \in 0 .. tip' /\ saved' \in 0 .. last_signature'
      BY <1>1, <1>2, <1>3a DEF TypeOK
    <2>4. batch'.records \in SUBSET (1 .. tip') /\ batch'.cursor \in 0 .. last_signature'
      BY <1>2, <1>3a, <1>7
    <2> QED
      BY <1>1, <1>2, <1>8, <2>1, <2>2, <2>3, <2>4 DEF TypeOK
  <1>10. WalkCovers'
    <2>1. Tiled(pending')
      <3> HIDE DEF n
      <3>1. \A i \in 1 .. n - 1 : i \in 1 .. n /\ (i # 1 => i - 1 \in 1 .. n - 1)
        BY <1>3
      <3> QED
        BY <1>4, <1>4a, <3>1 DEF Tiled
    <2>2. ASSUME pending' # <<>>
          PROVE  pending'[Len(pending')].newest <= last_signature' + BatchLimit
      <3> HIDE DEF n, key
      <3>1. Len(pending') # 0
        BY <1>4a, <2>2, EmptySeq
      <3>2. n \in 1 .. n /\ n # 1 /\ n - 1 \in 1 .. n - 1
        BY <1>3, <1>4a, <3>1
      <3> QED
        BY <1>2, <1>3, <1>4, <1>4a, <3>2
    <2> QED
      BY <1>1, <1>2, <2>1, <2>2 DEF WalkCovers, Tiled
  <1>11. PrefixStored' /\ LeftBehindOnlyAtTheTip'
    <2>1. 1 .. last_signature \subseteq rows \cup cut
      BY <1>1 DEF PrefixStored
    <2>2. 1 .. key.newest \subseteq rows \cup cut' \cup emitted
      BY <1>3a, <1>6, <1>8, <2>1
    <2> QED
      BY <1>1, <1>2, <1>7, <1>8, <2>2 DEF PrefixStored, LeftBehindOnlyAtTheTip
  <1>12. FoldKeepsUp' /\ TakesAreWhole'
    BY <1>1, <1>2, <1>8, FoldStays DEF IInv
  <1> QED
    BY <1>9, <1>10, <1>11, <1>12 DEF IInv

\* A walk that starts over has found nothing yet, wherever the cursor is.
LEMMA FreshWalk ==
    ASSUME TypeOK, RestartWalk, pc' # "walk", last_signature' \in 0 .. tip, tip' = tip
    PROVE  /\ Queued(pending)' /\ Queued(segment.keys)' /\ WalkCovers'
           /\ walk_before' \in 1 .. AtTip /\ reached_bound' = FALSE
           /\ segment'.before \in 1 .. AtTip /\ segment'.calls \in 0 .. MaxPages - 1
  <1>1. <<>> \in Seq(PageKey) /\ Len(<<>>) = 0
    BY EmptySeq
  <1>2. /\ pending' = <<>> /\ reached_bound' = FALSE /\ walk_before' = AtTip
        /\ segment' = NoSegment
    BY DEF RestartWalk
  <1>3. AtTip \in 1 .. AtTip /\ last_signature' < AtTip
    BY BoundsAssumption DEF AtTip, TypeOK
  <1>4. Queued(pending)' /\ Queued(segment.keys)'
    BY <1>1, <1>2 DEF Queued, NoSegment
  <1>5. WalkCovers'
    BY <1>1, <1>2, <1>3 DEF WalkCovers, Tiled, GoesOn
  <1>6. segment'.before \in 1 .. AtTip /\ segment'.calls \in 0 .. MaxPages - 1
    BY <1>2, <1>3, LimitAssumption DEF NoSegment
  <1> QED
    BY <1>2, <1>3, <1>4, <1>5, <1>6

LEMMA StartOverStep == IInv /\ (EmitRestarts \/ Idle) => IInv'
  <1> SUFFICES ASSUME IInv, EmitRestarts \/ Idle PROVE IInv'
    OBVIOUS
  <1>1. /\ TypeOK /\ RestartWalk /\ pc = "poll" /\ pc' = "commit" /\ batch' = EmptyBatch
        /\ UNCHANGED <<tip, last_signature, rows, saved, cut, faults>>
        /\ UNCHANGED <<watermark, takes, rollup, upserted>>
    BY DEF IInv, EmitRestarts, Idle, Return, foldVars
  <1>2. last_signature' \in 0 .. tip
    BY <1>1 DEF TypeOK
  <1>3. batch'.records \in SUBSET (1 .. tip') /\ batch'.cursor \in 0 .. last_signature'
    BY <1>1 DEF EmptyBatch, TypeOK
  <1>4. TypeOK'
    BY <1>1, <1>2, <1>3, FreshWalk DEF TypeOK
  <1>5. WalkCovers'
    BY <1>1, <1>2, FreshWalk
  <1>6. PrefixStored' /\ LeftBehindOnlyAtTheTip'
    BY <1>1, StoreStaysEmpty DEF IInv
  <1>7. FoldKeepsUp' /\ TakesAreWhole'
    BY <1>1, FoldStays DEF IInv
  <1> QED
    BY <1>4, <1>5, <1>6, <1>7 DEF IInv

LEMMA CrashStep == IInv /\ Crash => IInv'
  <1> SUFFICES ASSUME IInv, Crash PROVE IInv'
    OBVIOUS
  <1>1. /\ TypeOK /\ RestartWalk /\ pc' = "poll" /\ batch' = EmptyBatch /\ upserted' = {}
        /\ last_signature' = saved
        /\ UNCHANGED <<tip, rows, saved, watermark, takes, rollup, cut>>
    BY DEF IInv, Crash
  <1>2. last_signature' \in 0 .. tip /\ saved' \in 0 .. last_signature'
    BY <1>1, BoundsAssumption DEF TypeOK
  <1>3. batch'.records \in SUBSET (1 .. tip') /\ batch'.cursor \in 0 .. last_signature'
    BY <1>1, <1>2 DEF EmptyBatch
  <1>4. faults' \in 0 .. MaxFaults
    BY <1>1, LimitAssumption DEF Crash, TypeOK
  <1>5. TypeOK'
    BY <1>1, <1>2, <1>3, <1>4, FreshWalk DEF TypeOK
  <1>6. WalkCovers'
    BY <1>1, <1>2, FreshWalk
  <1>7. PrefixStored' /\ LeftBehindOnlyAtTheTip'
    BY <1>1 DEF IInv, PrefixStored, LeftBehindOnlyAtTheTip
  <1>8. FoldKeepsUp' /\ TakesAreWhole'
    BY <1>1, FoldStays DEF IInv
  <1> QED
    BY <1>5, <1>6, <1>7, <1>8 DEF IInv

\* Steps of the sinks leave the source as it is.
LEMMA SourceStays ==
    ASSUME TypeOK, WalkCovers, UNCHANGED <<tip, sourceVars>>, pc # "walk", pc' # "walk"
    PROVE  /\ WalkCovers' /\ Queued(pending)' /\ Queued(segment.keys)'
           /\ UNCHANGED <<last_signature, walk_before, pending, reached_bound, segment>>
  <1>1. UNCHANGED <<tip, last_signature, walk_before, pending, reached_bound, segment>>
    BY DEF sourceVars
  <1>2. Queued(pending)' /\ Queued(segment.keys)'
    BY <1>1 DEF TypeOK, Queued
  <1> QED
    BY <1>1, <1>2, WalkStays

LEMMA CommitStep == IInv /\ Commit => IInv'
  <1> SUFFICES ASSUME IInv, Commit PROVE IInv'
    OBVIOUS
  <1>1. /\ TypeOK /\ WalkCovers /\ PrefixStored /\ LeftBehindOnlyAtTheTip /\ FoldKeepsUp
        /\ TakesAreWhole /\ pc = "commit" /\ pc' = "save"
        /\ rows' = rows \cup batch.records
        /\ UNCHANGED <<tip, sourceVars, batch, saved, foldVars, cut, faults>>
    BY DEF IInv, Commit
  <1>2. UNCHANGED <<last_signature, walk_before, pending, reached_bound, segment>>
        /\ WalkCovers' /\ Queued(pending)' /\ Queued(segment.keys)'
    BY <1>1, SourceStays
  <1>3. UNCHANGED <<watermark, takes, rollup, upserted>>
    BY <1>1 DEF foldVars
  <1>4. TypeOK'
    <2>1. rows' \in SUBSET (1 .. tip) /\ upserted' \in SUBSET rows'
      BY <1>1, <1>3 DEF TypeOK
    <2> QED
      BY <1>1, <1>2, <1>3, <2>1 DEF TypeOK
  <1>5. PrefixStored' /\ LeftBehindOnlyAtTheTip'
    <2>1. 1 .. last_signature \subseteq rows' \cup cut
      BY <1>1 DEF PrefixStored
    <2>2. \A t \in batch.records : 1 .. t \subseteq rows' \cup cut
      BY <1>1, <2>1 DEF PrefixStored, TypeOK
    <2>3. \A t \in rows' : 1 .. t \subseteq rows' \cup cut
      BY <1>1, <2>2 DEF PrefixStored
    <2> QED
      BY <1>1, <1>2, <2>1, <2>3 DEF PrefixStored, LeftBehindOnlyAtTheTip
  <1>6. LegsOf(rows) \subseteq LegsOf(rows')
    BY <1>1 DEF LegsOf
  <1>7. FoldKeepsUp'
    <2>1. LegsOf(rows)' = LegsOf(rows')
      BY DEF LegsOf
    <2>2. \A leg : Key(leg)' = Key(leg)
      BY DEF Key
    <2> QED
      BY <1>1, <1>3, <1>6, <2>1, <2>2 DEF FoldKeepsUp
  <1>8. TakesAreWhole'
    <2>1. ASSUME NEW leg \in LegsOf(rows' \ cut), Alone(leg[1]), Passed(leg)
          PROVE  takes[leg[1]] = LegCount[leg[1]]
      <3>1. /\ leg[1] \in rows' \ cut /\ leg[1] \in Txs
            /\ Key(leg) \in [slot : Nat, ordinal : Nat, sig : Nat] /\ 0 < Key(leg).slot
            /\ Key(leg).slot = Slot[leg[1]]
        BY <2>1, LegsAreKeyed
      <3>2. CASE leg[1] \in rows
        <4>1. leg \in LegsOf(rows \ cut)
          BY <2>1, <3>1, <3>2 DEF LegsOf
        <4> QED
          BY <1>1, <2>1, <4>1 DEF TakesAreWhole
      <3>3. CASE leg[1] \notin rows
        <4>1. ASSUME watermark = [slot |-> 0, ordinal |-> 0, sig |-> 0] PROVE FALSE
          BY <2>1, <3>1, <4>1 DEF Passed, Before
        <4>2. ASSUME NEW old \in LegsOf(rows), watermark = Key(old) PROVE FALSE
          <5>1. /\ old[1] \in rows /\ old[1] \in Txs
                /\ Key(old).slot = Slot[old[1]]
            BY LegsAreKeyed
          <5>2. old[1] < leg[1]
            BY <1>1, <3>1, <3>3, <5>1, BoundsAssumption DEF PrefixStored, Txs
          <5>3. Slot[old[1]] < Slot[leg[1]]
            <6>1. Slot[old[1]] <= Slot[leg[1]]
              BY <3>1, <5>1, <5>2, LedgerAssumption, BoundsAssumption DEF Txs
            <6>2. Slot[old[1]] # Slot[leg[1]]
              BY <2>1, <3>1, <5>1, <5>2, BoundsAssumption DEF Alone, Txs
            <6> QED
              BY <3>1, <5>1, <6>1, <6>2, LedgerAssumption
          <5> QED
            BY <2>1, <3>1, <4>2, <5>1, <5>3 DEF Passed, Before
        <4> QED
          BY <1>1, <4>1, <4>2 DEF FoldKeepsUp
      <3> QED
        BY <3>2, <3>3
    <2>2. LegsOf(rows \ cut)' = LegsOf(rows' \ cut)
      BY <1>1 DEF LegsOf
    <2>3. \A leg : Passed(leg)' <=> Passed(leg)
      BY <1>3 DEF Passed, Key, Before
    <2>4. \A t : Alone(t)' <=> Alone(t)
      BY DEF Alone
    <2> QED
      BY <1>1, <1>3, <2>1, <2>2, <2>3, <2>4 DEF TakesAreWhole
  <1> QED
    BY <1>2, <1>4, <1>5, <1>7, <1>8 DEF IInv

LEMMA SaveCursorStep == IInv /\ SaveCursor => IInv'
  <1> SUFFICES ASSUME IInv, SaveCursor PROVE IInv'
    OBVIOUS
  <1>1. /\ TypeOK /\ WalkCovers /\ pc = "save" /\ pc' = "fold"
        /\ batch' = EmptyBatch /\ UNCHANGED <<tip, sourceVars, rows, cut, faults>>
        /\ UNCHANGED <<watermark, takes, rollup, upserted>>
        /\ saved' \in 0 .. last_signature
    BY DEF IInv, SaveCursor, foldVars, TypeOK
  <1>2. UNCHANGED <<last_signature, walk_before, pending, reached_bound, segment>>
        /\ WalkCovers' /\ Queued(pending)' /\ Queued(segment.keys)'
    BY <1>1, SourceStays
  <1>3. batch'.records \in SUBSET (1 .. tip') /\ batch'.cursor \in 0 .. last_signature'
    BY <1>1, <1>2 DEF EmptyBatch, TypeOK
  <1>4. TypeOK'
    BY <1>1, <1>2, <1>3 DEF TypeOK
  <1>5. PrefixStored' /\ LeftBehindOnlyAtTheTip'
    <2>1. 1 .. last_signature \subseteq rows \cup cut
      BY <1>1 DEF IInv, PrefixStored
    <2>2. 1 .. saved' \subseteq 1 .. last_signature
      BY <1>1, BoundsAssumption DEF TypeOK
    <2> QED
      BY <1>1, <1>2, <2>1, <2>2 DEF IInv, PrefixStored, LeftBehindOnlyAtTheTip
  <1>6. FoldKeepsUp' /\ TakesAreWhole'
    BY <1>1, FoldStays DEF IInv
  <1> QED
    BY <1>2, <1>4, <1>5, <1>6 DEF IInv

\* The aggregator's steps touch the source and the raw tables no more than the
\* sinks before it.
LEMMA FoldStep ==
    ASSUME IInv, UNCHANGED <<tip, sourceVars, batch, rows, saved, cut, faults>>,
           pc \in {"fold", "mark"}, pc' \in {"poll", "fold", "mark"},
           watermark' \in [slot : Nat, ordinal : Nat, sig : Nat],
           takes' \in [Txs -> Nat], rollup' \in [Txs -> Nat], upserted' \in SUBSET rows
    PROVE  TypeOK' /\ WalkCovers' /\ PrefixStored' /\ LeftBehindOnlyAtTheTip'
  <1>1. TypeOK /\ WalkCovers
    BY DEF IInv
  <1>2. UNCHANGED <<last_signature, walk_before, pending, reached_bound, segment>>
        /\ WalkCovers' /\ Queued(pending)' /\ Queued(segment.keys)'
    BY <1>1, SourceStays
  <1>3. TypeOK'
    BY <1>1, <1>2 DEF TypeOK
  <1>4. PrefixStored' /\ LeftBehindOnlyAtTheTip'
    BY <1>2, StoreStays DEF IInv
  <1> QED
    BY <1>2, <1>3, <1>4

LEMMA TouchedAreStored == Touched \subseteq rows /\ Touched \subseteq Txs
  BY LegsAreKeyed DEF Touched, NewFills, FillsAfter

LEMMA UpsertTakeStep == ASSUME IInv, NEW t \in Txs, UpsertTake(t) PROVE IInv'
  <1>1. /\ TypeOK /\ FoldKeepsUp /\ TakesAreWhole /\ pc = "fold" /\ pc' = "fold"
        /\ t \in Touched /\ takes' = [takes EXCEPT ![t] = LegCount[t]]
        /\ upserted' = upserted \cup {t}
        /\ UNCHANGED <<tip, sourceVars, batch, rows, saved, watermark, rollup, cut, faults>>
    BY DEF IInv, UpsertTake
  <1>2. takes' \in [Txs -> Nat] /\ upserted' \in SUBSET rows
    <2>1. LegCount[t] \in Nat
      BY LedgerAssumption, BoundsAssumption
    <2>2. takes \in [Txs -> Nat] /\ upserted \in SUBSET rows
      BY <1>1 DEF TypeOK
    <2>3. takes' \in [Txs -> Nat]
      BY <1>1, <2>1, <2>2
    <2>4. t \in rows
      BY <1>1, TouchedAreStored
    <2> QED
      BY <1>1, <2>2, <2>3, <2>4
  <1>3. \A u \in Txs : takes'[u] = IF u = t THEN LegCount[t] ELSE takes[u]
    BY <1>1 DEF TypeOK
  <1>4. FoldKeepsUp'
    <2>1. upserted \subseteq Txs
      BY <1>1, BoundsAssumption DEF TypeOK, Txs
    <2> QED
      BY <1>1, <1>3, <2>1 DEF FoldKeepsUp, LegsOf, Key
  <1>5. TakesAreWhole'
    <2>1. LegsOf(rows \ cut)' = LegsOf(rows \ cut)
      BY <1>1 DEF LegsOf
    <2>2. \A leg \in LegsOf(rows \ cut) : leg[1] \in Txs
      BY LegsAreKeyed
    <2> QED
      BY <1>1, <1>3, <2>1, <2>2 DEF TakesAreWhole, Alone, Passed, Key, Before
  <1>6. TypeOK' /\ WalkCovers' /\ PrefixStored' /\ LeftBehindOnlyAtTheTip'
    BY <1>1, <1>2, FoldStep DEF TypeOK
  <1> QED
    BY <1>4, <1>5, <1>6 DEF IInv

LEMMA RecomputeStatsStep == IInv /\ RecomputeStats => IInv'
  <1> SUFFICES ASSUME IInv, RecomputeStats PROVE IInv'
    OBVIOUS
  <1>1. /\ TypeOK /\ FoldKeepsUp /\ TakesAreWhole /\ pc = "fold" /\ pc' = "mark"
        /\ Touched \subseteq upserted /\ rollup' = takes
        /\ UNCHANGED <<tip, sourceVars, batch, rows, saved, watermark, takes, upserted, cut, faults>>
    BY DEF IInv, RecomputeStats
  <1>2. Touched' = Touched /\ LegsOf(rows)' = LegsOf(rows) /\ LegsOf(rows \ cut)' = LegsOf(rows \ cut)
    BY <1>1 DEF Touched, NewFills, FillsAfter, LegsOf, Key, Before
  <1>3. FoldKeepsUp'
    BY <1>1, <1>2 DEF FoldKeepsUp, Key
  <1>4. TakesAreWhole'
    BY <1>1, <1>2 DEF TakesAreWhole, Alone, Passed, Key, Before
  <1>5. TypeOK' /\ WalkCovers' /\ PrefixStored' /\ LeftBehindOnlyAtTheTip'
    BY <1>1, FoldStep DEF TypeOK
  <1> QED
    BY <1>3, <1>4, <1>5 DEF IInv

LEMMA SetWatermarkStep == IInv /\ SetWatermark => IInv'
  <1> SUFFICES ASSUME IInv, SetWatermark PROVE IInv'
    OBVIOUS
  <1>1. /\ TypeOK /\ FoldKeepsUp /\ TakesAreWhole /\ pc = "mark" /\ pc' = "poll"
        /\ upserted' = {} /\ Touched \subseteq upserted
        /\ UNCHANGED <<tip, sourceVars, batch, rows, saved, takes, rollup, cut, faults>>
    BY DEF IInv, SetWatermark, FoldKeepsUp
  <1>2. PICK last \in NewFills : watermark' = Key(last)
    BY DEF SetWatermark
  <1>3. last \in LegsOf(rows)
    BY DEF NewFills, FillsAfter
  <1>4. watermark' \in [slot : Nat, ordinal : Nat, sig : Nat]
    BY <1>2, <1>3, LegsAreKeyed
  <1>5. FoldKeepsUp'
    <2>1. LegsOf(rows)' = LegsOf(rows)
      BY <1>1 DEF LegsOf
    <2> QED
      BY <1>1, <1>2, <1>3, <2>1 DEF FoldKeepsUp, Key
  <1>6. ASSUME NEW leg \in LegsOf(rows \ cut), Alone(leg[1]), ~Before(Key(last), Key(leg))
        PROVE  takes[leg[1]] = LegCount[leg[1]]
    <2>1. CASE ~Before(watermark, Key(leg))
      BY <1>1, <1>6, <2>1 DEF TakesAreWhole, Passed
    <2>2. CASE Before(watermark, Key(leg))
      <3>1. leg \in FillsAfter
        BY <2>2 DEF FillsAfter, LegsOf
      <3>2. leg \in NewFills
        BY <1>1, <1>6, <3>1, FoldTakesThemInOrder
      <3> QED
        BY <1>1, <3>2 DEF Touched, FoldKeepsUp
    <2> QED
      BY <2>1, <2>2
  <1>7. TakesAreWhole'
    <2>1. LegsOf(rows \ cut)' = LegsOf(rows \ cut)
      BY <1>1 DEF LegsOf
    <2>2. \A leg : Passed(leg)' <=> ~Before(Key(last), Key(leg))
      BY <1>2 DEF Passed, Before, Key
    <2>3. \A t : Alone(t)' <=> Alone(t)
      BY DEF Alone
    <2> QED
      BY <1>1, <1>6, <2>1, <2>2, <2>3 DEF TakesAreWhole
  <1>8. TypeOK' /\ WalkCovers' /\ PrefixStored' /\ LeftBehindOnlyAtTheTip'
    BY <1>1, <1>4, FoldStep DEF TypeOK
  <1> QED
    BY <1>5, <1>7, <1>8 DEF IInv

LEMMA NothingToFoldStep == IInv /\ NothingToFold => IInv'
  <1> SUFFICES ASSUME IInv, NothingToFold PROVE IInv'
    OBVIOUS
  <1>1. /\ TypeOK /\ pc = "fold" /\ pc' = "poll"
        /\ UNCHANGED <<tip, sourceVars, batch, rows, saved, cut, faults>>
        /\ UNCHANGED <<watermark, takes, rollup, upserted>>
    BY DEF IInv, NothingToFold, foldVars
  <1>2. TypeOK' /\ WalkCovers' /\ PrefixStored' /\ LeftBehindOnlyAtTheTip'
    BY <1>1, FoldStep DEF TypeOK
  <1>3. FoldKeepsUp' /\ TakesAreWhole'
    BY <1>1, FoldStays DEF IInv
  <1> QED
    BY <1>2, <1>3 DEF IInv

LEMMA LandStep == IInv /\ Land => IInv'
  <1> SUFFICES ASSUME IInv, Land PROVE IInv'
    OBVIOUS
  <1>1. /\ TypeOK /\ WalkCovers
        /\ UNCHANGED <<pc, batch, rows, saved, cut, faults>>
        /\ UNCHANGED <<last_signature, walk_before, pending, reached_bound, segment>>
        /\ UNCHANGED <<watermark, takes, rollup, upserted>>
    BY DEF IInv, Land, sourceVars, foldVars
  <1>2. tip \in Nat /\ tip' \in 0 .. MaxTx /\ tip < tip'
    <2>1. PICK t \in tip + 1 .. MaxTx : tip' = t
      BY DEF Land
    <2> QED
      BY <1>1, <2>1, BoundsAssumption DEF TypeOK
  <1>3. 1 .. tip \subseteq 1 .. tip' /\ 0 .. tip \subseteq 0 .. tip'
    BY <1>2
  <1>4. Queued(pending)' /\ Queued(segment.keys)'
    <2>1. ASSUME NEW keys, Queued(keys), NEW i \in 1 .. Len(keys)
          PROVE  keys[i].newest <= tip'
      <3>1. keys[i] \in PageKey /\ keys[i].newest <= tip
        BY <2>1, ElementOfSeq DEF Queued
      <3> QED
        BY <1>2, <3>1 DEF PageKey, Txs
    <2> QED
      BY <1>1, <2>1 DEF TypeOK, Queued
  <1>5. TypeOK'
    BY <1>1, <1>2, <1>3, <1>4 DEF TypeOK
  <1>6. WalkCovers'
    BY <1>1 DEF WalkCovers, Tiled, GoesOn
  <1>7. PrefixStored' /\ LeftBehindOnlyAtTheTip'
    BY <1>1 DEF IInv, PrefixStored, LeftBehindOnlyAtTheTip
  <1>8. FoldKeepsUp' /\ TakesAreWhole'
    BY <1>1, FoldStays DEF IInv
  <1> QED
    BY <1>5, <1>6, <1>7, <1>8 DEF IInv

LEMMA StutterStep == IInv /\ UNCHANGED indexerVars => IInv'
  <1> SUFFICES ASSUME IInv, UNCHANGED indexerVars PROVE IInv'
    OBVIOUS
  <1>1. /\ UNCHANGED <<tip, pc, batch, rows, saved, cut, faults>>
        /\ UNCHANGED <<last_signature, walk_before, pending, reached_bound, segment>>
        /\ UNCHANGED <<watermark, takes, rollup, upserted>>
    BY DEF indexerVars, sourceVars, foldVars
  <1>2. TypeOK'
    BY <1>1 DEF IInv, TypeOK, Queued
  <1>3. WalkCovers'
    BY <1>1 DEF IInv, WalkCovers, Tiled, GoesOn
  <1>4. PrefixStored' /\ LeftBehindOnlyAtTheTip'
    BY <1>1 DEF IInv, PrefixStored, LeftBehindOnlyAtTheTip
  <1>5. FoldKeepsUp' /\ TakesAreWhole'
    BY <1>1, FoldStays DEF IInv
  <1> QED
    BY <1>2, <1>3, <1>4, <1>5 DEF IInv

LEMMA NextPreserves == IInv /\ [Next]_indexerVars => IInv'
  BY BeginWalkStep, WalkOnStep, WalkYieldsStep, WalkReachesStep, WalkFailsStep, EmitStep,
     StartOverStep, CommitStep, SaveCursorStep, UpsertTakeStep, RecomputeStatsStep,
     SetWatermarkStep, NothingToFoldStep, LandStep, CrashStep, StutterStep
  DEF Next, SourceNext, SinkNext

-----------------------------------------------------------------------------
(* Theorems *)

\* What every step of the source, the sinks and the process keeps.
THEOREM IndexerInductive == Spec => []IInv
  BY InitEstablishes, NextPreserves, PTL DEF Spec

\* The queued pages, the tables and the cursors keep their types, and the
\* durable cursor never runs ahead of the one in memory.
THEOREM IndexerTypeCorrect == Spec => []TypeOK
  <1>1. IInv => TypeOK
    BY DEF IInv
  <1> QED
    BY <1>1, IndexerInductive, PTL

\* For any page size, page cap and ledger, and through any crashes, nothing but
\* what a growing ledger pushes off a tip page is left behind the cursor.
THEOREM IndexerLeftBehindOnlyAtTheTip == Spec => []LeftBehindOnlyAtTheTip
  <1>1. IInv => LeftBehindOnlyAtTheTip
    BY DEF IInv
  <1> QED
    BY <1>1, IndexerInductive, PTL

\* For any ledger and fold limit, takes are whole or absent, and behind the
\* watermark no leg of a slot with one transaction is skipped.
THEOREM IndexerTakesAreWhole == Spec => []TakesAreWhole
  <1>1. IInv => TakesAreWhole
    BY DEF IInv
  <1> QED
    BY <1>1, IndexerInductive, PTL
=============================================================================
