--------------------------- MODULE RegistryProofs ---------------------------
(***************************************************************************)
(* What Registry promises of its counts and its token accounts, for any    *)
(* users, pairs, mints and bounds.                                         *)
(***************************************************************************)
EXTENDS Registry, FiniteSetTheorems, TLAPS

Governed == MarketsAreGoverned /\ FeeVaultOpenForLiveMarkets

\* The inductive invariant: the count is exact, and so a fee vault that closes is no
\* market's.
IInv == TypeOK /\ Governed

\* The live markets are finitely many.
LEMMA LiveMarketsFinite ==
    IsFiniteSet(LiveMarkets) /\ Cardinality(LiveMarkets) \in Nat
  BY RegistryAssumption, FS_Subset, FS_CardinalityType DEF LiveMarkets, RegistryAssumption

\* A step that opens and closes no market leaves their number.
LEMMA SameMarkets ==
    ASSUME \A pair \in Pairs : markets'[pair].open = markets[pair].open
    PROVE  LiveMarkets' = LiveMarkets
  BY DEF LiveMarkets

\* A market that opens is one more, one that closes one less.
LEMMA OneMoreMarket ==
    ASSUME NEW pair \in Pairs, ~markets[pair].open, LiveMarkets' = LiveMarkets \cup {pair}
    PROVE  Cardinality(LiveMarkets)' = Cardinality(LiveMarkets) + 1
  BY LiveMarketsFinite, FS_AddElement DEF LiveMarkets

LEMMA OneMarketLess ==
    ASSUME NEW pair \in Pairs, markets[pair].open, LiveMarkets' = LiveMarkets \ {pair}
    PROVE  /\ Cardinality(LiveMarkets)' = Cardinality(LiveMarkets) - 1
           /\ Cardinality(LiveMarkets) > 0
  <1>1. pair \in LiveMarkets
    BY DEF LiveMarkets
  <1>2. Cardinality(LiveMarkets \ {pair}) = Cardinality(LiveMarkets) - 1
    BY <1>1, LiveMarketsFinite, FS_RemoveElement
  <1>3. Cardinality(LiveMarkets \ {pair}) \in Nat
    BY LiveMarketsFinite, FS_RemoveElement, FS_CardinalityType
  <1> QED
    BY <1>2, <1>3, LiveMarketsFinite

\* Nothing is open at first.
LEMMA InitEstablishes == Init => IInv
  <1> SUFFICES ASSUME Init PROVE IInv
    OBVIOUS
  <1> USE RegistryAssumption DEF RegistryAssumption
  <1>1. TypeOK
    <2>1. registry \in RegistryAccount
      BY DEF Init, RegistryAccount
    <2>2. markets \in [Pairs -> MarketAccount]
      <3>1. [open |-> FALSE, fee |-> registry.fee, ceiling |-> DefaultCeiling, vaults |-> 0]
              \in MarketAccount
        BY <2>1 DEF RegistryAccount, MarketAccount
      <3> QED
        BY <3>1 DEF Init
    <2>3. /\ treasury \in [Pairs -> [Legs -> BOOLEAN]]
          /\ fee_vault \in [Mints -> BOOLEAN]
      BY DEF Init
    <2>4. teardown \in BOOLEAN
      BY DEF Init
    <2>5. squats \in 0 .. MaxSquats
      BY DEF Init
    <2> QED
      BY <2>1, <2>2, <2>3, <2>4, <2>5 DEF TypeOK
  <1>2. LiveMarkets = {}
    BY DEF Init, LiveMarkets
  <1>3. Governed
    BY <1>2, FS_EmptySet DEF Init, Governed, MarketsAreGoverned, FeeVaultOpenForLiveMarkets
  <1> QED
    BY <1>1, <1>3 DEF IInv

-----------------------------------------------------------------------------
(* Every instruction keeps the types *)

\* The saturating decrement stays in range.
LEMMA OneLess ==
    ASSUME NEW most \in Nat, NEW count \in 0 .. most
    PROVE  (IF count = 0 THEN 0 ELSE count - 1) \in 0 .. most
  OBVIOUS

LEMMA TypesKept == TypeOK /\ MarketsAreGoverned /\ [Next]_registryVars => TypeOK'
  <1> SUFFICES ASSUME TypeOK, MarketsAreGoverned, [Next]_registryVars PROVE TypeOK'
    OBVIOUS
  <1> USE RegistryAssumption DEF RegistryAssumption, TypeOK
  <1>1. ASSUME NEW payer \in Users, NEW genesis_admin \in Users, NEW mint \in Mints,
               InitRegistry(payer, genesis_admin, mint)
        PROVE  TypeOK'
    BY <1>1 DEF InitRegistry, RegistryAccount
  <1>2. ASSUME NEW admin \in Users, NEW u \in Users, AddAdmin(admin, u) \/ RemoveAdmin(admin, u)
        PROVE  TypeOK'
    BY <1>2 DEF AddAdmin, RemoveAdmin, RegistryAccount
  <1>3. ASSUME NEW admin \in Users, NEW ceiling \in Ceilings, SetRegistryDefaults(admin, ceiling)
        PROVE  TypeOK'
    BY <1>3 DEF SetRegistryDefaults, RegistryAccount
  <1>4. ASSUME NEW admin \in Users, NEW mint \in Mints,
               SetDefaultFeeConfig(admin, mint) \/ CloseRegistryFeeVault(admin, mint)
        PROVE  TypeOK'
    BY <1>4 DEF SetDefaultFeeConfig, CloseRegistryFeeVault, RegistryAccount
  <1>5. ASSUME NEW admin \in Users, CloseRegistry(admin)
        PROVE  TypeOK'
    <2>1. registry' \in RegistryAccount
      BY <1>5 DEF CloseRegistry, RegistryAccount
    <2>2. teardown' \in BOOLEAN
      BY <1>5 DEF CloseRegistry
    <2>3. squats' \in 0 .. MaxSquats
      BY <1>5 DEF CloseRegistry
    <2> QED
      BY <1>5, <2>1, <2>2, <2>3 DEF CloseRegistry
  <1>6. ASSUME NEW payer \in Users, NEW pair \in Pairs, CreateMarket(payer, pair)
        PROVE  TypeOK'
    <2>1. registry' \in RegistryAccount
      <3>1. registry.market_count + 1 \in 0 .. MaxMarkets
        BY <1>6 DEF CreateMarket, RegistryAccount
      <3> QED
        BY <1>6, <3>1 DEF CreateMarket, RegistryAccount
    <2>2. markets' \in [Pairs -> MarketAccount]
      <3>1. [open |-> TRUE, fee |-> registry.fee, ceiling |-> registry.ceiling, vaults |-> 0]
              \in MarketAccount
        BY DEF RegistryAccount, MarketAccount
      <3> QED
        BY <1>6, <3>1 DEF CreateMarket
    <2>3. squats' \in 0 .. MaxSquats
      BY <1>6 DEF CreateMarket, Anyone
    <2> QED
      BY <1>6, <2>1, <2>2, <2>3 DEF CreateMarket
  <1>7. ASSUME NEW admin \in Users, NEW pair \in Pairs, NEW mint \in Mints,
               SetMarketFeeConfig(admin, pair, mint)
        PROVE  TypeOK'
    BY <1>7 DEF SetMarketFeeConfig, MarketAccount
  <1>8. ASSUME NEW admin \in Users, NEW pair \in Pairs, NEW ceiling \in Ceilings,
               SetMaxPlatformFee(admin, pair, ceiling)
        PROVE  TypeOK'
    BY <1>8 DEF SetMaxPlatformFee, MarketAccount
  <1>9. ASSUME NEW payer \in Users, NEW pair \in Pairs, CreateVault(payer, pair)
        PROVE  TypeOK'
    BY <1>9 DEF CreateVault, Anyone, MarketAccount
  <1>10. ASSUME NEW admin \in Users, NEW pair \in Pairs,
                CloseVault(pair) \/ ForceWithdrawLeader(admin, pair)
         PROVE  TypeOK'
    <2>1. markets[pair] \in MarketAccount /\ markets[pair].vaults > 0
      BY <1>10 DEF CloseVault, ForceWithdrawLeader
    <2>2. markets[pair].vaults - 1 \in 0 .. MaxVaults
      BY <2>1 DEF MarketAccount
    <2>3. markets' = [markets EXCEPT ![pair].vaults = markets[pair].vaults - 1]
      BY <1>10 DEF CloseVault, ForceWithdrawLeader
    <2>4. markets' \in [Pairs -> MarketAccount]
      BY <2>1, <2>2, <2>3 DEF MarketAccount
    <2> QED
      BY <1>10, <2>4 DEF CloseVault, ForceWithdrawLeader
  <1>11. ASSUME NEW admin \in Users, NEW pair \in Pairs, NEW leg \in Legs,
                \/ CreateTreasury(pair, leg) \/ CloseMarketTreasury(admin, pair, leg)
                \/ ReopenTreasury(admin, pair, leg)
         PROVE  TypeOK'
    <2>1. \E open \in BOOLEAN : treasury' = [treasury EXCEPT ![pair][leg] = open]
      BY <1>11 DEF CreateTreasury, CloseMarketTreasury, ReopenTreasury
    <2>2. treasury' \in [Pairs -> [Legs -> BOOLEAN]]
      BY <2>1
    <2>3. squats' \in 0 .. MaxSquats
      BY <1>11 DEF CreateTreasury, CloseMarketTreasury, ReopenTreasury, Anyone
    <2> QED
      BY <1>11, <2>2, <2>3 DEF CreateTreasury, CloseMarketTreasury, ReopenTreasury
  <1>12. ASSUME NEW mint \in Mints, CreateFeeVault(mint)
         PROVE  TypeOK'
    BY <1>12 DEF CreateFeeVault, Anyone
  <1>13. ASSUME NEW admin \in Users, NEW pair \in Pairs, CloseMarket(admin, pair)
         PROVE  TypeOK'
    <2>1. registry' \in RegistryAccount
      <3>1. (IF registry.market_count = 0 THEN 0 ELSE registry.market_count - 1)
              \in 0 .. MaxMarkets
        <4>1. registry.market_count \in 0 .. MaxMarkets
          BY DEF RegistryAccount
        <4> QED
          BY <4>1, OneLess
      <3> QED
        BY <1>13, <3>1 DEF CloseMarket, RegistryAccount
    <2>2. markets' \in [Pairs -> MarketAccount]
      <3>1. [markets[pair] EXCEPT !.open = FALSE, !.vaults = 0] \in MarketAccount
        <4>1. markets[pair] \in MarketAccount /\ 0 \in 0 .. MaxVaults
          OBVIOUS
        <4> QED
          BY <4>1 DEF MarketAccount
      <3> QED
        BY <1>13, <3>1 DEF CloseMarket
    <2> QED
      BY <1>13, <2>1, <2>2 DEF CloseMarket
  <1>14. StartTeardown => TypeOK'
    BY DEF StartTeardown
  <1>15. UNCHANGED registryVars => TypeOK'
    BY DEF registryVars
  <1> QED
    BY <1>1, <1>2, <1>3, <1>4, <1>5, <1>6, <1>7, <1>8, <1>9, <1>10, <1>11, <1>12, <1>13, <1>14,
       <1>15 DEF Next, GovernNext, MarketNext, StrangerNext

-----------------------------------------------------------------------------
(* Every instruction keeps the count and the fee vaults *)

\* A step that opens no market, closes none, moves no market's fee, closes no fee
\* vault and touches neither the count nor who governs.
LEMMA GovernedAlike ==
    ASSUME Governed,
           \A pair \in Pairs : /\ markets'[pair].open = markets[pair].open
                               /\ markets'[pair].fee = markets[pair].fee,
           \A mint \in Mints : fee_vault[mint] => fee_vault'[mint],
           \A pair \in Pairs : markets[pair].fee \in Mints,
           registry'.open = registry.open, registry'.market_count = registry.market_count,
           registry'.admins # {} <=> registry.admins # {}
    PROVE  Governed'
  <1>1. LiveMarkets' = LiveMarkets
    BY SameMarkets
  <1>2. MarketsAreGoverned'
    BY <1>1 DEF Governed, MarketsAreGoverned
  <1>3. FeeVaultOpenForLiveMarkets'
    BY <1>1 DEF Governed, FeeVaultOpenForLiveMarkets, LiveMarkets
  <1> QED
    BY <1>2, <1>3 DEF Governed

\* More than one admin: one can go.
LEMMA SomeoneStays ==
    ASSUME NEW S, IsFiniteSet(S), Cardinality(S) > 1, NEW x \in S
    PROVE  S \ {x} # {}
  <1>1. Cardinality({x}) = 1
    BY FS_Singleton
  <1>2. S \ {x} = {} => S = {x}
    OBVIOUS
  <1> QED
    BY <1>1, <1>2

\* While the count is zero no market lives.
LEMMA NoneLive ==
    ASSUME MarketsAreGoverned, registry.market_count = 0
    PROVE  LiveMarkets = {}
  BY LiveMarketsFinite, FS_EmptySet DEF MarketsAreGoverned

LEMMA GovernedKept == IInv /\ [Next]_registryVars => Governed'
  <1> SUFFICES ASSUME TypeOK, Governed, [Next]_registryVars PROVE Governed'
    BY DEF IInv
  <1> USE RegistryAssumption DEF RegistryAssumption
  <1>0. /\ registry \in RegistryAccount /\ markets \in [Pairs -> MarketAccount]
        /\ fee_vault \in [Mints -> BOOLEAN]
        /\ \A pair \in Pairs : markets[pair].fee \in Mints
    BY DEF TypeOK, MarketAccount
  <1>1. ASSUME NEW payer \in Users, NEW genesis_admin \in Users, NEW mint \in Mints,
               InitRegistry(payer, genesis_admin, mint)
        PROVE  Governed'
    <2>1. LiveMarkets = {} /\ LiveMarkets' = LiveMarkets
      BY <1>1 DEF InitRegistry, Governed, MarketsAreGoverned, LiveMarkets
    <2>2. MarketsAreGoverned'
      BY <1>1, <2>1, FS_EmptySet DEF InitRegistry, MarketsAreGoverned
    <2> QED
      BY <2>1, <2>2 DEF Governed, FeeVaultOpenForLiveMarkets
  <1>2. ASSUME NEW admin \in Users, NEW u \in Users, AddAdmin(admin, u)
        PROVE  Governed'
    BY <1>0, <1>2, GovernedAlike DEF AddAdmin, Operates, Admin, RegistryAccount
  <1>3. ASSUME NEW admin \in Users, NEW u \in Users, RemoveAdmin(admin, u)
        PROVE  Governed'
    <2>1. IsFiniteSet(registry.admins)
      BY <1>0, FS_Subset DEF RegistryAccount
    <2>2. registry.admins # {} /\ registry.admins \ {u} # {}
      BY <1>3, <2>1, SomeoneStays DEF RemoveAdmin
    <2> QED
      BY <1>0, <1>3, <2>2, GovernedAlike DEF RemoveAdmin, RegistryAccount
  <1>4. ASSUME NEW admin \in Users, NEW ceiling \in Ceilings, SetRegistryDefaults(admin, ceiling)
        PROVE  Governed'
    BY <1>0, <1>4, GovernedAlike DEF SetRegistryDefaults, RegistryAccount
  <1>5. ASSUME NEW admin \in Users, NEW mint \in Mints, SetDefaultFeeConfig(admin, mint)
        PROVE  Governed'
    BY <1>0, <1>5, GovernedAlike DEF SetDefaultFeeConfig, RegistryAccount
  <1>6. ASSUME NEW admin \in Users, NEW mint \in Mints, CloseRegistryFeeVault(admin, mint)
        PROVE  Governed'
    <2>1. LiveMarkets = {} /\ LiveMarkets' = LiveMarkets
      BY <1>6, NoneLive DEF CloseRegistryFeeVault, Governed, LiveMarkets
    <2>2. MarketsAreGoverned'
      BY <1>6, <2>1 DEF CloseRegistryFeeVault, Governed, MarketsAreGoverned
    <2> QED
      BY <2>1, <2>2 DEF Governed, FeeVaultOpenForLiveMarkets
  <1>7. ASSUME NEW admin \in Users, CloseRegistry(admin)
        PROVE  Governed'
    <2>1. LiveMarkets = {} /\ LiveMarkets' = LiveMarkets
      BY <1>7, NoneLive DEF CloseRegistry, Governed, LiveMarkets
    <2>2. /\ ~registry'.open /\ registry'.admins = {}
          /\ registry'.market_count = registry.market_count
      BY <1>0, <1>7 DEF CloseRegistry, RegistryAccount
    <2>3. MarketsAreGoverned'
      BY <2>1, <2>2 DEF Governed, MarketsAreGoverned
    <2> QED
      BY <2>1, <2>3 DEF Governed, FeeVaultOpenForLiveMarkets
  <1>8. ASSUME NEW payer \in Users, NEW pair \in Pairs, CreateMarket(payer, pair)
        PROVE  Governed'
    <2>1. LiveMarkets' = LiveMarkets \cup {pair}
      BY <1>0, <1>8 DEF CreateMarket, LiveMarkets
    <2>2. /\ registry'.open = registry.open /\ registry'.admins = registry.admins
          /\ registry'.market_count = registry.market_count + 1
      BY <1>0, <1>8 DEF CreateMarket, RegistryAccount
    <2>3. MarketsAreGoverned'
      BY <1>8, <2>1, <2>2, OneMoreMarket DEF CreateMarket, Governed, MarketsAreGoverned
    <2>4. FeeVaultOpenForLiveMarkets'
      BY <1>0, <1>8, <2>1 DEF CreateMarket, Governed, FeeVaultOpenForLiveMarkets, LiveMarkets
    <2> QED
      BY <2>3, <2>4 DEF Governed
  <1>9. ASSUME NEW admin \in Users, NEW pair \in Pairs, NEW mint \in Mints,
               SetMarketFeeConfig(admin, pair, mint)
        PROVE  Governed'
    <2>1. LiveMarkets' = LiveMarkets
      BY <1>0, <1>9 DEF SetMarketFeeConfig, LiveMarkets, MarketAccount
    <2>2. MarketsAreGoverned'
      BY <1>9, <2>1 DEF SetMarketFeeConfig, Governed, MarketsAreGoverned
    <2>3. FeeVaultOpenForLiveMarkets'
      <3>1. /\ fee_vault'[mint]
            /\ \A other \in Mints : fee_vault[other] => fee_vault'[other]
        BY <1>0, <1>9 DEF SetMarketFeeConfig
      <3>2. \A live \in Pairs : markets'[live].fee \in {mint, markets[live].fee}
                                /\ (markets'[live].fee # mint => live # pair)
        BY <1>0, <1>9 DEF SetMarketFeeConfig, MarketAccount
      <3> QED
        BY <1>0, <2>1, <3>1, <3>2 DEF Governed, FeeVaultOpenForLiveMarkets, LiveMarkets
    <2> QED
      BY <2>2, <2>3 DEF Governed
  <1>10. ASSUME NEW admin \in Users, NEW pair \in Pairs, NEW ceiling \in Ceilings,
                SetMaxPlatformFee(admin, pair, ceiling)
         PROVE  Governed'
    <2>1. \A other \in Pairs : /\ markets'[other].open = markets[other].open
                               /\ markets'[other].fee = markets[other].fee
      BY <1>0, <1>10 DEF SetMaxPlatformFee, MarketAccount
    <2> QED
      BY <1>0, <1>10, <2>1, GovernedAlike DEF SetMaxPlatformFee
  <1>11. ASSUME NEW u \in Users, NEW pair \in Pairs,
                CreateVault(u, pair) \/ CloseVault(pair) \/ ForceWithdrawLeader(u, pair)
         PROVE  Governed'
    <2>1. \A other \in Pairs : /\ markets'[other].open = markets[other].open
                               /\ markets'[other].fee = markets[other].fee
      BY <1>0, <1>11 DEF CreateVault, CloseVault, ForceWithdrawLeader, MarketAccount
    <2> QED
      BY <1>0, <1>11, <2>1, GovernedAlike DEF CreateVault, CloseVault, ForceWithdrawLeader
  <1>12. ASSUME NEW admin \in Users, NEW pair \in Pairs, NEW leg \in Legs,
                \/ CreateTreasury(pair, leg) \/ CloseMarketTreasury(admin, pair, leg)
                \/ ReopenTreasury(admin, pair, leg)
         PROVE  Governed'
    BY <1>0, <1>12, GovernedAlike DEF CreateTreasury, CloseMarketTreasury, ReopenTreasury
  <1>13. ASSUME NEW mint \in Mints, CreateFeeVault(mint)
         PROVE  Governed'
    BY <1>0, <1>13, GovernedAlike DEF CreateFeeVault
  <1>14. ASSUME NEW admin \in Users, NEW pair \in Pairs, CloseMarket(admin, pair)
         PROVE  Governed'
    <2>1. LiveMarkets' = LiveMarkets \ {pair}
      BY <1>0, <1>14 DEF CloseMarket, LiveMarkets, MarketAccount
    <2>2. /\ Cardinality(LiveMarkets)' = Cardinality(LiveMarkets) - 1
          /\ Cardinality(LiveMarkets) > 0
      BY <1>14, <2>1, OneMarketLess DEF CloseMarket
    <2>3. /\ registry'.open = registry.open /\ registry'.admins = registry.admins
          /\ registry.market_count # 0 => registry'.market_count = registry.market_count - 1
      BY <1>0, <1>14 DEF CloseMarket, RegistryAccount
    <2>4. MarketsAreGoverned'
      BY <2>1, <2>2, <2>3 DEF Governed, MarketsAreGoverned
    <2>5. FeeVaultOpenForLiveMarkets'
      BY <1>0, <1>14, <2>1 DEF CloseMarket, Governed, FeeVaultOpenForLiveMarkets, LiveMarkets,
         MarketAccount
    <2> QED
      BY <2>4, <2>5 DEF Governed
  <1>15. StartTeardown \/ UNCHANGED registryVars => Governed'
    BY <1>0, GovernedAlike DEF StartTeardown, registryVars
  <1> QED
    BY <1>1, <1>2, <1>3, <1>4, <1>5, <1>6, <1>7, <1>8, <1>9, <1>10, <1>11, <1>12, <1>13, <1>14,
       <1>15 DEF Next, GovernNext, MarketNext, StrangerNext

-----------------------------------------------------------------------------
\* The count of live markets is exact and every fee vault a live market pays into is
\* open, always.
THEOREM RegistryInductive == Spec => []IInv
  <1>1. IInv /\ [Next]_registryVars => IInv'
    BY TypesKept, GovernedKept DEF IInv, Governed
  <1> QED
    BY <1>1, InitEstablishes, PTL DEF Spec

\* The accounts' fields keep their types; no ceiling passes 100 %.
THEOREM RegistryTypeCorrect == Spec => []TypeOK
  BY RegistryInductive, PTL DEF IInv

\* For any number of users and pairs, market_count is the number of live markets and
\* none outlives the registry.
THEOREM RegistryMarketsAreGoverned == Spec => []MarketsAreGoverned
  BY RegistryInductive, PTL DEF IInv, Governed

\* For any fee mints, a live market's fee vault is open.
THEOREM RegistryFeeVaultOpenForLiveMarkets == Spec => []FeeVaultOpenForLiveMarkets
  BY RegistryInductive, PTL DEF IInv, Governed
=============================================================================
