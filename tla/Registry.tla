------------------------------ MODULE Registry ------------------------------
(***************************************************************************)
(* The registry, the markets created against it and the token accounts     *)
(* they need (src/programs/dropset/src/instructions/init.rs, admin.rs,     *)
(* create_market.rs, registry_defaults.rs, retune.rs, close_market.rs,     *)
(* close_registry.rs, create_vault.rs, state/registry.rs).                 *)
(*                                                                         *)
(* One registry governs the program: its admins, the defaults new markets  *)
(* start with, and the count that is the only witness of how many markets  *)
(* live.  Fees go to the registry's token account of the fee's mint.  Such *)
(* an account, like a market's two treasuries, has an address anyone can   *)
(* compute, and anyone may create it, before the program does or after the *)
(* program closed it.                                                      *)
(*                                                                         *)
(* A fee is abstracted to its mint and an account to whether it is open:   *)
(* a fee vault is emptied before it is closed, so its balance stops        *)
(* nothing.  The taker fee and the leader's minimal share are stamped and  *)
(* retuned as the platform fee's ceiling is, and left out.  The vaults of  *)
(* a market hold nothing here and are counted; Market has what a funded    *)
(* one adds.                                                               *)
(***************************************************************************)
EXTENDS Integers, FiniteSets

CONSTANTS
    Users,             \* those who may sign
    UpgradeAuthority,  \* the one the loader's ProgramData names
    Pairs,             \* the <base, quote> pairs of different mints
    Mints,             \* fee mints
    Ceilings,          \* platform-fee ceilings an admin may ask for (u16)
    BPS,               \* 100 %
    DefaultCeiling,    \* DEFAULT_MAX_PLATFORM_FEE
    MaxVaults,         \* max_vaults_per_market
    MaxMarkets,        \* u32::MAX
    MaxSquats          \* bound on what strangers do once a teardown has begun

Legs == {"base", "quote"}

ASSUME RegistryAssumption ==
    /\ UpgradeAuthority \in Users /\ IsFiniteSet(Users)
    /\ Pairs # {} /\ IsFiniteSet(Pairs) /\ Mints # {}
    /\ Ceilings \subseteq Nat /\ BPS \in Nat /\ DefaultCeiling \in 0 .. BPS
    /\ MaxVaults \in Nat /\ MaxMarkets \in Nat /\ MaxSquats \in Nat

VARIABLES
    registry,          \* RegistryHeader and its admin tail; open: the account exists
    markets,           \* pair -> MarketHeader
    treasury,          \* pair -> leg -> is the market's token account open
    fee_vault,         \* mint -> is the registry's token account open
    teardown,          \* the operators have begun to tear down
    squats             \* what strangers did since

registryVars == <<registry, markets, treasury, fee_vault, teardown, squats>>

RegistryAccount ==
    [open : BOOLEAN, admins : SUBSET Users, market_count : 0 .. MaxMarkets,
     fee : Mints, ceiling : 0 .. BPS]

MarketAccount == [open : BOOLEAN, fee : Mints, ceiling : 0 .. BPS, vaults : 0 .. MaxVaults]

LiveMarkets == {pair \in Pairs : markets[pair].open}

\* require_registry_admin; while they tear down, the operators start nothing.
Admin(u) == registry.open /\ u \in registry.admins

Operates(u) == Admin(u) /\ ~teardown

\* What anyone may do is bounded during a teardown.
Anyone ==
    /\ teardown => squats < MaxSquats
    /\ squats' = IF teardown THEN squats + 1 ELSE squats

-----------------------------------------------------------------------------
Init ==
    /\ \E mint \in Mints :
          registry = [open |-> FALSE, admins |-> {}, market_count |-> 0, fee |-> mint,
                      ceiling |-> DefaultCeiling]
    /\ markets \in [Pairs -> {[open |-> FALSE, fee |-> registry.fee,
                               ceiling |-> DefaultCeiling, vaults |-> 0]}]
    /\ treasury = [pair \in Pairs |-> [leg \in Legs |-> FALSE]]
    /\ fee_vault = [mint \in Mints |-> FALSE]
    /\ teardown = FALSE
    /\ squats = 0

\* The program's Init: the upgrade authority opens the registry and its first fee
\* vault, or adopts the vault that is there (init_if_needed).
InitRegistry(payer, genesis_admin, mint) ==
    /\ payer = UpgradeAuthority
    /\ ~registry.open /\ ~teardown
    /\ registry' = [open |-> TRUE, admins |-> {genesis_admin}, market_count |-> 0,
                    fee |-> mint, ceiling |-> DefaultCeiling]
    /\ fee_vault' = [fee_vault EXCEPT ![mint] = TRUE]
    /\ UNCHANGED <<markets, treasury, teardown, squats>>

AddAdmin(admin, new_admin) ==
    /\ Operates(admin)
    /\ new_admin \notin registry.admins
    /\ registry' = [registry EXCEPT !.admins = @ \cup {new_admin}]
    /\ UNCHANGED <<markets, treasury, fee_vault, teardown, squats>>

\* An admin may remove another one or itself.
RemoveAdmin(admin, target) ==
    /\ Admin(admin) /\ target \in registry.admins
    /\ Cardinality(registry.admins) > 1
    /\ registry' = [registry EXCEPT !.admins = @ \ {target}]
    /\ UNCHANGED <<markets, treasury, fee_vault, teardown, squats>>

\* Mutant: the default is not held to 100 %.
SetRegistryDefaultsUnchecked(admin, ceiling) ==
    /\ Operates(admin)
    /\ registry' = [registry EXCEPT !.ceiling = ceiling]
    /\ UNCHANGED <<markets, treasury, fee_vault, teardown, squats>>

SetRegistryDefaults(admin, ceiling) ==
    /\ Operates(admin)
    /\ ceiling <= BPS
    /\ registry' = [registry EXCEPT !.ceiling = ceiling]
    /\ UNCHANGED <<markets, treasury, fee_vault, teardown, squats>>

SetDefaultFeeConfig(admin, mint) ==
    /\ Operates(admin)
    /\ registry' = [registry EXCEPT !.fee = mint]
    /\ fee_vault' = [fee_vault EXCEPT ![mint] = TRUE]
    /\ UNCHANGED <<markets, treasury, teardown, squats>>

-----------------------------------------------------------------------------
\* Anyone may create a market, an admin free of charge; the fee vault must be open
\* either way.  Treasuries a stranger opened are adopted.
CreateMarket(payer, pair) ==
    /\ registry.open /\ (IF payer \in registry.admins THEN ~teardown ELSE TRUE)
    /\ Anyone
    /\ ~markets[pair].open
    /\ fee_vault[registry.fee]
    /\ registry.market_count < MaxMarkets
    /\ markets' = [markets EXCEPT ![pair] = [open |-> TRUE, fee |-> registry.fee,
                                             ceiling |-> registry.ceiling, vaults |-> 0]]
    /\ treasury' = [treasury EXCEPT ![pair] = [leg \in Legs |-> TRUE]]
    /\ registry' = [registry EXCEPT !.market_count = @ + 1]
    /\ UNCHANGED <<fee_vault, teardown>>

\* Mutant: the new mint's fee vault is left to be created by whoever needs it.
SetMarketFeeConfigLazily(admin, pair, mint) ==
    /\ Operates(admin) /\ markets[pair].open
    /\ markets' = [markets EXCEPT ![pair].fee = mint]
    /\ UNCHANGED <<registry, treasury, fee_vault, teardown, squats>>

SetMarketFeeConfig(admin, pair, mint) ==
    /\ Operates(admin) /\ markets[pair].open
    /\ markets' = [markets EXCEPT ![pair].fee = mint]
    /\ fee_vault' = [fee_vault EXCEPT ![mint] = TRUE]
    /\ UNCHANGED <<registry, treasury, teardown, squats>>

SetMaxPlatformFee(admin, pair, ceiling) ==
    /\ Operates(admin) /\ markets[pair].open
    /\ ceiling <= BPS
    /\ markets' = [markets EXCEPT ![pair].ceiling = ceiling]
    /\ UNCHANGED <<registry, treasury, fee_vault, teardown, squats>>

CreateVault(payer, pair) ==
    /\ registry.open /\ (IF payer \in registry.admins THEN ~teardown ELSE TRUE)
    /\ Anyone
    /\ markets[pair].open /\ markets[pair].vaults < MaxVaults
    /\ fee_vault[markets[pair].fee]
    /\ markets' = [markets EXCEPT ![pair].vaults = @ + 1]
    /\ UNCHANGED <<registry, treasury, fee_vault, teardown>>

\* close_vault: the leader of a vault that holds nothing gives it back.
CloseVault(pair) ==
    /\ markets[pair].open /\ markets[pair].vaults > 0
    /\ markets' = [markets EXCEPT ![pair].vaults = @ - 1]
    /\ UNCHANGED <<registry, treasury, fee_vault, teardown, squats>>

\* force_withdraw_leader: an admin reclaims it, and both treasuries must be there.
ForceWithdrawLeader(admin, pair) ==
    /\ Admin(admin)
    /\ markets[pair].open /\ markets[pair].vaults > 0
    /\ \A leg \in Legs : treasury[pair][leg]
    /\ markets' = [markets EXCEPT ![pair].vaults = @ - 1]
    /\ UNCHANGED <<registry, treasury, fee_vault, teardown, squats>>

\* A stranger creates an associated token account that is not there.
CreateTreasury(pair, leg) ==
    /\ Anyone
    /\ ~treasury[pair][leg]
    /\ treasury' = [treasury EXCEPT ![pair][leg] = TRUE]
    /\ UNCHANGED <<registry, markets, fee_vault, teardown>>

CreateFeeVault(mint) ==
    /\ Anyone
    /\ ~fee_vault[mint]
    /\ fee_vault' = [fee_vault EXCEPT ![mint] = TRUE]
    /\ UNCHANGED <<registry, markets, treasury, teardown>>

-----------------------------------------------------------------------------
StartTeardown ==
    /\ registry.open /\ ~teardown
    /\ teardown' = TRUE
    /\ UNCHANGED <<registry, markets, treasury, fee_vault, squats>>

CloseMarketTreasury(admin, pair, leg) ==
    /\ Admin(admin) /\ markets[pair].open
    /\ treasury[pair][leg]
    /\ markets[pair].vaults = 0
    /\ treasury' = [treasury EXCEPT ![pair][leg] = FALSE]
    /\ UNCHANGED <<registry, markets, fee_vault, teardown, squats>>

\* The operators create a treasury again, outside the program: one that closed
\* before a vault came blocks the way to force_withdraw_leader.
ReopenTreasury(admin, pair, leg) ==
    /\ Admin(admin) /\ teardown
    /\ markets[pair].open /\ markets[pair].vaults > 0
    /\ ~treasury[pair][leg]
    /\ treasury' = [treasury EXCEPT ![pair][leg] = TRUE]
    /\ UNCHANGED <<registry, markets, fee_vault, teardown, squats>>

\* Mutant: the market goes, the count stays.
CloseMarketUncounted(admin, pair) ==
    /\ Admin(admin) /\ markets[pair].open
    /\ \A leg \in Legs : ~treasury[pair][leg]
    /\ markets' = [markets EXCEPT ![pair].open = FALSE, ![pair].vaults = 0]
    /\ UNCHANGED <<registry, treasury, fee_vault, teardown, squats>>

\* close_market looks at the depositors and at the treasuries, not at the vaults: one
\* that came after the treasuries closed goes with the market.
CloseMarket(admin, pair) ==
    /\ Admin(admin) /\ markets[pair].open
    /\ \A leg \in Legs : ~treasury[pair][leg]
    /\ markets' = [markets EXCEPT ![pair].open = FALSE, ![pair].vaults = 0]
    /\ registry' = [registry EXCEPT !.market_count = IF @ = 0 THEN 0 ELSE @ - 1]
    /\ UNCHANGED <<treasury, fee_vault, teardown, squats>>

CloseRegistryFeeVault(admin, mint) ==
    /\ Admin(admin) /\ fee_vault[mint]
    /\ registry.market_count = 0
    /\ fee_vault' = [fee_vault EXCEPT ![mint] = FALSE]
    /\ UNCHANGED <<registry, markets, treasury, teardown, squats>>

\* Mutant: the registry waits for its last admin to go.
CloseRegistryUngoverned(admin) ==
    /\ Admin(admin)
    /\ registry.market_count = 0
    /\ Cardinality(registry.admins) < 1
    /\ registry' = [registry EXCEPT !.open = FALSE, !.admins = {}]
    /\ teardown' = FALSE /\ squats' = 0
    /\ UNCHANGED <<markets, treasury, fee_vault>>

\* The last admin closes the registry; a fee vault left open stays behind.
CloseRegistry(admin) ==
    /\ Admin(admin)
    /\ registry.market_count = 0
    /\ Cardinality(registry.admins) <= 1
    /\ registry' = [registry EXCEPT !.open = FALSE, !.admins = {}]
    /\ teardown' = FALSE /\ squats' = 0
    /\ UNCHANGED <<markets, treasury, fee_vault>>

-----------------------------------------------------------------------------
GovernNext(admin) ==
    \/ \E u \in Users : AddAdmin(admin, u) \/ RemoveAdmin(admin, u)
    \/ \E ceiling \in Ceilings : SetRegistryDefaults(admin, ceiling)
    \/ \E mint \in Mints : SetDefaultFeeConfig(admin, mint) \/ CloseRegistryFeeVault(admin, mint)
    \/ CloseRegistry(admin)

MarketNext(admin, pair) ==
    \/ \E mint \in Mints : SetMarketFeeConfig(admin, pair, mint)
    \/ \E ceiling \in Ceilings : SetMaxPlatformFee(admin, pair, ceiling)
    \/ \E leg \in Legs : CloseMarketTreasury(admin, pair, leg) \/ ReopenTreasury(admin, pair, leg)
    \/ ForceWithdrawLeader(admin, pair)
    \/ CloseMarket(admin, pair)

StrangerNext(u) ==
    \/ \E genesis_admin \in Users, mint \in Mints : InitRegistry(u, genesis_admin, mint)
    \/ \E pair \in Pairs : CreateMarket(u, pair) \/ CreateVault(u, pair)

Next ==
    \/ \E u \in Users : GovernNext(u) \/ StrangerNext(u) \/ \E pair \in Pairs : MarketNext(u, pair)
    \/ \E pair \in Pairs : CloseVault(pair) \/ \E leg \in Legs : CreateTreasury(pair, leg)
    \/ \E mint \in Mints : CreateFeeVault(mint)
    \/ StartTeardown

Spec == Init /\ [][Next]_registryVars

\* Once they have begun, the operators keep sending what the teardown still needs.
Fairness ==
    /\ WF_registryVars(teardown /\ \E u, v \in Users : RemoveAdmin(u, v))
    /\ WF_registryVars(teardown /\ \E u \in Users : CloseRegistry(u))
    /\ \A pair \in Pairs :
          /\ WF_registryVars(teardown /\ \E u \in Users : ForceWithdrawLeader(u, pair))
          /\ WF_registryVars(teardown /\ \E u \in Users : CloseMarket(u, pair))
          /\ \A leg \in Legs :
                /\ WF_registryVars(teardown /\ \E u \in Users : CloseMarketTreasury(u, pair, leg))
                /\ WF_registryVars(\E u \in Users : ReopenTreasury(u, pair, leg))

FairSpec == Spec /\ Fairness

-----------------------------------------------------------------------------
(* Properties *)

\* The types of the accounts' fields: no ceiling is above 100 %, by whatever path it
\* came to a market.
TypeOK ==
    /\ registry \in RegistryAccount
    /\ markets \in [Pairs -> MarketAccount]
    /\ treasury \in [Pairs -> [Legs -> BOOLEAN]]
    /\ fee_vault \in [Mints -> BOOLEAN]
    /\ teardown \in BOOLEAN
    /\ squats \in 0 .. MaxSquats

\* The count is exact, through creations by anyone and closings: a market that lives
\* has a registry with an admin, across registries closed and opened again.
MarketsAreGoverned ==
    /\ registry.market_count = Cardinality(LiveMarkets)
    /\ registry.open <=> registry.admins # {}
    /\ ~registry.open => LiveMarkets = {}

\* The account create_vault pays into is there as long as the market lives, however
\* the default and the market's own fee were moved and vaults closed in between.
FeeVaultOpenForLiveMarkets == \A pair \in LiveMarkets : fee_vault[markets[pair].fee]

\* A teardown ends with the registry closed, whatever strangers create meanwhile, as
\* long as they tire of it.
TeardownCompletes == teardown ~> ~registry.open
=============================================================================
