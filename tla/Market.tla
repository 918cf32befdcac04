------------------------------- MODULE Market -------------------------------
(***************************************************************************)
(* One market of the on-chain program: its vaults, the depositors' claims  *)
(* on them, and the two treasuries that hold everyone's atoms              *)
(* (src/programs/dropset/src/instructions, state/market,                   *)
(* state/vault_depositor.rs).                                              *)
(*                                                                         *)
(* One action per instruction.  An instruction is atomic and one that      *)
(* fails changes nothing, so a `require!` is a guard; the interleavings    *)
(* are those of the instructions of leaders, depositors, admins, takers    *)
(* and strangers.  The vault lists are the abstract ones of VaultLists,    *)
(* which VaultDll implements; the order book of a vault is in Book, and a  *)
(* swap is seen here by what it does to one vault's inventory.             *)
(***************************************************************************)
EXTENDS ShareMath, FiniteSets, Functions, VaultLists

CONSTANTS
    Users,             \* the keys that sign
    Admins,            \* Registry::admins
    NoLeader,          \* Address::default(), the leader of a reclaimed sector
    QuoteKeys,         \* the quote authorities a leader may name
    Names,             \* vault names, up to case
    Unset,             \* the empty name
    Flags,             \* the values the consent flags are set to
    Amounts,           \* atoms a deposit may bring on a leg
    FillAmounts,       \* atoms a fill moves on a leg
    Residues,          \* atoms a taker or a stranger leaves in a treasury
    TakerFees,         \* atoms a fill may be charged
    FeeRates,          \* performance fee rates, in PPM
    Floors,            \* the min_leader_share values an admin sets
    DefaultFloor,      \* MarketHeader::default_min_leader_share
    Teardown,          \* the build has the admin-teardown feature
    MaxVaults,         \* Registry::max_vaults_per_market
    MaxSeq,            \* bound on the vaults ever created (the code's is u64::MAX)
    MaxAtoms           \* bound on the atoms of a leg

\* A key is 32 bytes: there are finitely many.
ASSUME MarketAssumption ==
    /\ IsFiniteSet(Users)
    /\ MaxSectors \in Nat \ {0}
    /\ Admins \subseteq Users /\ NoLeader \notin Users
    /\ Unset \notin Names
    /\ QuoteKeys \subseteq Users /\ Flags \subseteq BOOLEAN /\ Teardown \in BOOLEAN
    /\ Amounts \subseteq Nat \ {0} /\ FillAmounts \subseteq Nat \ {0}
    /\ Residues \subseteq Nat /\ TakerFees \subseteq Nat
    /\ FeeRates \subseteq 0 .. PPM /\ Floors \subseteq 0 .. PPM /\ DefaultFloor \in 0 .. PPM
    /\ MaxVaults \in Nat /\ MaxSeq \in Nat /\ MaxAtoms \in Nat

VARIABLES
    vaults,            \* the slab: sector -> Vault
    depositors,        \* the live VaultDepositor accounts: <<sector, owner>>
    shares,            \* their shares; 0 where there is no account
    outstanding_vault_depositors,
    next_vault_seq,
    treasury,          \* leg -> the balance of the market's token account
    accrued_fee,       \* leg -> accrued_base_fee_atoms, accrued_quote_fee_atoms
    treasury_open,     \* leg -> the token account exists
    market_open,       \* the market account exists
    signed             \* <<sector, seq>> of the vaults admins read before signing

marketVars == <<vaults, depositors, shares, outstanding_vault_depositors, next_vault_seq,
                treasury, accrued_fee, treasury_open, market_open, signed, listOf,
                active_count>>

NoAtoms == [leg \in Legs |-> 0]

Vault == [leader : Users \cup {NoLeader}, quote_authority : Users \cup {NoLeader},
          seq : 0 .. MaxSeq, total_shares : Nat, leader_shares : Nat,
          atoms : [Legs -> Nat], hwm : Nat, perf_fee_rate : 0 .. PPM,
          min_leader_share : 0 .. PPM, frozen : BOOLEAN, tombstoned : BOOLEAN,
          allow_outside_depositors : BOOLEAN, outside_deposits_approved : BOOLEAN,
          reference_set : BOOLEAN, name : Names \cup {Unset}, name_locked : BOOLEAN]

ZeroedVault ==
    [leader |-> NoLeader, quote_authority |-> NoLeader, seq |-> 0,
     total_shares |-> 0, leader_shares |-> 0, atoms |-> NoAtoms, hwm |-> 0,
     perf_fee_rate |-> 0, min_leader_share |-> 0, frozen |-> FALSE, tombstoned |-> FALSE,
     allow_outside_depositors |-> FALSE, outside_deposits_approved |-> FALSE,
     reference_set |-> FALSE, name |-> Unset, name_locked |-> FALSE]

Init ==
    /\ ListsInit
    /\ vaults = [s \in SectorIds |-> ZeroedVault]
    /\ depositors = {}
    /\ shares = [p \in SectorIds \X Users |-> 0]
    /\ outstanding_vault_depositors = 0
    /\ next_vault_seq = 0
    /\ treasury = NoAtoms
    /\ accrued_fee = NoAtoms
    /\ treasury_open = [leg \in Legs |-> TRUE]
    /\ market_open = TRUE
    /\ signed = {}

-----------------------------------------------------------------------------
(* Reading the slab *)

IsOccupied(s) == vaults[s].leader # NoLeader

Occupied == {s \in SectorIds : IsOccupied(s)}

\* Mutant: only unfrozen vaults count.
LeadsUnfrozenVault(u) ==
    \E s \in Occupied : vaults[s].leader = u /\ ~vaults[s].frozen /\ ~vaults[s].tombstoned

\* A frozen vault counts until it is reclaimed, an unfrozen tombstone does not.
LeadsOpenVault(u) ==
    \E s \in Occupied : /\ vaults[s].leader = u
                        /\ vaults[s].frozen \/ ~vaults[s].tombstoned

\* Mutant: a closed vault's name does not count.
NameTakenByActive(n, except) ==
    n # Unset /\ \E s \in OnListSet("Active") \ except : vaults[s].name = n

NameTaken(n, except) ==
    n # Unset /\ \E s \in Occupied \ except : vaults[s].name = n

\* leg_vault_sum walks the whole slab, reclaimed sectors included.
LegVaultSum(leg) == SumFunction([s \in SectorIds |-> vaults[s].atoms[leg]])

\* Mutant: the fee is realized whatever the vault's state.
RealizedAlways(v) ==
    LET r == RealizePerfFee(v.atoms, v.total_shares, v.leader_shares, v.hwm, v.perf_fee_rate) IN
    [v EXCEPT !.total_shares = @ + r.minted, !.leader_shares = @ + r.minted, !.hwm = r.hwm]

\* realize_in_place: a frozen or closed vault keeps its mark and pays no fee.
Realized(v) ==
    LET r == RealizePerfFee(v.atoms, v.total_shares, v.leader_shares, v.hwm, v.perf_fee_rate) IN
    IF v.frozen \/ v.tombstoned THEN v
    ELSE [v EXCEPT !.total_shares = @ + r.minted, !.leader_shares = @ + r.minted, !.hwm = r.hwm]

Update(s, v) == vaults' = [vaults EXCEPT ![s] = v]

TreasuriesOpen == \A leg \in Legs : treasury_open[leg]

\* What a treasury holds once a basket came in or went out.
Plus(a, b) == [leg \in Legs |-> a[leg] + b[leg]]
Minus(a, b) == [leg \in Legs |-> a[leg] - b[leg]]

-----------------------------------------------------------------------------
(* The life of a vault *)

\* A payer that is not an admin leads the vault itself.
CreateVault(payer, leader, authority, name, rate, allow, s) ==
    /\ market_open
    /\ active_count < MaxVaults
    /\ leader = payer \/ payer \in Admins
    /\ ~LeadsOpenVault(leader)
    /\ ~NameTaken(name, {})
    /\ next_vault_seq < MaxSeq
    /\ Open(s)
    /\ next_vault_seq' = next_vault_seq + 1
    /\ Update(s, [ZeroedVault EXCEPT
                    !.name = name, !.leader = leader, !.quote_authority = authority,
                    !.seq = next_vault_seq + 1, !.perf_fee_rate = rate, !.hwm = Q32,
                    !.min_leader_share = DefaultFloor,
                    !.allow_outside_depositors = allow])
    /\ UNCHANGED <<depositors, shares, outstanding_vault_depositors, treasury, accrued_fee,
                   treasury_open, market_open, signed>>

\* reclaim_sector on the vault v has become: only the leader is wiped.
ReclaimSector(s, v) ==
    /\ Release(s)
    /\ Update(s, [v EXCEPT !.leader = NoLeader])

\* A vault that never sold a share gives its sector back at once.
CloseVault(u, s) ==
    LET v == [vaults[s] EXCEPT !.name = Unset, !.name_locked = FALSE] IN
    /\ IsOccupied(s) /\ v.leader = u
    /\ listOf[s] = "Active"
    /\ IF v.total_shares = 0 THEN ReclaimSector(s, v)
       ELSE Retire(s) /\ Update(s, [v EXCEPT !.tombstoned = TRUE])
    /\ UNCHANGED <<depositors, shares, outstanding_vault_depositors, next_vault_seq,
                   treasury, accrued_fee, treasury_open, market_open, signed>>

-----------------------------------------------------------------------------
(* Deposits *)

DepositInto(s, v, in, minted) ==
    /\ TreasuriesOpen
    /\ \A leg \in Legs : treasury[leg] + in[leg] <= MaxAtoms
    /\ v.total_shares + minted <= U64Max
    /\ treasury' = Plus(treasury, in)
    /\ Update(s, [v EXCEPT !.atoms = Plus(@, in), !.total_shares = @ + minted])

LeaderDeposit(u, s, v, in, minted) ==
    /\ IsOccupied(s) /\ v.leader = u /\ ~v.frozen /\ ~v.tombstoned
    /\ minted > 0
    /\ DepositInto(s, [v EXCEPT !.leader_shares = @ + minted], in, minted)
    /\ UNCHANGED <<depositors, shares, outstanding_vault_depositors, next_vault_seq,
                   accrued_fee, treasury_open, market_open, signed, listVars>>

\* The leader's first deposit sets the ratio of the legs, a later one follows it.
SeedVault(u, s, basket) ==
    /\ vaults[s].total_shares = 0
    /\ LeaderDeposit(u, s, vaults[s], basket, Liquidity(basket))

DepositLeader(u, s, leg, amount) ==
    LET v == Realized(vaults[s])
        minted == BasketShares(v.total_shares, v.atoms, leg, amount)
    IN /\ v.total_shares > 0
       /\ LeaderDeposit(u, s, v, BasketIn(v.total_shares, v.atoms, minted), minted)

\* An outside deposit needs the leader's and the admin's consent, a price, and
\* must leave the leader its floor.
Deposit(u, s, leg, amount) ==
    LET v == Realized(vaults[s])
        minted == BasketShares(v.total_shares, v.atoms, leg, amount)
    IN /\ IsOccupied(s) /\ ~v.frozen /\ ~v.tombstoned /\ v.leader # u
       /\ v.total_shares > 0
       /\ v.allow_outside_depositors /\ v.outside_deposits_approved /\ v.reference_set
       /\ minted > 0
       /\ MinLeaderShareOk(v.leader_shares, v.total_shares + minted, v.min_leader_share)
       /\ DepositInto(s, v, BasketIn(v.total_shares, v.atoms, minted), minted)
       /\ depositors' = depositors \cup {<<s, u>>}
       /\ shares' = [shares EXCEPT ![<<s, u>>] = @ + minted]
       /\ outstanding_vault_depositors' =
            outstanding_vault_depositors + IF shares[<<s, u>>] = 0 THEN 1 ELSE 0
       /\ UNCHANGED <<next_vault_seq, accrued_fee, treasury_open, market_open, signed, listVars>>

-----------------------------------------------------------------------------
(* Withdrawals *)

\* Mutant: the sector goes when its leader has left.
WithdrawFromReclaimsEarly(s, v, burned) ==
    LET out == ProRataSlice(burned, v.total_shares, v.atoms)
        w == [v EXCEPT !.total_shares = @ - burned, !.atoms = Minus(@, out)]
    IN /\ TreasuriesOpen
       /\ treasury' = Minus(treasury, out)
       /\ IF w.leader_shares = 0 THEN ReclaimSector(s, w)
          ELSE Update(s, w) /\ UNCHANGED listVars

\* Burn shares of a realized vault, pay the slice out, and give the sector back
\* with its last share.
WithdrawFrom(s, v, burned) ==
    LET out == ProRataSlice(burned, v.total_shares, v.atoms)
        w == [v EXCEPT !.total_shares = @ - burned, !.atoms = Minus(@, out)]
    IN /\ TreasuriesOpen
       /\ treasury' = Minus(treasury, out)
       /\ IF w.total_shares = 0 THEN ReclaimSector(s, w)
          ELSE Update(s, w) /\ UNCHANGED listVars

\* Mutant: the account closes and the counter stays.
BurnPositionUncounted(s, u, burned) ==
    /\ shares' = [shares EXCEPT ![<<s, u>>] = @ - burned]
    /\ depositors' = IF shares[<<s, u>>] = burned THEN depositors \ {<<s, u>>} ELSE depositors
    /\ UNCHANGED outstanding_vault_depositors

\* A depositor's account closes with its last share.
BurnPosition(s, u, burned) ==
    /\ shares' = [shares EXCEPT ![<<s, u>>] = @ - burned]
    /\ IF shares[<<s, u>>] = burned
       THEN /\ depositors' = depositors \ {<<s, u>>}
            /\ outstanding_vault_depositors' =
                 IF outstanding_vault_depositors = 0 THEN 0 ELSE outstanding_vault_depositors - 1
       ELSE UNCHANGED <<depositors, outstanding_vault_depositors>>

\* Mutant: the shares burned are not held against the shares owned.
WithdrawUnchecked(u, s, burned) ==
    LET v == Realized(vaults[s]) IN
    /\ IsOccupied(s) /\ v.total_shares > 0 /\ v.leader # u
    /\ <<s, u>> \in depositors
    /\ WithdrawFrom(s, v, burned)
    /\ BurnPosition(s, u, burned)
    /\ UNCHANGED <<next_vault_seq, accrued_fee, treasury_open, market_open, signed>>

Withdraw(u, s, burned) ==
    LET v == Realized(vaults[s]) IN
    /\ IsOccupied(s) /\ v.total_shares > 0 /\ v.leader # u
    /\ <<s, u>> \in depositors /\ burned <= shares[<<s, u>>]
    /\ WithdrawFrom(s, v, burned)
    /\ BurnPosition(s, u, burned)
    /\ UNCHANGED <<next_vault_seq, accrued_fee, treasury_open, market_open, signed>>

\* The floor binds the leader of a quoting vault, unless it leaves with the
\* last share.
WithdrawLeader(u, s, burned) ==
    LET v == Realized(vaults[s])
        left == v.total_shares - burned
    IN /\ IsOccupied(s) /\ v.total_shares > 0 /\ v.leader = u
       /\ burned <= v.leader_shares
       /\ \/ v.frozen \/ v.tombstoned \/ left = 0
          \/ MinLeaderShareOk(v.leader_shares - burned, left, v.min_leader_share)
       /\ WithdrawFrom(s, [v EXCEPT !.leader_shares = @ - burned], burned)
       /\ UNCHANGED <<depositors, shares, outstanding_vault_depositors, next_vault_seq,
                      accrued_fee, treasury_open, market_open, signed>>

\* An admin pays a depositor out in full.
ForceWithdrawDepositor(u, s) ==
    LET v == Realized(vaults[s]) IN
    /\ Teardown
    /\ IsOccupied(s) /\ v.total_shares > 0
    /\ <<s, u>> \in depositors /\ shares[<<s, u>>] > 0
    /\ WithdrawFrom(s, v, shares[<<s, u>>])
    /\ BurnPosition(s, u, shares[<<s, u>>])
    /\ UNCHANGED <<next_vault_seq, accrued_fee, treasury_open, market_open, signed>>

\* An admin pays the leader out in full, or reclaims a vault never seeded.
ForceWithdrawLeader(s) ==
    LET v == Realized(vaults[s]) IN
    /\ Teardown
    /\ IsOccupied(s)
    /\ TreasuriesOpen
    /\ IF vaults[s].total_shares = 0
       THEN ReclaimSector(s, vaults[s]) /\ UNCHANGED treasury
       ELSE /\ v.leader_shares > 0
            /\ WithdrawFrom(s, [v EXCEPT !.leader_shares = 0], v.leader_shares)
    /\ UNCHANGED <<depositors, shares, outstanding_vault_depositors, next_vault_seq,
                   accrued_fee, treasury_open, market_open, signed>>

-----------------------------------------------------------------------------
(* What the leader, the quote authority and the admins set *)

\* The vault becomes v, and nothing else changes.
Retune(s, v) ==
    /\ Update(s, v)
    /\ UNCHANGED <<depositors, shares, outstanding_vault_depositors, next_vault_seq, treasury,
                   accrued_fee, treasury_open, market_open, signed, listVars>>

\* Mutant: the new leader's position is not looked at.
SetLeaderAnyone(u, s, new) ==
    /\ IsOccupied(s) /\ vaults[s].leader = u /\ ~vaults[s].frozen
    /\ new # u /\ ~LeadsOpenVault(new)
    /\ Retune(s, [vaults[s] EXCEPT !.leader = new])

\* Both leaders sign; the new one may hold no position in the vault.
SetLeader(u, s, new) ==
    /\ IsOccupied(s) /\ vaults[s].leader = u /\ ~vaults[s].frozen
    /\ new # u /\ ~LeadsOpenVault(new)
    /\ <<s, new>> \notin depositors
    /\ Retune(s, [vaults[s] EXCEPT !.leader = new])

\* Mutant: the rate changes on an unrealized gain.
SetPerfFeeRateUnrealized(u, s, rate) ==
    /\ IsOccupied(s) /\ vaults[s].leader = u
    /\ vaults[s].perf_fee_rate # rate
    /\ Retune(s, [vaults[s] EXCEPT !.perf_fee_rate = rate])

\* The new rate starts at a realized mark.
SetPerfFeeRate(u, s, rate) ==
    /\ IsOccupied(s) /\ vaults[s].leader = u
    /\ vaults[s].perf_fee_rate # rate
    /\ Retune(s, [Realized(vaults[s]) EXCEPT !.perf_fee_rate = rate])

SetAllowOutsideDepositors(u, s, flag) ==
    /\ IsOccupied(s) /\ vaults[s].leader = u
    /\ Retune(s, [vaults[s] EXCEPT !.allow_outside_depositors = flag])

SetVaultName(u, s, name) ==
    /\ IsOccupied(s) /\ vaults[s].leader = u
    /\ ~vaults[s].frozen /\ ~vaults[s].tombstoned /\ ~vaults[s].name_locked
    /\ ~NameTaken(name, {s})
    /\ Retune(s, [vaults[s] EXCEPT !.name = name])

SetQuoteAuthority(u, s, new) ==
    /\ IsOccupied(s) /\ vaults[s].leader = u
    /\ vaults[s].quote_authority # new
    /\ Retune(s, [vaults[s] EXCEPT !.quote_authority = new])

\* A quote write checks the authority alone, not that the sector is occupied,
\* and takes any price: a sentinel takes the quote away.
SetReferencePrice(u, s, matchable) ==
    /\ vaults[s].quote_authority = u
    /\ Retune(s, [vaults[s] EXCEPT !.reference_set = matchable])

\* An admin signs for the vault it reads on a sector.  What it signed may be
\* executed much later, when the sector holds another vault.
AdminSign(s) ==
    /\ IsOccupied(s)
    /\ signed' = signed \cup {<<s, vaults[s].seq>>}
    /\ UNCHANGED <<vaults, depositors, shares, outstanding_vault_depositors, next_vault_seq,
                   treasury, accrued_fee, treasury_open, market_open, listVars>>

\* Mutant: the sector is all the handler looks at.
PinnedBySector(s, seq) == IsOccupied(s)

\* The handlers compare the sequence number signed with the vault's.
Pinned(s, seq) == IsOccupied(s) /\ vaults[s].seq = seq

FreezeVault(s, seq) ==
    /\ Pinned(s, seq)
    /\ Retune(s, [vaults[s] EXCEPT !.frozen = TRUE, !.name = Unset, !.name_locked = TRUE])

SetOutsideDepositsApproved(s, seq, flag) ==
    /\ Pinned(s, seq)
    /\ Retune(s, [vaults[s] EXCEPT !.outside_deposits_approved = flag])

SetMinLeaderShare(s, seq, floor) ==
    /\ Pinned(s, seq)
    /\ Retune(s, [vaults[s] EXCEPT !.min_leader_share = floor])

OverrideVaultName(s, seq, name, lock) ==
    /\ Pinned(s, seq)
    /\ ~NameTaken(name, {s})
    /\ Retune(s, [vaults[s] EXCEPT !.name = name, !.name_locked = lock])

-----------------------------------------------------------------------------
(* Atoms that move without shares *)

\* What a swap does to the inventory of one vault it fills: the taker's input,
\* its residue unattributed, one leg out less the fee that stays behind.
Fill(s, leg, in, out, fee, residue) ==
    LET v == vaults[s]
        to == OtherLeg(leg)
    IN /\ TreasuriesOpen
       /\ listOf[s] = "Active" /\ ~v.frozen /\ v.reference_set
       /\ out <= v.atoms[to] /\ fee <= out
       /\ treasury[leg] + in + residue <= MaxAtoms
       /\ Update(s, [v EXCEPT !.atoms = [v.atoms EXCEPT ![leg] = @ + in, ![to] = @ - out]])
       /\ treasury' = [treasury EXCEPT ![leg] = @ + in + residue, ![to] = @ - (out - fee)]
       /\ accrued_fee' = [accrued_fee EXCEPT ![to] = @ + fee]
       /\ UNCHANGED <<depositors, shares, outstanding_vault_depositors, next_vault_seq,
                      treasury_open, market_open, signed, listVars>>

\* Anyone may send atoms to a treasury.
Donate(leg, amount) ==
    /\ treasury_open[leg]
    /\ treasury[leg] + amount <= MaxAtoms
    /\ treasury' = [treasury EXCEPT ![leg] = @ + amount]
    /\ UNCHANGED <<vaults, depositors, shares, outstanding_vault_depositors, next_vault_seq,
                   accrued_fee, treasury_open, market_open, signed, listVars>>

\* Mutant: the fees accrued are swept with the rest.
SweepFeesToo(leg) ==
    /\ treasury_open[leg]
    /\ treasury' = [treasury EXCEPT ![leg] = Lesser(@, LegVaultSum(leg))]
    /\ UNCHANGED <<vaults, depositors, shares, outstanding_vault_depositors, next_vault_seq,
                   accrued_fee, treasury_open, market_open, signed, listVars>>

\* An admin takes what nobody claims.
SweepResidual(leg) ==
    LET claimed == LegVaultSum(leg) + accrued_fee[leg] IN
    /\ treasury_open[leg]
    /\ treasury' = [treasury EXCEPT ![leg] = Lesser(@, claimed)]
    /\ UNCHANGED <<vaults, depositors, shares, outstanding_vault_depositors, next_vault_seq,
                   accrued_fee, treasury_open, market_open, signed, listVars>>

\* Mutant: an empty active list is enough.
CloseTreasuryUnclaimed(leg) ==
    /\ Teardown
    /\ treasury_open[leg]
    /\ active_count = 0
    /\ treasury' = [treasury EXCEPT ![leg] = 0]
    /\ accrued_fee' = [accrued_fee EXCEPT ![leg] = 0]
    /\ treasury_open' = [treasury_open EXCEPT ![leg] = FALSE]
    /\ UNCHANGED <<vaults, depositors, shares, outstanding_vault_depositors, next_vault_seq,
                   market_open, signed, listVars>>

\* An admin drains and closes one treasury once no vault claims its leg and the
\* active list is empty.
CloseMarketTreasury(leg) ==
    /\ Teardown
    /\ treasury_open[leg]
    /\ LegVaultSum(leg) = 0
    /\ active_count = 0
    /\ treasury' = [treasury EXCEPT ![leg] = 0]
    /\ accrued_fee' = [accrued_fee EXCEPT ![leg] = 0]
    /\ treasury_open' = [treasury_open EXCEPT ![leg] = FALSE]
    /\ UNCHANGED <<vaults, depositors, shares, outstanding_vault_depositors, next_vault_seq,
                   market_open, signed, listVars>>

\* The market account goes with its slab.
CloseMarket ==
    /\ Teardown
    /\ market_open
    /\ outstanding_vault_depositors = 0
    /\ \A leg \in Legs : ~treasury_open[leg]
    /\ market_open' = FALSE
    /\ vaults' = [s \in SectorIds |-> ZeroedVault]
    /\ listOf' = [s \in SectorIds |-> "Unallocated"]
    /\ active_count' = 0
    /\ next_vault_seq' = 0
    /\ UNCHANGED <<depositors, shares, outstanding_vault_depositors, treasury, accrued_fee,
                   treasury_open, signed>>

-----------------------------------------------------------------------------
(* The instructions, by who signs them *)

LeaderNext(u, s) ==
    \/ CloseVault(u, s)
    \/ \E basket \in [Legs -> Amounts] : SeedVault(u, s, basket)
    \/ \E leg \in Legs, amount \in Amounts : DepositLeader(u, s, leg, amount)
    \/ \E burned \in 1 .. U64Max : WithdrawLeader(u, s, burned)
    \/ \E new \in Users : SetLeader(u, s, new)
    \/ \E rate \in FeeRates : SetPerfFeeRate(u, s, rate)
    \/ \E flag \in Flags : SetAllowOutsideDepositors(u, s, flag)
    \/ \E name \in Names \cup {Unset} : SetVaultName(u, s, name)
    \/ \E new \in QuoteKeys : SetQuoteAuthority(u, s, new)

DepositorNext(u, s) ==
    \/ \E leg \in Legs, amount \in Amounts : Deposit(u, s, leg, amount)
    \/ \E burned \in 1 .. U64Max : Withdraw(u, s, burned)

QuoteNext(u, s) == \E matchable \in BOOLEAN : SetReferencePrice(u, s, matchable)

PinnedNext(s, seq) ==
    \/ FreezeVault(s, seq)
    \/ \E flag \in Flags : SetOutsideDepositsApproved(s, seq, flag)
    \/ \E floor \in Floors : SetMinLeaderShare(s, seq, floor)
    \/ \E name \in Names \cup {Unset}, lock \in BOOLEAN : OverrideVaultName(s, seq, name, lock)

AdminNext ==
    \/ \E s \in SectorIds : AdminSign(s) \/ ForceWithdrawLeader(s)
    \/ \E s \in SectorIds, u \in Users : ForceWithdrawDepositor(u, s)
    \/ \E p \in signed : PinnedNext(p[1], p[2])
    \/ \E leg \in Legs : SweepResidual(leg) \/ CloseMarketTreasury(leg)
    \/ CloseMarket

TakerNext ==
    \E s \in SectorIds, leg \in Legs, in, out \in FillAmounts, fee \in TakerFees,
       residue \in Residues : Fill(s, leg, in, out, fee, residue)

Next ==
    \/ \E payer, leader \in Users, authority \in QuoteKeys, name \in Names \cup {Unset},
          rate \in FeeRates, allow \in Flags, s \in SectorIds :
          CreateVault(payer, leader, authority, name, rate, allow, s)
    \/ \E u \in Users, s \in SectorIds :
          LeaderNext(u, s) \/ DepositorNext(u, s) \/ QuoteNext(u, s)
    \/ AdminNext
    \/ TakerNext
    \/ \E leg \in Legs, amount \in Residues \ {0} : Donate(leg, amount)

Spec == Init /\ [][Next]_marketVars

-----------------------------------------------------------------------------
(* Properties of every state *)

\* The types of the market's accounts.
TypeOK ==
    /\ listOf \in [SectorIds -> {"Active", "Tombstone", "Free", "Unallocated"}]
    /\ active_count \in Nat
    /\ vaults \in [SectorIds -> Vault]
    /\ depositors \subseteq SectorIds \X Users
    /\ shares \in [SectorIds \X Users -> Nat]
    /\ outstanding_vault_depositors \in Nat
    /\ next_vault_seq \in 0 .. MaxSeq
    /\ treasury \in [Legs -> Nat]
    /\ accrued_fee \in [Legs -> Nat]
    /\ treasury_open \in [Legs -> BOOLEAN]
    /\ market_open \in BOOLEAN
    /\ signed \subseteq SectorIds \X (1 .. MaxSeq)

\* Custody: on each leg the treasury covers every vault's inventory and the
\* fees accrued, whatever was swept, donated, filled or paid out; a closed
\* treasury has no claim left on it.
Solvent == \A leg \in Legs : treasury[leg] >= LegVaultSum(leg) + accrued_fee[leg]

SharesOutside(s) == SumFunction([u \in Users |-> shares[<<s, u>>]])

\* A vault's shares are its leader's and its depositors', none is minted for
\* nobody; a vault without shares holds no atoms, so that the last share to
\* leave takes everything, and a reclaimed sector leaves nothing behind.
SharesAccounted ==
    \A s \in SectorIds :
        /\ vaults[s].total_shares = vaults[s].leader_shares + SharesOutside(s)
        /\ vaults[s].total_shares = 0 => vaults[s].atoms = NoAtoms
        /\ ~IsOccupied(s) => vaults[s].total_shares = 0

\* A position belongs to the vault it was bought in: no account outlives its
\* vault (the account's address has the sector and not the vault's number),
\* and close_market's witness counts the accounts.
NoOrphanPosition ==
    /\ \A p \in SectorIds \X Users : p \in depositors <=> shares[p] > 0
    /\ \A p \in depositors : IsOccupied(p[1])
    /\ outstanding_vault_depositors = Cardinality(depositors)

\* The leader of a vault never holds a depositor's position in it: withdraw
\* refuses the leader, so the position would be stuck.
LeaderIsNoDepositor == \A p \in depositors : vaults[p[1]].leader # p[2]

\* The list a sector is on is the one its leader and tombstoned flag say.
FlagsMatchLists ==
    \A s \in SectorIds :
        /\ IsOccupied(s) <=> listOf[s] \in {"Active", "Tombstone"}
        /\ IsOccupied(s) => (vaults[s].tombstoned <=> listOf[s] = "Tombstone")

\* No one leads two quoting vaults, through creation or hand-over.
OneQuotingVaultPerLeader ==
    \A s, r \in Occupied :
        /\ s # r /\ vaults[s].leader = vaults[r].leader
        => vaults[s].tombstoned \/ vaults[r].tombstoned

\* A name or a sequence number designates one vault.
NamesAndSeqsUnique ==
    \A s, r \in Occupied :
        s # r => /\ vaults[s].seq # vaults[r].seq
                 /\ vaults[s].name = vaults[r].name => vaults[s].name = Unset

-----------------------------------------------------------------------------
(* Properties of every step *)

\* The vault on s stays the same vault.
SameVault(s) == IsOccupied(s) /\ IsOccupied(s)' /\ vaults'[s].seq = vaults[s].seq

\* A vault that is opened gets a number no vault had before.
SeqNeverReused ==
    [][\A s \in SectorIds :
          IsOccupied(s)' /\ ~SameVault(s) => vaults'[s].seq > next_vault_seq]_marketVars

AdminField(v) == <<v.frozen, v.outside_deposits_approved, v.min_leader_share>>

\* What an admin sets lands on the vault the admin read, never on a later vault
\* of the same sector.
AdminActsOnTheVaultItRead ==
    [][\A s \in SectorIds :
          /\ SameVault(s)
          /\ \/ AdminField(vaults'[s]) # AdminField(vaults[s])
             \/ vaults'[s].name_locked /\ ~vaults[s].name_locked
          => <<s, vaults[s].seq>> \in signed]_marketVars

\* A deposit or a withdrawal never lowers what a remaining share is worth on
\* either leg: all rounding is for the shares that stay.  (The fee minted on
\* the way is the leader's due.)
NothingDiluted ==
    [][\A s \in SectorIds :
          SameVault(s) /\ vaults'[s].total_shares # vaults[s].total_shares
            => \A leg \in Legs :
                  vaults'[s].atoms[leg] * Realized(vaults[s]).total_shares
                    >= vaults[s].atoms[leg] * vaults'[s].total_shares]_marketVars

\* A vault's mark never moves down, and does not move once it is frozen or
\* closed: nobody pays the fee twice on the same gain, or after the end.
MarkOnlyRises ==
    [][\A s \in SectorIds :
          SameVault(s) =>
            /\ vaults'[s].hwm >= vaults[s].hwm
            /\ vaults[s].frozen \/ vaults[s].tombstoned =>
                  /\ vaults'[s].hwm = vaults[s].hwm
                  /\ vaults'[s].total_shares <= vaults[s].total_shares]_marketVars

\* A new rate owes nothing for the gains made under the old one, as long as the
\* mark has not saturated.
RateNotRetroactive ==
    [][\A s \in SectorIds :
          /\ SameVault(s)
          /\ vaults'[s].perf_fee_rate # vaults[s].perf_fee_rate
          /\ vaults'[s].hwm < U64Max
          => Realized(vaults'[s]).total_shares = vaults'[s].total_shares]_marketVars

\* close_market takes the slab with it only when nobody has a share left.
CloseStrandsNobody ==
    [][market_open /\ ~market_open'
         => depositors = {} /\ \A s \in SectorIds : vaults[s].total_shares = 0]_marketVars

\* close_market_treasury's comment: an empty active list is the witness that
\* every sector has been reclaimed.
TreasuryClosedAfterReclaim ==
    [][\A leg \in Legs : treasury_open[leg] /\ ~treasury_open'[leg] => Occupied = {}]_marketVars
=============================================================================
