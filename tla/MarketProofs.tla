---------------------------- MODULE MarketProofs ----------------------------
(***************************************************************************)
(* Two inductive invariants of Market, for any number of sectors, users,   *)
(* names and atoms.                                                        *)
(*                                                                         *)
(* IdentityInv: who leads, what is on which list, what a number and a name *)
(* designate.  Most instructions touch none of it.  Like says so of two    *)
(* values of a sector; the lemmas KeepSector and ReclaimKeeps, with those  *)
(* of the life of a vault, say what the few others may do.                 *)
(*                                                                         *)
(* CustodyInv: the accounts add up.  SectorStep is the argument, once for  *)
(* all the instructions: one sector is rewritten and stays sound, and the  *)
(* treasuries gain at least what its inventory and the fees gain.  FairTo  *)
(* says what the instruction may do to the vault it rewrites.              *)
(***************************************************************************)
EXTENDS Market, FoldFacts

VaultFields == DOMAIN ZeroedVault

\* The shape of the slab, and no number beyond the last one given.
SlabShape ==
    /\ DOMAIN vaults = SectorIds
    /\ \A s \in SectorIds : DOMAIN vaults[s] = VaultFields
    /\ listOf \in [SectorIds -> {"Active", "Tombstone", "Free", "Unallocated"}]
    /\ next_vault_seq \in Nat
    /\ \A s \in SectorIds : vaults[s].seq \in 0 .. next_vault_seq

IdentityInv ==
    SlabShape /\ FlagsMatchLists /\ OneQuotingVaultPerLeader /\ NamesAndSeqsUnique

\* The body of SeqNeverReused.
NewVaultsAreNumbered ==
    \A s \in SectorIds :
        IsOccupied(s)' /\ ~SameVault(s) => vaults'[s].seq > next_vault_seq

\* w is the same vault as v to everyone who looks at leaders, lists, numbers and
\* names.
Like(v, w) ==
    /\ DOMAIN w = VaultFields
    /\ w.leader = v.leader /\ w.seq = v.seq /\ w.name = v.name
    /\ w.tombstoned = v.tombstoned

-----------------------------------------------------------------------------
(* Records *)

LEMMA Fields ==
    /\ {"leader", "quote_authority", "seq", "total_shares", "leader_shares", "atoms", "hwm",
        "perf_fee_rate", "min_leader_share", "frozen", "tombstoned",
        "allow_outside_depositors", "outside_deposits_approved", "reference_set", "name",
        "name_locked"} = VaultFields
  BY DEF VaultFields, ZeroedVault

\* Realizing the fee moves shares and the mark.
LEMMA RealizedLike ==
    ASSUME NEW v, DOMAIN v = VaultFields
    PROVE  Like(v, Realized(v))
  BY Fields DEF Realized, Like

-----------------------------------------------------------------------------
(* What may happen to a sector *)

\* A vault that stays on its list keeps its number; a new leader must lead no
\* open vault, a new name must be free.
LEMMA KeepSector ==
    ASSUME IdentityInv, NEW s \in SectorIds, NEW w, Update(s, w),
           listOf' = listOf, next_vault_seq' = next_vault_seq,
           DOMAIN w = VaultFields, w.seq = vaults[s].seq,
           w.tombstoned = vaults[s].tombstoned,
           w.leader = NoLeader <=> vaults[s].leader = NoLeader,
           w.leader = vaults[s].leader \/ ~LeadsOpenVault(w.leader),
           w.name = vaults[s].name \/ ~NameTaken(w.name, {s})
    PROVE  IdentityInv' /\ NewVaultsAreNumbered
  <1>1. /\ DOMAIN vaults' = SectorIds /\ vaults'[s] = w
        /\ \A t \in SectorIds \ {s} : vaults'[t] = vaults[t]
    BY DEF Update, IdentityInv, SlabShape
  <1>2. \A t \in SectorIds : IsOccupied(t)' <=> IsOccupied(t)
    BY <1>1 DEF IsOccupied
  <1>3. Occupied' = Occupied
    BY <1>2 DEF Occupied
  <1>4. \A t \in SectorIds : /\ vaults'[t].seq = vaults[t].seq
                             /\ vaults'[t].tombstoned = vaults[t].tombstoned
    BY <1>1
  <1>5. SlabShape'
    BY <1>1, <1>4 DEF IdentityInv, SlabShape
  <1>6. FlagsMatchLists'
    BY <1>2, <1>4 DEF IdentityInv, FlagsMatchLists
  <1>7. OneQuotingVaultPerLeader'
    <2> SUFFICES ASSUME NEW t \in Occupied, NEW r \in Occupied, t # r,
                        vaults'[t].leader = vaults'[r].leader
                 PROVE  vaults[t].tombstoned \/ vaults[r].tombstoned
      BY <1>3, <1>4 DEF OneQuotingVaultPerLeader, Occupied
    <2>1. CASE t # s /\ r # s
      BY <1>1, <2>1 DEF IdentityInv, OneQuotingVaultPerLeader, Occupied
    <2>2. CASE w.leader = vaults[s].leader
      BY <1>1, <2>2 DEF IdentityInv, OneQuotingVaultPerLeader, Occupied
    <2>3. CASE t = s /\ ~LeadsOpenVault(w.leader)
      BY <1>1, <2>3 DEF LeadsOpenVault, Occupied
    <2>4. CASE r = s /\ ~LeadsOpenVault(w.leader)
      BY <1>1, <2>4 DEF LeadsOpenVault, Occupied
    <2> QED
      BY <2>1, <2>2, <2>3, <2>4
  <1>8. NamesAndSeqsUnique'
    <2> SUFFICES ASSUME NEW t \in Occupied, NEW r \in Occupied, t # r
                 PROVE  /\ vaults[t].seq # vaults[r].seq
                        /\ vaults'[t].name = vaults'[r].name => vaults'[t].name = Unset
      BY <1>3, <1>4 DEF NamesAndSeqsUnique, Occupied
    <2>1. /\ vaults[t].seq # vaults[r].seq
          /\ vaults[t].name = vaults[r].name => vaults[t].name = Unset
      BY DEF IdentityInv, NamesAndSeqsUnique
    <2>2. CASE t # s /\ r # s
      BY <1>1, <2>1, <2>2 DEF Occupied
    <2>3. CASE w.name = vaults[s].name
      BY <1>1, <2>1, <2>3 DEF Occupied
    <2>4. CASE t = s /\ ~NameTaken(w.name, {s})
      BY <1>1, <2>1, <2>4 DEF NameTaken, Occupied
    <2>5. CASE r = s /\ ~NameTaken(w.name, {s})
      BY <1>1, <2>1, <2>5 DEF NameTaken, Occupied
    <2> QED
      BY <2>2, <2>3, <2>4, <2>5
  <1>9. NewVaultsAreNumbered
    BY <1>2, <1>4 DEF NewVaultsAreNumbered, SameVault
  <1> QED
    BY <1>5, <1>6, <1>7, <1>8, <1>9 DEF IdentityInv

\* A reclaimed sector is nobody's.
LEMMA ReclaimKeeps ==
    ASSUME IdentityInv, NEW s \in SectorIds, NEW v, ReclaimSector(s, v),
           next_vault_seq' = next_vault_seq,
           DOMAIN v = VaultFields, v.seq = vaults[s].seq
    PROVE  IdentityInv' /\ NewVaultsAreNumbered
  <1>1. /\ DOMAIN vaults' = SectorIds
        /\ vaults'[s] = [v EXCEPT !.leader = NoLeader]
        /\ \A t \in SectorIds \ {s} : vaults'[t] = vaults[t]
    BY DEF ReclaimSector, Update, IdentityInv, SlabShape
  <1>2. /\ DOMAIN vaults'[s] = VaultFields /\ vaults'[s].leader = NoLeader
        /\ vaults'[s].seq = vaults[s].seq
    BY <1>1, Fields
  <1>3. listOf' = [listOf EXCEPT ![s] = "Free"]
    BY DEF ReclaimSector, Release
  <1>4. Occupied' = Occupied \ {s} /\ \A t \in Occupied' : vaults'[t] = vaults[t]
    BY <1>1, <1>2 DEF Occupied, IsOccupied
  <1>5. SlabShape'
    BY <1>1, <1>2, <1>3 DEF IdentityInv, SlabShape
  <1>6. FlagsMatchLists'
    BY <1>1, <1>2, <1>3 DEF IdentityInv, SlabShape, FlagsMatchLists, IsOccupied
  <1>7. OneQuotingVaultPerLeader' /\ NamesAndSeqsUnique'
    BY <1>4 DEF IdentityInv, OneQuotingVaultPerLeader, NamesAndSeqsUnique
  <1>8. NewVaultsAreNumbered
    BY <1>1, <1>2 DEF NewVaultsAreNumbered, SameVault, IsOccupied
  <1> QED
    BY <1>5, <1>6, <1>7, <1>8 DEF IdentityInv

\* A sector whose value stays alike, on its list.
LEMMA LikeKeeps ==
    ASSUME IdentityInv, NEW s \in SectorIds, NEW w, Update(s, w), Like(vaults[s], w),
           listOf' = listOf, next_vault_seq' = next_vault_seq
    PROVE  IdentityInv' /\ NewVaultsAreNumbered
  BY KeepSector DEF Like

\* Nothing happens to the slab.
LEMMA SlabUntouched ==
    ASSUME IdentityInv, vaults' = vaults, listOf' = listOf, next_vault_seq' = next_vault_seq
    PROVE  IdentityInv' /\ NewVaultsAreNumbered
  BY DEF IdentityInv, SlabShape, FlagsMatchLists, OneQuotingVaultPerLeader,
         NamesAndSeqsUnique, NewVaultsAreNumbered, SameVault, IsOccupied, Occupied

LEMMA RetuneKeeps ==
    ASSUME IdentityInv, NEW s \in SectorIds, NEW w, Retune(s, w), Like(vaults[s], w)
    PROVE  IdentityInv' /\ NewVaultsAreNumbered
  BY LikeKeeps DEF Retune, listVars

\* A withdrawal, by anyone, out of a vault whose fee may have been realized.
LEMMA WithdrawFromKeeps ==
    ASSUME IdentityInv, NEW s \in SectorIds, NEW v, NEW burned, Like(vaults[s], v),
           WithdrawFrom(s, v, burned), next_vault_seq' = next_vault_seq
    PROVE  IdentityInv' /\ NewVaultsAreNumbered
  <1> DEFINE w == [v EXCEPT !.total_shares = @ - burned,
                            !.atoms = Minus(@, ProRataSlice(burned, v.total_shares, v.atoms))]
  <1>1. Like(vaults[s], w)
    BY Fields DEF Like
  <1>2. ReclaimSector(s, w) \/ (Update(s, w) /\ UNCHANGED listVars)
    BY DEF WithdrawFrom
  <1> HIDE DEF w
  <1>3. CASE ReclaimSector(s, w)
    BY <1>1, <1>3, ReclaimKeeps DEF Like
  <1>4. CASE Update(s, w) /\ UNCHANGED listVars
    BY <1>1, <1>4, LikeKeeps DEF listVars
  <1> QED
    BY <1>2, <1>3, <1>4

LEMMA DepositIntoKeeps ==
    ASSUME IdentityInv, NEW s \in SectorIds, NEW v, NEW in, NEW minted, Like(vaults[s], v),
           DepositInto(s, v, in, minted), listOf' = listOf, next_vault_seq' = next_vault_seq
    PROVE  IdentityInv' /\ NewVaultsAreNumbered
  <1> DEFINE w == [v EXCEPT !.atoms = Plus(@, in), !.total_shares = @ + minted]
  <1>1. Like(vaults[s], w)
    BY Fields DEF Like
  <1>2. Update(s, w)
    BY DEF DepositInto
  <1> QED
    BY <1>1, <1>2, LikeKeeps

\* A value of the slab is alike to itself.
LEMMA LikeItself ==
    ASSUME IdentityInv, NEW s \in SectorIds
    PROVE  /\ DOMAIN vaults[s] = VaultFields
           /\ Like(vaults[s], vaults[s]) /\ Like(vaults[s], Realized(vaults[s]))
  BY RealizedLike DEF Like, IdentityInv, SlabShape

-----------------------------------------------------------------------------
(* The life of a vault *)

LEMMA CreateVaultKeeps ==
    ASSUME IdentityInv, NEW payer \in Users, NEW leader \in Users, NEW authority, NEW name,
           NEW rate, NEW allow, NEW s \in SectorIds,
           CreateVault(payer, leader, authority, name, rate, allow, s)
    PROVE  IdentityInv' /\ NewVaultsAreNumbered
  <1> DEFINE w == [ZeroedVault EXCEPT
                     !.name = name, !.leader = leader, !.quote_authority = authority,
                     !.seq = next_vault_seq + 1, !.perf_fee_rate = rate, !.hwm = Q32,
                     !.min_leader_share = DefaultFloor, !.allow_outside_depositors = allow]
  <1>1. /\ w.leader = leader /\ w.name = name /\ w.seq = next_vault_seq + 1
        /\ w.tombstoned = FALSE /\ DOMAIN w = VaultFields
    BY DEF ZeroedVault, VaultFields
  <1>2. /\ Update(s, w) /\ next_vault_seq' = next_vault_seq + 1
        /\ ~LeadsOpenVault(leader) /\ ~NameTaken(name, {})
        /\ listOf[s] \in {"Free", "Unallocated"}
        /\ listOf' = [listOf EXCEPT ![s] = "Active"]
    BY DEF CreateVault, Open, OnListSet
  <1> HIDE DEF w
  <1>3. /\ DOMAIN vaults' = SectorIds /\ vaults'[s] = w
        /\ \A t \in SectorIds \ {s} : vaults'[t] = vaults[t]
    BY <1>2 DEF Update, IdentityInv, SlabShape
  <1>4. leader # NoLeader
    BY MarketAssumption
  <1>5. s \notin Occupied /\ Occupied' = Occupied \cup {s}
    BY <1>1, <1>2, <1>3, <1>4 DEF Occupied, IsOccupied, IdentityInv, FlagsMatchLists
  <1>6. \A t \in Occupied : t # s /\ vaults'[t] = vaults[t] /\ vaults[t].seq <= next_vault_seq
    BY <1>3, <1>5 DEF Occupied, IdentityInv, SlabShape
  <1>7. next_vault_seq \in Nat
    BY DEF IdentityInv, SlabShape
  <1>8. SlabShape'
    BY <1>1, <1>2, <1>3, <1>7 DEF IdentityInv, SlabShape
  <1>9. FlagsMatchLists'
    BY <1>1, <1>2, <1>3, <1>4 DEF IdentityInv, SlabShape, FlagsMatchLists, IsOccupied
  <1>10. OneQuotingVaultPerLeader'
    <2>1. \A t \in Occupied : vaults[t].leader = leader => vaults[t].tombstoned
      BY <1>2 DEF LeadsOpenVault
    <2> QED
      BY <1>1, <1>3, <1>5, <1>6, <2>1 DEF IdentityInv, OneQuotingVaultPerLeader
  <1>11. NamesAndSeqsUnique'
    <2>1. \A t \in Occupied : vaults[t].name = name => name = Unset
      BY <1>2 DEF NameTaken
    <2>2. \A t \in Occupied : vaults[t].seq # next_vault_seq + 1
      BY <1>6, <1>7 DEF Occupied, IdentityInv, SlabShape
    <2> QED
      BY <1>1, <1>3, <1>5, <1>6, <2>1, <2>2 DEF IdentityInv, NamesAndSeqsUnique
  <1>12. NewVaultsAreNumbered
    <2>1. w.seq > next_vault_seq
      BY <1>1, <1>7
    <2> QED
      BY <1>3, <2>1 DEF NewVaultsAreNumbered, SameVault, IsOccupied
  <1> QED
    BY <1>8, <1>9, <1>10, <1>11, <1>12 DEF IdentityInv

LEMMA CloseVaultKeeps ==
    ASSUME IdentityInv, NEW u \in Users, NEW s \in SectorIds, CloseVault(u, s)
    PROVE  IdentityInv' /\ NewVaultsAreNumbered
  <1> DEFINE v == [vaults[s] EXCEPT !.name = Unset, !.name_locked = FALSE]
  <1>1. /\ DOMAIN v = VaultFields /\ v.leader = vaults[s].leader /\ v.seq = vaults[s].seq
        /\ v.name = Unset
    BY LikeItself, Fields
  <1>2. next_vault_seq' = next_vault_seq
    BY DEF CloseVault
  <1> DEFINE w == [v EXCEPT !.tombstoned = TRUE]
  <1>3. /\ DOMAIN w = VaultFields /\ w.leader = vaults[s].leader /\ w.seq = vaults[s].seq
        /\ w.name = Unset /\ w.tombstoned = TRUE
    BY <1>1, Fields
  <1>4. ReclaimSector(s, v) \/ (Retire(s) /\ Update(s, w))
    BY DEF CloseVault
  <1> HIDE DEF v, w
  <1>5. CASE ReclaimSector(s, v)
    BY <1>1, <1>2, <1>5, ReclaimKeeps
  <1>6. CASE Retire(s) /\ Update(s, w)
    <2>1. /\ DOMAIN vaults' = SectorIds /\ vaults'[s] = w
          /\ \A t \in SectorIds \ {s} : vaults'[t] = vaults[t]
          /\ listOf[s] = "Active" /\ listOf' = [listOf EXCEPT ![s] = "Tombstone"]
      BY <1>6 DEF Update, Retire, IdentityInv, SlabShape
    <2>2. Occupied' = Occupied
      BY <1>3, <2>1 DEF Occupied, IsOccupied
    <2>3. SlabShape'
      BY <1>2, <1>3, <2>1 DEF IdentityInv, SlabShape
    <2>4. FlagsMatchLists'
      BY <1>3, <2>1 DEF IdentityInv, SlabShape, FlagsMatchLists, IsOccupied
    <2>5. OneQuotingVaultPerLeader'
      BY <1>3, <2>1, <2>2 DEF IdentityInv, OneQuotingVaultPerLeader, Occupied
    <2>6. NamesAndSeqsUnique'
      BY <1>3, <2>1, <2>2 DEF IdentityInv, NamesAndSeqsUnique, Occupied
    <2>7. NewVaultsAreNumbered
      BY <1>3, <2>1 DEF NewVaultsAreNumbered, SameVault, IsOccupied
    <2> QED
      BY <2>3, <2>4, <2>5, <2>6, <2>7 DEF IdentityInv
  <1> QED
    BY <1>4, <1>5, <1>6

LEMMA CloseMarketKeeps ==
    ASSUME IdentityInv, CloseMarket
    PROVE  IdentityInv' /\ NewVaultsAreNumbered
  <1>1. /\ vaults' = [s \in SectorIds |-> ZeroedVault]
        /\ listOf' = [s \in SectorIds |-> "Unallocated"] /\ next_vault_seq' = 0
    BY DEF CloseMarket
  <1>2. ZeroedVault.leader = NoLeader /\ ZeroedVault.seq = 0
    BY DEF ZeroedVault
  <1>3. \A s \in SectorIds : ~IsOccupied(s)'
    BY <1>1, <1>2 DEF IsOccupied
  <1>4. SlabShape'
    BY <1>1, <1>2 DEF SlabShape, VaultFields
  <1>5. FlagsMatchLists' /\ OneQuotingVaultPerLeader' /\ NamesAndSeqsUnique'
    BY <1>1, <1>3 DEF FlagsMatchLists, OneQuotingVaultPerLeader, NamesAndSeqsUnique, Occupied
  <1>6. NewVaultsAreNumbered
    BY <1>3 DEF NewVaultsAreNumbered
  <1> QED
    BY <1>4, <1>5, <1>6 DEF IdentityInv

-----------------------------------------------------------------------------
(* The instructions, by who signs them *)

LEMMA LeaderDepositKeeps ==
    ASSUME IdentityInv, NEW u \in Users, NEW s \in SectorIds, NEW v, NEW in, NEW minted,
           Like(vaults[s], v), LeaderDeposit(u, s, v, in, minted)
    PROVE  IdentityInv' /\ NewVaultsAreNumbered
  <1> DEFINE w == [v EXCEPT !.leader_shares = @ + minted]
  <1>1. Like(vaults[s], w)
    BY Fields DEF Like
  <1>2. DepositInto(s, w, in, minted) /\ listOf' = listOf /\ next_vault_seq' = next_vault_seq
    BY DEF LeaderDeposit, listVars
  <1> QED
    BY <1>1, <1>2, DepositIntoKeeps

LEMMA SetLeaderKeeps ==
    ASSUME IdentityInv, NEW u \in Users, NEW s \in SectorIds, NEW new \in Users,
           SetLeader(u, s, new)
    PROVE  IdentityInv' /\ NewVaultsAreNumbered
  <1> DEFINE w == [vaults[s] EXCEPT !.leader = new]
  <1>1. /\ DOMAIN w = VaultFields /\ w.leader = new /\ w.seq = vaults[s].seq
        /\ w.name = vaults[s].name /\ w.tombstoned = vaults[s].tombstoned
    BY LikeItself, Fields
  <1>2. new # NoLeader /\ vaults[s].leader # NoLeader
    BY MarketAssumption DEF SetLeader, IsOccupied
  <1>3. /\ Update(s, w) /\ listOf' = listOf /\ next_vault_seq' = next_vault_seq
        /\ ~LeadsOpenVault(new)
    BY DEF SetLeader, Retune, listVars
  <1> HIDE DEF w
  <1> QED
    BY <1>1, <1>2, <1>3, KeepSector

\* A name is set where it is free; freezing takes it away.
LEMMA RenameKeeps ==
    ASSUME IdentityInv, NEW s \in SectorIds, NEW name, NEW w, Retune(s, w),
           ~NameTaken(name, {s}), DOMAIN w = VaultFields,
           w.leader = vaults[s].leader, w.seq = vaults[s].seq, w.name = name,
           w.tombstoned = vaults[s].tombstoned
    PROVE  IdentityInv' /\ NewVaultsAreNumbered
  BY KeepSector DEF Retune, listVars

LEMMA LeaderNextKeeps ==
    ASSUME IdentityInv, NEW u \in Users, NEW s \in SectorIds, LeaderNext(u, s)
    PROVE  IdentityInv' /\ NewVaultsAreNumbered
  <1>1. CASE CloseVault(u, s)
    BY <1>1, CloseVaultKeeps
  <1>2. ASSUME NEW basket \in [Legs -> Amounts], SeedVault(u, s, basket)
        PROVE  IdentityInv' /\ NewVaultsAreNumbered
    BY <1>2, LikeItself, LeaderDepositKeeps DEF SeedVault
  <1>3. ASSUME NEW leg \in Legs, NEW amount \in Amounts, DepositLeader(u, s, leg, amount)
        PROVE  IdentityInv' /\ NewVaultsAreNumbered
    BY <1>3, LikeItself, LeaderDepositKeeps DEF DepositLeader
  <1>4. ASSUME NEW burned, WithdrawLeader(u, s, burned)
        PROVE  IdentityInv' /\ NewVaultsAreNumbered
    <2> DEFINE v == [Realized(vaults[s]) EXCEPT !.leader_shares = @ - burned]
    <2>1. Like(vaults[s], v)
      BY LikeItself, Fields DEF Like
    <2>2. WithdrawFrom(s, v, burned) /\ next_vault_seq' = next_vault_seq
      BY <1>4 DEF WithdrawLeader
    <2> QED
      BY <2>1, <2>2, WithdrawFromKeeps
  <1>5. ASSUME NEW new \in Users, SetLeader(u, s, new)
        PROVE  IdentityInv' /\ NewVaultsAreNumbered
    BY <1>5, SetLeaderKeeps
  <1>6. ASSUME NEW rate, SetPerfFeeRate(u, s, rate)
        PROVE  IdentityInv' /\ NewVaultsAreNumbered
    <2> DEFINE w == [Realized(vaults[s]) EXCEPT !.perf_fee_rate = rate]
    <2>1. Like(vaults[s], w)
      BY LikeItself, Fields DEF Like
    <2>2. Retune(s, w)
      BY <1>6 DEF SetPerfFeeRate
    <2> QED
      BY <2>1, <2>2, RetuneKeeps
  <1>7. ASSUME NEW flag, SetAllowOutsideDepositors(u, s, flag)
        PROVE  IdentityInv' /\ NewVaultsAreNumbered
    <2> DEFINE w == [vaults[s] EXCEPT !.allow_outside_depositors = flag]
    <2>1. Like(vaults[s], w)
      BY LikeItself, Fields DEF Like
    <2>2. Retune(s, w)
      BY <1>7 DEF SetAllowOutsideDepositors
    <2> QED
      BY <2>1, <2>2, RetuneKeeps
  <1>8. ASSUME NEW name, SetVaultName(u, s, name)
        PROVE  IdentityInv' /\ NewVaultsAreNumbered
    <2> DEFINE w == [vaults[s] EXCEPT !.name = name]
    <2>1. /\ DOMAIN w = VaultFields /\ w.leader = vaults[s].leader /\ w.seq = vaults[s].seq
          /\ w.name = name /\ w.tombstoned = vaults[s].tombstoned
      BY LikeItself, Fields
    <2>2. Retune(s, w) /\ ~NameTaken(name, {s})
      BY <1>8 DEF SetVaultName
    <2> HIDE DEF w
    <2> QED
      BY <2>1, <2>2, RenameKeeps
  <1>9. ASSUME NEW new, SetQuoteAuthority(u, s, new)
        PROVE  IdentityInv' /\ NewVaultsAreNumbered
    <2> DEFINE w == [vaults[s] EXCEPT !.quote_authority = new]
    <2>1. Like(vaults[s], w)
      BY LikeItself, Fields DEF Like
    <2>2. Retune(s, w)
      BY <1>9 DEF SetQuoteAuthority
    <2> QED
      BY <2>1, <2>2, RetuneKeeps
  <1> QED
    BY <1>1, <1>2, <1>3, <1>4, <1>5, <1>6, <1>7, <1>8, <1>9 DEF LeaderNext

LEMMA DepositorNextKeeps ==
    ASSUME IdentityInv, NEW u \in Users, NEW s \in SectorIds, DepositorNext(u, s)
    PROVE  IdentityInv' /\ NewVaultsAreNumbered
  <1>1. ASSUME NEW leg \in Legs, NEW amount \in Amounts, Deposit(u, s, leg, amount)
        PROVE  IdentityInv' /\ NewVaultsAreNumbered
    <2>1. PICK in, minted : DepositInto(s, Realized(vaults[s]), in, minted)
      BY <1>1 DEF Deposit
    <2>2. listOf' = listOf /\ next_vault_seq' = next_vault_seq
      BY <1>1 DEF Deposit, listVars
    <2> QED
      BY <2>1, <2>2, LikeItself, DepositIntoKeeps
  <1>2. ASSUME NEW burned, Withdraw(u, s, burned)
        PROVE  IdentityInv' /\ NewVaultsAreNumbered
    BY <1>2, LikeItself, WithdrawFromKeeps DEF Withdraw
  <1> QED
    BY <1>1, <1>2 DEF DepositorNext

LEMMA SetReferencePriceKeeps ==
    ASSUME IdentityInv, NEW u \in Users, NEW s \in SectorIds, NEW matchable \in BOOLEAN,
           SetReferencePrice(u, s, matchable)
    PROVE  IdentityInv' /\ NewVaultsAreNumbered
  <1> DEFINE w == [vaults[s] EXCEPT !.reference_set = matchable]
  <1>1. Like(vaults[s], w)
    BY LikeItself, Fields DEF Like
  <1>2. Retune(s, w)
    BY DEF SetReferencePrice
  <1> QED
    BY <1>1, <1>2, RetuneKeeps

LEMMA PinnedNextKeeps ==
    ASSUME IdentityInv, NEW s \in SectorIds, NEW seq, PinnedNext(s, seq)
    PROVE  IdentityInv' /\ NewVaultsAreNumbered
  <1>1. CASE FreezeVault(s, seq)
    <2> DEFINE w == [vaults[s] EXCEPT !.frozen = TRUE, !.name = Unset, !.name_locked = TRUE]
    <2>1. /\ DOMAIN w = VaultFields /\ w.leader = vaults[s].leader /\ w.seq = vaults[s].seq
          /\ w.name = Unset /\ w.tombstoned = vaults[s].tombstoned
      BY LikeItself, Fields
    <2>2. Retune(s, w) /\ ~NameTaken(Unset, {s})
      BY <1>1 DEF FreezeVault, NameTaken
    <2> HIDE DEF w
    <2> QED
      BY <2>1, <2>2, RenameKeeps
  <1>2. ASSUME NEW flag, SetOutsideDepositsApproved(s, seq, flag)
        PROVE  IdentityInv' /\ NewVaultsAreNumbered
    <2> DEFINE w == [vaults[s] EXCEPT !.outside_deposits_approved = flag]
    <2>1. Like(vaults[s], w)
      BY LikeItself, Fields DEF Like
    <2>2. Retune(s, w)
      BY <1>2 DEF SetOutsideDepositsApproved
    <2> QED
      BY <2>1, <2>2, RetuneKeeps
  <1>3. ASSUME NEW floor, SetMinLeaderShare(s, seq, floor)
        PROVE  IdentityInv' /\ NewVaultsAreNumbered
    <2> DEFINE w == [vaults[s] EXCEPT !.min_leader_share = floor]
    <2>1. Like(vaults[s], w)
      BY LikeItself, Fields DEF Like
    <2>2. Retune(s, w)
      BY <1>3 DEF SetMinLeaderShare
    <2> QED
      BY <2>1, <2>2, RetuneKeeps
  <1>4. ASSUME NEW name, NEW lock, OverrideVaultName(s, seq, name, lock)
        PROVE  IdentityInv' /\ NewVaultsAreNumbered
    <2> DEFINE w == [vaults[s] EXCEPT !.name = name, !.name_locked = lock]
    <2>1. /\ DOMAIN w = VaultFields /\ w.leader = vaults[s].leader /\ w.seq = vaults[s].seq
          /\ w.name = name /\ w.tombstoned = vaults[s].tombstoned
      BY LikeItself, Fields
    <2>2. Retune(s, w) /\ ~NameTaken(name, {s})
      BY <1>4 DEF OverrideVaultName
    <2> HIDE DEF w
    <2> QED
      BY <2>1, <2>2, RenameKeeps
  <1> QED
    BY <1>1, <1>2, <1>3, <1>4 DEF PinnedNext

LEMMA ForceWithdrawLeaderKeeps ==
    ASSUME IdentityInv, NEW s \in SectorIds, ForceWithdrawLeader(s)
    PROVE  IdentityInv' /\ NewVaultsAreNumbered
  <1> DEFINE v == [Realized(vaults[s]) EXCEPT !.leader_shares = 0]
  <1>1. Like(vaults[s], v)
    BY LikeItself, Fields DEF Like
  <1>2. next_vault_seq' = next_vault_seq
    BY DEF ForceWithdrawLeader
  <1>3. \/ ReclaimSector(s, vaults[s])
        \/ WithdrawFrom(s, v, Realized(vaults[s]).leader_shares)
    BY DEF ForceWithdrawLeader
  <1> HIDE DEF v
  <1>4. CASE ReclaimSector(s, vaults[s])
    BY <1>2, <1>4, LikeItself, ReclaimKeeps
  <1>5. CASE WithdrawFrom(s, v, Realized(vaults[s]).leader_shares)
    BY <1>1, <1>2, <1>5, WithdrawFromKeeps
  <1> QED
    BY <1>3, <1>4, <1>5

\* Admins sign only for sectors of the slab.
SignedSectors == signed \subseteq SectorIds \X Nat

LEMMA AdminNextKeeps ==
    ASSUME IdentityInv, SignedSectors, AdminNext
    PROVE  IdentityInv' /\ NewVaultsAreNumbered
  <1>1. ASSUME NEW s \in SectorIds, AdminSign(s)
        PROVE  IdentityInv' /\ NewVaultsAreNumbered
    BY <1>1, SlabUntouched DEF AdminSign, listVars
  <1>2. ASSUME NEW s \in SectorIds, ForceWithdrawLeader(s)
        PROVE  IdentityInv' /\ NewVaultsAreNumbered
    BY <1>2, ForceWithdrawLeaderKeeps
  <1>3. ASSUME NEW s \in SectorIds, NEW u \in Users, ForceWithdrawDepositor(u, s)
        PROVE  IdentityInv' /\ NewVaultsAreNumbered
    BY <1>3, LikeItself, WithdrawFromKeeps DEF ForceWithdrawDepositor
  <1>4. ASSUME NEW p \in signed, PinnedNext(p[1], p[2])
        PROVE  IdentityInv' /\ NewVaultsAreNumbered
    <2>1. p[1] \in SectorIds
      BY DEF SignedSectors
    <2> QED
      BY <1>4, <2>1, PinnedNextKeeps
  <1>5. ASSUME NEW leg \in Legs, SweepResidual(leg) \/ CloseMarketTreasury(leg)
        PROVE  IdentityInv' /\ NewVaultsAreNumbered
    BY <1>5, SlabUntouched DEF SweepResidual, CloseMarketTreasury, listVars
  <1>6. CASE CloseMarket
    BY <1>6, CloseMarketKeeps
  <1> QED
    BY <1>1, <1>2, <1>3, <1>4, <1>5, <1>6 DEF AdminNext

\* A fill moves atoms; it renames nobody.
LEMMA TakerNextKeeps ==
    ASSUME IdentityInv, TakerNext
    PROVE  IdentityInv' /\ NewVaultsAreNumbered
  <1>1. PICK s \in SectorIds, leg \in Legs, in \in FillAmounts, out \in FillAmounts,
             fee \in TakerFees, residue \in Residues : Fill(s, leg, in, out, fee, residue)
    BY DEF TakerNext
  <1>2. PICK a : Update(s, [vaults[s] EXCEPT !.atoms = a])
    BY <1>1 DEF Fill
  <1>3. Like(vaults[s], [vaults[s] EXCEPT !.atoms = a])
    BY LikeItself, Fields DEF Like
  <1>4. listOf' = listOf /\ next_vault_seq' = next_vault_seq
    BY <1>1 DEF Fill, listVars
  <1> QED
    BY <1>2, <1>3, <1>4, LikeKeeps

-----------------------------------------------------------------------------
(* The invariant *)

MarketIInv == IdentityInv /\ SignedSectors

LEMMA InitIdentity == Init => MarketIInv
  <1> SUFFICES ASSUME Init PROVE MarketIInv
    OBVIOUS
  <1>1. /\ vaults = [s \in SectorIds |-> ZeroedVault] /\ next_vault_seq = 0 /\ signed = {}
        /\ listOf = [s \in SectorIds |-> "Unallocated"]
    BY DEF Init, ListsInit
  <1>2. ZeroedVault.leader = NoLeader /\ ZeroedVault.seq = 0
    BY DEF ZeroedVault
  <1>3. \A s \in SectorIds : ~IsOccupied(s)
    BY <1>1, <1>2 DEF IsOccupied
  <1>4. SlabShape
    BY <1>1, <1>2 DEF SlabShape, VaultFields
  <1>5. FlagsMatchLists /\ OneQuotingVaultPerLeader /\ NamesAndSeqsUnique
    BY <1>1, <1>3 DEF FlagsMatchLists, OneQuotingVaultPerLeader, NamesAndSeqsUnique, Occupied
  <1> QED
    BY <1>1, <1>4, <1>5 DEF MarketIInv, IdentityInv, SignedSectors

LEMMA StepKeepsIdentity ==
    ASSUME MarketIInv, Next
    PROVE  IdentityInv' /\ NewVaultsAreNumbered
  <1> USE DEF MarketIInv
  <1>1. ASSUME NEW payer \in Users, NEW leader \in Users, NEW authority \in QuoteKeys,
               NEW name \in Names \cup {Unset}, NEW rate \in FeeRates, NEW allow \in Flags,
               NEW s \in SectorIds, CreateVault(payer, leader, authority, name, rate, allow, s)
        PROVE  IdentityInv' /\ NewVaultsAreNumbered
    BY <1>1, CreateVaultKeeps
  <1>2. ASSUME NEW u \in Users, NEW s \in SectorIds,
               LeaderNext(u, s) \/ DepositorNext(u, s) \/ QuoteNext(u, s)
        PROVE  IdentityInv' /\ NewVaultsAreNumbered
    BY <1>2, LeaderNextKeeps, DepositorNextKeeps, SetReferencePriceKeeps DEF QuoteNext
  <1>3. CASE AdminNext
    BY <1>3, AdminNextKeeps
  <1>4. CASE TakerNext
    BY <1>4, TakerNextKeeps
  <1>5. ASSUME NEW leg \in Legs, NEW amount, Donate(leg, amount)
        PROVE  IdentityInv' /\ NewVaultsAreNumbered
    BY <1>5, SlabUntouched DEF Donate, listVars
  <1> QED
    BY <1>1, <1>2, <1>3, <1>4, <1>5 DEF Next

\* Only AdminSign adds to what was signed.
LEMMA StepKeepsSigned ==
    ASSUME MarketIInv, Next
    PROVE  SignedSectors'
  <1>1. ASSUME NEW s \in SectorIds, AdminSign(s)
        PROVE  SignedSectors'
    <2>1. vaults[s].seq \in Nat
      BY DEF MarketIInv, IdentityInv, SlabShape
    <2> QED
      BY <1>1, <2>1 DEF AdminSign, MarketIInv, SignedSectors
  <1>2. ASSUME signed' = signed
        PROVE  SignedSectors'
    BY <1>2 DEF MarketIInv, SignedSectors
  <1>3. ASSUME NEW u, NEW s, LeaderNext(u, s)
        PROVE  signed' = signed
    BY <1>3 DEF LeaderNext, CloseVault, SeedVault, DepositLeader, LeaderDeposit, WithdrawLeader,
                SetLeader, SetPerfFeeRate, SetAllowOutsideDepositors, SetVaultName,
                SetQuoteAuthority, Retune
  <1>4. ASSUME NEW u, NEW s, DepositorNext(u, s) \/ QuoteNext(u, s)
        PROVE  signed' = signed
    BY <1>4 DEF DepositorNext, Deposit, Withdraw, QuoteNext, SetReferencePrice, Retune
  <1>5. ASSUME NEW s, NEW seq, PinnedNext(s, seq)
        PROVE  signed' = signed
    BY <1>5 DEF PinnedNext, FreezeVault, SetOutsideDepositsApproved, SetMinLeaderShare,
                OverrideVaultName, Retune
  <1>6. CASE AdminNext
    BY <1>1, <1>2, <1>5, <1>6 DEF AdminNext, ForceWithdrawLeader, ForceWithdrawDepositor,
                                  SweepResidual, CloseMarketTreasury, CloseMarket
  <1>7. CASE TakerNext
    BY <1>2, <1>7 DEF TakerNext, Fill
  <1>8. ASSUME NEW leg, NEW amount, Donate(leg, amount)
        PROVE  signed' = signed
    BY <1>8 DEF Donate
  <1>9. ASSUME NEW payer, NEW leader, NEW authority, NEW name, NEW rate, NEW allow, NEW s,
               CreateVault(payer, leader, authority, name, rate, allow, s)
        PROVE  signed' = signed
    BY <1>9 DEF CreateVault
  <1> QED
    BY <1>2, <1>3, <1>4, <1>6, <1>7, <1>8, <1>9 DEF Next

\* Every reachable market has the shape the identity argument needs.
THEOREM MarketIdentityInductive == Spec => []MarketIInv
  <1>1. MarketIInv /\ [Next]_marketVars => MarketIInv'
    <2>1. MarketIInv /\ Next => MarketIInv'
      BY StepKeepsIdentity, StepKeepsSigned DEF MarketIInv
    <2>2. MarketIInv /\ UNCHANGED marketVars => MarketIInv'
      BY SlabUntouched DEF marketVars, MarketIInv, SignedSectors
    <2> QED
      BY <2>1, <2>2
  <1> QED
    BY InitIdentity, <1>1, PTL DEF Spec

\* The list a sector is on is the one its leader and its tombstoned flag say,
\* whoever opened, closed, emptied or handed over a vault.
THEOREM MarketFlagsMatchLists == Spec => []FlagsMatchLists
  <1>1. MarketIInv => FlagsMatchLists
    BY DEF MarketIInv, IdentityInv
  <1> QED
    BY <1>1, MarketIdentityInductive, PTL

\* No leader, by CreateVault or SetLeader, comes to lead two quoting vaults.
THEOREM MarketOneQuotingVaultPerLeader == Spec => []OneQuotingVaultPerLeader
  <1>1. MarketIInv => OneQuotingVaultPerLeader
    BY DEF MarketIInv, IdentityInv
  <1> QED
    BY <1>1, MarketIdentityInductive, PTL

\* Two vaults share neither a number nor a name.
THEOREM MarketNamesAndSeqsUnique == Spec => []NamesAndSeqsUnique
  <1>1. MarketIInv => NamesAndSeqsUnique
    BY DEF MarketIInv, IdentityInv
  <1> QED
    BY <1>1, MarketIdentityInductive, PTL

\* A sector that changes hands through reclaim gets a number never given before.
THEOREM MarketSeqNeverReused == Spec => SeqNeverReused
  <1>1. MarketIInv /\ [Next]_marketVars => [NewVaultsAreNumbered]_marketVars
    BY StepKeepsIdentity
  <1> QED
    BY <1>1, MarketIdentityInductive, PTL DEF Spec, SeqNeverReused, NewVaultsAreNumbered

-----------------------------------------------------------------------------
(* The share arithmetic *)

\* r is the integer square root of n.
IsRoot(n, r) == r * r <= n /\ n < (r + 1) * (r + 1)

\* Every natural number has an integer square root.
LEMMA IsqrtExists == \A n \in Nat : \E r \in 0 .. n : IsRoot(n, r)
  <1> DEFINE T == {n \in Nat : \E r \in 0 .. n : IsRoot(n, r)}
  <1>1. 0 \in T
    BY DEF IsRoot
  <1>2. ASSUME NEW n \in Nat, n \in T
        PROVE  n + 1 \in T
    <2>1. PICK r \in 0 .. n : IsRoot(n, r)
      BY <1>2
    <2>2. CASE n + 1 < (r + 1) * (r + 1)
      <3>1. IsRoot(n + 1, r)
        BY <2>1, <2>2 DEF IsRoot
      <3> QED
        BY <3>1
    <2>3. CASE ~(n + 1 < (r + 1) * (r + 1))
      <3>1. (r + 1) * (r + 1) < (r + 2) * (r + 2)
        <4>1. (r + 2) * (r + 2) = (r + 1) * (r + 1) + 2 * r + 3
          OBVIOUS
        <4> DEFINE q == (r + 1) * (r + 1)
        <4>2. q \in Nat
          OBVIOUS
        <4> HIDE DEF q
        <4> QED
          BY <4>1, <4>2 DEF q
      <3>2. IsRoot(n + 1, r + 1)
        BY <2>1, <2>3, <3>1 DEF IsRoot
      <3> QED
        BY <3>2
    <2> QED
      BY <2>2, <2>3
  <1>3. \A n \in Nat : n \in T
    <2> HIDE DEF T
    <2> QED
      BY <1>1, <1>2, NatSetInduction
  <1> QED
    BY <1>3

\* Isqrt picks that root.
LEMMA LiquidityType ==
    ASSUME NEW atoms \in [Legs -> Nat]
    PROVE  Liquidity(atoms) \in Nat
  <1> DEFINE n == atoms["base"] * atoms["quote"]
  <1>1. n \in Nat
    BY DEF Legs
  <1> HIDE DEF n
  <1>2. \E r \in 0 .. n : r * r <= n /\ n < (r + 1) * (r + 1)
    BY <1>1, IsqrtExists DEF IsRoot
  <1>3. Isqrt(n) \in 0 .. n
    BY <1>2 DEF Isqrt
  <1> QED
    BY <1>1, <1>3 DEF Liquidity, n

\* What integer division promises.
LEMMA DivType ==
    ASSUME NEW a \in Nat, NEW b \in Nat \ {0}
    PROVE  /\ a \div b \in Nat
           /\ (a \div b) * b <= a
           /\ a < (a \div b) * b + b
  OBVIOUS

\* ratchet_hwm never lowers the mark, and reaches the value until it saturates.
LEMMA MarkRatchets ==
    ASSUME NEW vps \in Nat, NEW hwm \in Nat
    PROVE  /\ RatchetHwm(vps, hwm) \in Nat /\ RatchetHwm(vps, hwm) >= hwm
           /\ RatchetHwm(vps, hwm) < U64Max => vps <= RatchetHwm(vps, hwm)
  BY ShareMathAssumption DEF RatchetHwm, Greater, Lesser

\* realize_perf_fee mints within the shares there may be, raises the mark, and
\* leaves a mark that covers the value per share unless it has saturated.
LEMMA FeeFacts ==
    ASSUME NEW atoms \in [Legs -> Nat], NEW total \in 0 .. U64Max, NEW leader \in 0 .. total,
           NEW hwm \in Nat, NEW rate \in Nat
    PROVE  LET r == RealizePerfFee(atoms, total, leader, hwm, rate) IN
           /\ r.minted \in Nat /\ total + r.minted <= U64Max
           /\ total = 0 => r.minted = 0
           /\ r.hwm \in Nat /\ r.hwm >= hwm
           /\ r.hwm < U64Max /\ total > 0
                => (Liquidity(atoms) * Q32) \div (total + r.minted) <= r.hwm
  <1> DEFINE l == Liquidity(atoms)
             f == Lesser(rate, PPM)
             vps == (l * Q32) \div total
             hwm_s == (hwm * total) \div Q32
             denom == (PPM - f) * l + f * hwm_s
             headroom == Lesser(U64Max - total, U64Max - leader)
             gain == f * total * (l - hwm_s)
             minted == IF l <= hwm_s \/ denom = 0 THEN 0
                       ELSE Lesser(gain \div denom, headroom)
             r == RealizePerfFee(atoms, total, leader, hwm, rate)
  <1>1. PPM \in Nat /\ Q32 \in Nat \ {0} /\ U64Max \in Nat /\ total \in Nat /\ leader \in Nat
    BY ShareMathAssumption
  <1>2. l \in Nat
    BY LiquidityType
  <1>3. f \in Nat /\ PPM - f \in Nat
    BY <1>1 DEF Lesser
  <1>4. r = IF total = 0 \/ l = 0 \/ vps <= hwm
            THEN [minted |-> 0, hwm |-> hwm]
            ELSE IF minted = 0
            THEN [minted |-> 0, hwm |-> RatchetHwm(vps, hwm)]
            ELSE [minted |-> minted, hwm |-> RatchetHwm((l * Q32) \div (total + minted), hwm)]
    BY DEF RealizePerfFee
  <1> HIDE DEF l, f, r
  <1>5. l * Q32 \in Nat
    BY <1>1, <1>2
  <1>6. hwm_s \in Nat
    <2>1. hwm * total \in Nat
      BY <1>1
    <2> QED
      BY <1>1, <2>1, DivType
  <1> HIDE DEF hwm_s
  <1>7. denom \in Nat /\ (l > hwm_s => gain \in Nat)
    <2>1. (PPM - f) * l \in Nat /\ f * hwm_s \in Nat /\ f * total \in Nat
      BY <1>1, <1>2, <1>3, <1>6
    <2>2. l > hwm_s => l - hwm_s \in Nat
      BY <1>2, <1>6
    <2> QED
      BY <2>1, <2>2
  <1>8. headroom \in Nat /\ headroom <= U64Max - total
    BY <1>1 DEF Lesser
  <1> HIDE DEF denom, gain, headroom
  <1>9. minted \in Nat /\ minted <= headroom
    <2>1. l > hwm_s /\ denom # 0 => gain \div denom \in Nat
      BY <1>7, DivType
    <2> QED
      BY <1>2, <1>6, <1>8, <2>1 DEF Lesser
  <1> HIDE DEF minted
  <1>10. CASE total = 0 \/ l = 0 \/ vps <= hwm
    <2>1. r.minted = 0 /\ r.hwm = hwm
      BY <1>4, <1>10
    <2>2. total > 0 => (l * Q32) \div total <= hwm
      BY <1>1, <1>2, <1>10
    <2> QED
      BY <1>1, <2>1, <2>2 DEF r, l
  <1>11. CASE ~(total = 0 \/ l = 0 \/ vps <= hwm) /\ minted = 0
    <2>1. r.minted = 0 /\ r.hwm = RatchetHwm(vps, hwm)
      BY <1>4, <1>11
    <2>2. vps \in Nat
      BY <1>1, <1>5, <1>11, DivType
    <2>3. total + 0 = total
      BY <1>1
    <2> QED
      BY <1>1, <1>11, <2>1, <2>2, <2>3, MarkRatchets DEF r, l
  <1>12. CASE ~(total = 0 \/ l = 0 \/ vps <= hwm) /\ minted # 0
    <2>1. r.minted = minted /\ r.hwm = RatchetHwm((l * Q32) \div (total + minted), hwm)
      BY <1>4, <1>12
    <2>2. total + minted \in Nat \ {0}
      BY <1>1, <1>9, <1>12
    <2>3. (l * Q32) \div (total + minted) \in Nat
      BY <1>5, <2>2, DivType
    <2> QED
      BY <1>1, <1>8, <1>9, <1>12, <2>1, <2>3, MarkRatchets DEF r, l
  <1> QED
    BY <1>10, <1>11, <1>12

\* The slice burned shares are paid, rounded down: never more than there is, all
\* of it for all the shares, less than all of it for fewer, and never more than
\* their part.
LEMMA FloorFacts ==
    ASSUME NEW total \in Nat \ {0}, NEW burned \in 0 .. total, NEW a \in Nat
    PROVE  LET out == (burned * a) \div total IN
           /\ out \in 0 .. a
           /\ burned = total => out = a
           /\ burned < total /\ a > 0 => out < a
           /\ (a - out) * total >= a * (total - burned)
  <1> DEFINE p == burned * a
             out == p \div total
  <1>1. p \in Nat
    OBVIOUS
  <1>2. p <= total * a /\ (burned < total /\ a > 0 => p < total * a)
    <2>1. total * a = p + (total - burned) * a
      OBVIOUS
    <2>2. (total - burned) * a \in Nat /\ (burned < total /\ a > 0 => (total - burned) * a > 0)
      OBVIOUS
    <2> DEFINE q == (total - burned) * a
    <2> HIDE DEF p, q
    <2> QED
      BY <1>1, <2>1, <2>2 DEF q
  <1>3. out \in Nat /\ out * total <= p /\ p < out * total + total
    <2> HIDE DEF p
    <2> QED
      BY <1>1, DivType
  <1>4. p = burned * a
    OBVIOUS
  <1> HIDE DEF p, out
  <1>5. out <= a /\ (p < total * a => out < a)
    <2>1. out * total <= a * total /\ (p < total * a => out * total < a * total)
      BY <1>1, <1>2, <1>3
    <2>2. out > a => out * total >= a * total + total
      <3>1. out > a => out * total = a * total + (out - a) * total /\ (out - a) * total >= total
        BY <1>3
      <3> QED
        BY <3>1, <1>3
    <2> QED
      BY <1>3, <2>1, <2>2
  <1>6. burned = total => out = a
    <2>1. ASSUME burned = total
          PROVE  out = a
      <3>1. p = a * total
        BY <1>4, <2>1
      <3>2. out < a => out * total + total <= a * total
        <4>1. out < a => a * total = out * total + (a - out) * total /\ (a - out) * total >= total
          BY <1>3
        <4> QED
          BY <4>1, <1>3
      <3> QED
        BY <3>1, <3>2, <1>3, <1>5
    <2> QED
      BY <2>1
  <1>7. (a - out) * total >= a * (total - burned)
    <2>1. (a - out) * total = a * total - out * total
      BY <1>3
    <2>2. a * (total - burned) = a * total - burned * a
      OBVIOUS
    <2>3. a * total \in Nat /\ out * total \in Nat
      BY <1>3
    <2> QED
      BY <1>1, <1>3, <1>4, <2>1, <2>2, <2>3
  <1> QED
    BY <1>2, <1>3, <1>5, <1>6, <1>7 DEF out, p

\* What a depositor pays for shares, rounded up: at least their part.
LEMMA CeilFacts ==
    ASSUME NEW total \in Nat \ {0}, NEW x \in Nat
    PROVE  CeilDiv(x, total) \in Nat /\ CeilDiv(x, total) * total >= x
  <1> DEFINE q == (x + total - 1) \div total
  <1>1. x + total - 1 \in Nat
    OBVIOUS
  <1>2. q \in Nat /\ x + total - 1 < q * total + total
    BY <1>1, DivType
  <1> HIDE DEF q
  <1>3. q * total \in Nat
    BY <1>2
  <1>4. q * total >= x
    BY <1>2, <1>3
  <1> QED
    BY <1>2, <1>4 DEF q, CeilDiv

\* The basket a deposit pays is worth at least the shares it buys, on each leg.
LEMMA BasketFacts ==
    ASSUME NEW total \in Nat \ {0}, NEW atoms \in [Legs -> Nat], NEW n \in Nat
    PROVE  /\ BasketIn(total, atoms, n) \in [Legs -> Nat]
           /\ \A leg \in Legs : (atoms[leg] + BasketIn(total, atoms, n)[leg]) * total
                                  >= atoms[leg] * (total + n)
           /\ \A leg \in Legs, in \in Nat : BasketShares(total, atoms, leg, in) \in Nat
  <1>1. ASSUME NEW leg \in Legs
        PROVE  /\ BasketIn(total, atoms, n)[leg] \in Nat
               /\ (atoms[leg] + BasketIn(total, atoms, n)[leg]) * total >= atoms[leg] * (total + n)
    <2> DEFINE a == atoms[leg]
               x == n * a
               q == CeilDiv(x, total)
    <2>1. a \in Nat /\ x \in Nat /\ BasketIn(total, atoms, n)[leg] = q /\ x = n * a
      BY DEF BasketIn
    <2> HIDE DEF a, x, q
    <2>2. q \in Nat /\ q * total >= x
      BY <2>1, CeilFacts DEF q
    <2>3. (a + q) * total = a * total + q * total /\ a * (total + n) = a * total + n * a
      BY <2>1, <2>2
    <2>4. a * total \in Nat /\ q * total \in Nat
      BY <2>1, <2>2
    <2>5. (a + q) * total >= a * (total + n)
      BY <2>1, <2>2, <2>3, <2>4
    <2> QED
      BY <2>1, <2>2, <2>5 DEF a
  <1>2. ASSUME NEW leg \in Legs, NEW in \in Nat
        PROVE  BasketShares(total, atoms, leg, in) \in Nat
    <2> DEFINE p == in * total
    <2>1. p \in Nat /\ atoms[leg] \in Nat
      OBVIOUS
    <2>2. BasketShares(total, atoms, leg, in) = IF atoms[leg] = 0 THEN 0 ELSE p \div atoms[leg]
      BY DEF BasketShares
    <2> HIDE DEF p
    <2> QED
      BY <2>1, <2>2, DivType
  <1>3. BasketIn(total, atoms, n) \in [Legs -> Nat]
    BY <1>1 DEF BasketIn
  <1> QED
    BY <1>1, <1>2, <1>3

\* What realizing the fee leaves alone, and what it mints for whom.
LEMMA RealizedFacts ==
    ASSUME NEW v \in Vault, v.total_shares <= U64Max, v.leader_shares <= v.total_shares
    PROVE  /\ Realized(v) \in Vault
           /\ Realized(v).total_shares <= U64Max
           /\ Realized(v).total_shares >= v.total_shares
           /\ Realized(v).total_shares - v.total_shares
                = Realized(v).leader_shares - v.leader_shares
           /\ v.total_shares = 0 => Realized(v).total_shares = 0
           /\ Realized(v).hwm >= v.hwm
           /\ v.frozen \/ v.tombstoned => Realized(v) = v
           /\ Realized(v).atoms = v.atoms
           /\ Realized(v).leader = v.leader
           /\ Realized(v).seq = v.seq
           /\ Realized(v).name_locked = v.name_locked
           /\ AdminField(Realized(v)) = AdminField(v)
           /\ Realized(v).perf_fee_rate = v.perf_fee_rate
           /\ Realized(v).tombstoned = v.tombstoned /\ Realized(v).frozen = v.frozen
  <1> DEFINE r == RealizePerfFee(v.atoms, v.total_shares, v.leader_shares, v.hwm, v.perf_fee_rate)
             w == [v EXCEPT !.total_shares = @ + r.minted, !.leader_shares = @ + r.minted,
                            !.hwm = r.hwm]
  <1>1. /\ v.atoms \in [Legs -> Nat] /\ v.total_shares \in 0 .. U64Max
        /\ v.leader_shares \in 0 .. v.total_shares /\ v.hwm \in Nat /\ v.perf_fee_rate \in Nat
    BY ShareMathAssumption DEF Vault
  <1>2. /\ r.minted \in Nat /\ v.total_shares + r.minted <= U64Max
        /\ v.total_shares = 0 => r.minted = 0
        /\ r.hwm \in Nat /\ r.hwm >= v.hwm
    BY <1>1, FeeFacts
  <1>3. Realized(v) = IF v.frozen \/ v.tombstoned THEN v ELSE w
    BY DEF Realized
  <1> HIDE DEF r
  <1>4. /\ w \in Vault
        /\ w.total_shares = v.total_shares + r.minted
        /\ w.leader_shares = v.leader_shares + r.minted
        /\ w.hwm = r.hwm /\ w.atoms = v.atoms /\ w.leader = v.leader /\ w.seq = v.seq
        /\ w.name_locked = v.name_locked /\ AdminField(w) = AdminField(v)
        /\ w.perf_fee_rate = v.perf_fee_rate /\ w.tombstoned = v.tombstoned
        /\ w.frozen = v.frozen
    <2>1. DOMAIN v = VaultFields
      BY DEF Vault, VaultFields, ZeroedVault
    <2>2. /\ w.total_shares = v.total_shares + r.minted
          /\ w.leader_shares = v.leader_shares + r.minted
          /\ w.hwm = r.hwm /\ w.atoms = v.atoms /\ w.leader = v.leader /\ w.seq = v.seq
          /\ w.name_locked = v.name_locked 
          /\ w.perf_fee_rate = v.perf_fee_rate /\ w.tombstoned = v.tombstoned
          /\ w.frozen = v.frozen /\ w.outside_deposits_approved = v.outside_deposits_approved
          /\ w.min_leader_share = v.min_leader_share
      BY <2>1 DEF VaultFields, ZeroedVault
    <2>3. v.total_shares + r.minted \in Nat /\ v.leader_shares + r.minted \in Nat
      BY <1>1, <1>2
    <2>4. w \in Vault
      BY <1>2, <2>3 DEF Vault
    <2> QED
      BY <2>2, <2>4 DEF AdminField
  <1> HIDE DEF w
  <1> QED
    BY <1>1, <1>2, <1>3, <1>4

-----------------------------------------------------------------------------
(* The accounts *)

\* One sector: the shares are the leader's and the depositors', there is
\* inventory exactly when there are shares, and a reclaimed sector has none.
SoundSector(v, outside) ==
    /\ v.total_shares = v.leader_shares + outside
    /\ v.total_shares <= U64Max
    /\ v.total_shares = 0 => v.atoms = NoAtoms
    /\ v.total_shares > 0 => \E leg \in Legs : v.atoms[leg] > 0
    /\ v.leader = NoLeader => v.total_shares = 0
    /\ v.leader # NoLeader => v.seq > 0

SectorsSound == \A s \in SectorIds : SoundSector(vaults[s], SharesOutside(s))

\* The accounts are those with shares, and the counter counts them.
PositionsCounted ==
    /\ \A p \in SectorIds \X Users : p \in depositors <=> shares[p] > 0
    /\ outstanding_vault_depositors = Cardinality(depositors)

\* The counter of the active list counts it.
ActiveCounted == active_count = Cardinality(OnListSet("Active"))

\* Nobody has a claim on a treasury that is closed.
ClosedTreasuriesEmpty == \A leg \in Legs : ~treasury_open[leg] => LegVaultSum(leg) = 0

\* The inductive invariant of the accounts.  Solvent alone is not inductive: a
\* sweep, a payout or a teardown keeps it because the accounts add up, sector
\* by sector.
CustodyInv ==
    /\ TypeOK /\ SectorsSound /\ PositionsCounted /\ LeaderIsNoDepositor
    /\ ActiveCounted /\ Solvent /\ ClosedTreasuriesEmpty

\* The sums are over finite sets.
LEMMA Finite ==
    /\ IsFiniteSet(SectorIds) /\ IsFiniteSet(Users)
    /\ \A D \in SUBSET (SectorIds \X Users) : IsFiniteSet(D)
    /\ \A S \in SUBSET SectorIds : IsFiniteSet(S)
  <1>1. IsFiniteSet(SectorIds)
    <2>1. 0 \in Int /\ MaxSectors - 1 \in Int
      BY MarketAssumption
    <2> QED
      BY <2>1, FS_Interval DEF SectorIds
  <1>2. IsFiniteSet(SectorIds \X Users)
    BY <1>1, MarketAssumption, FS_Product
  <1> QED
    BY <1>1, <1>2, MarketAssumption, FS_Subset

\* leg_vault_sum bounds every vault's inventory.
LEMMA LegSum ==
    ASSUME TypeOK, NEW leg \in Legs
    PROVE  /\ LegVaultSum(leg) \in Nat
           /\ \A s \in SectorIds : vaults[s].atoms[leg] \in Nat /\ vaults[s].atoms[leg] <= LegVaultSum(leg)
  <1> DEFINE f == [s \in SectorIds |-> vaults[s].atoms[leg]]
  <1>1. f \in [SectorIds -> Nat]
    BY DEF TypeOK, Vault
  <1>2. LegVaultSum(leg) = SumFunction(f)
    BY DEF LegVaultSum
  <1>3. \A s \in SectorIds : f[s] = vaults[s].atoms[leg]
    OBVIOUS
  <1> HIDE DEF f
  <1>4. SumFunction(f) \in Nat /\ \A s \in SectorIds : f[s] <= SumFunction(f)
    BY <1>1, Finite, SumOfNats
  <1> QED
    BY <1>1, <1>2, <1>3, <1>4

\* When one sector changes, leg_vault_sum changes by as much.
LEMMA LegSumMoves ==
    ASSUME TypeOK, NEW s \in SectorIds, NEW w \in Vault, Update(s, w), NEW leg \in Legs
    PROVE  LegVaultSum(leg)' = LegVaultSum(leg) - vaults[s].atoms[leg] + w.atoms[leg]
  <1> DEFINE f == [t \in SectorIds |-> vaults[t].atoms[leg]]
             h == [t \in SectorIds |-> vaults'[t].atoms[leg]]
  <1>0. /\ vaults' \in [SectorIds -> Vault]
        /\ vaults'[s] = w /\ \A t \in SectorIds \ {s} : vaults'[t] = vaults[t]
    BY DEF TypeOK, Update
  <1>1. f \in [SectorIds -> Int] /\ h \in [SectorIds -> Int]
    BY <1>0 DEF TypeOK, Vault
  <1>2. LegVaultSum(leg) = SumFunction(f) /\ LegVaultSum(leg)' = SumFunction(h)
    BY DEF LegVaultSum
  <1>3. /\ f[s] = vaults[s].atoms[leg] /\ h[s] = w.atoms[leg]
        /\ \A t \in SectorIds \ {s} : h[t] = f[t]
    BY <1>0
  <1> HIDE DEF f, h
  <1> QED
    BY <1>1, <1>2, <1>3, Finite, SumUpdate

\* The depositors' shares of a sector bound each one's.
LEMMA OutsideSum ==
    ASSUME TypeOK, NEW s \in SectorIds
    PROVE  /\ SharesOutside(s) \in Nat
           /\ \A u \in Users : shares[<<s, u>>] \in Nat /\ shares[<<s, u>>] <= SharesOutside(s)
           /\ SharesOutside(s) = 0 => \A u \in Users : shares[<<s, u>>] = 0
  <1> DEFINE f == [u \in Users |-> shares[<<s, u>>]]
  <1>1. f \in [Users -> Nat]
    BY DEF TypeOK
  <1>2. SharesOutside(s) = SumFunction(f)
    BY DEF SharesOutside
  <1>3. \A u \in Users : f[u] = shares[<<s, u>>]
    OBVIOUS
  <1> HIDE DEF f
  <1>4. /\ SumFunction(f) \in Nat /\ \A u \in Users : f[u] <= SumFunction(f)
        /\ SumFunction(f) = 0 => \A u \in Users : f[u] = 0
    BY <1>1, Finite, SumOfNats
  <1> QED
    BY <1>1, <1>2, <1>3, <1>4

\* When one position changes, the shares outside change by as much.
LEMMA OutsideMoves ==
    ASSUME TypeOK, NEW s \in SectorIds, NEW u \in Users, NEW n \in Nat,
           shares' = [shares EXCEPT ![<<s, u>>] = n]
    PROVE  /\ SharesOutside(s)' = SharesOutside(s) - shares[<<s, u>>] + n
           /\ \A t \in SectorIds \ {s} : SharesOutside(t)' = SharesOutside(t)
  <1>1. /\ shares \in [SectorIds \X Users -> Nat] /\ shares' \in [SectorIds \X Users -> Nat]
        /\ shares'[<<s, u>>] = n
        /\ \A t \in SectorIds, x \in Users : t # s \/ x # u => shares'[<<t, x>>] = shares[<<t, x>>]
    BY DEF TypeOK
  <1>2. SharesOutside(s)' = SharesOutside(s) - shares[<<s, u>>] + n
    <2> DEFINE f == [x \in Users |-> shares[<<s, x>>]]
               h == [x \in Users |-> shares'[<<s, x>>]]
    <2>1. f \in [Users -> Int] /\ h \in [Users -> Int]
      BY <1>1
    <2>2. SharesOutside(s) = SumFunction(f) /\ SharesOutside(s)' = SumFunction(h)
      BY DEF SharesOutside
    <2>3. f[u] = shares[<<s, u>>] /\ h[u] = n /\ \A x \in Users \ {u} : h[x] = f[x]
      BY <1>1
    <2> HIDE DEF f, h
    <2> QED
      BY <2>1, <2>2, <2>3, Finite, SumUpdate
  <1>3. ASSUME NEW t \in SectorIds \ {s}
        PROVE  SharesOutside(t)' = SharesOutside(t)
    <2>1. [x \in Users |-> shares'[<<t, x>>]] = [x \in Users |-> shares[<<t, x>>]]
      BY <1>1
    <2> QED
      BY <2>1 DEF SharesOutside
  <1> QED
    BY <1>2, <1>3

-----------------------------------------------------------------------------
(* What an instruction does to the positions and the lists *)

\* The positions of s alone may move.
PositionsMove(s) ==
    /\ shares' \in [SectorIds \X Users -> Nat]
    /\ depositors' \subseteq SectorIds \X Users
    /\ PositionsCounted'
    /\ \A t \in SectorIds \ {s}, u \in Users : shares'[<<t, u>>] = shares[<<t, u>>]

\* An instruction of the leader leaves the positions alone.
LEMMA PositionsStay ==
    ASSUME CustodyInv, NEW s \in SectorIds,
           UNCHANGED <<depositors, shares, outstanding_vault_depositors>>
    PROVE  PositionsMove(s) /\ SharesOutside(s)' = SharesOutside(s)
  BY DEF PositionsMove, CustodyInv, TypeOK, PositionsCounted, SharesOutside

\* A purchase: the account exists from its first share on.
BuyPosition(s, u, minted) ==
    /\ depositors' = depositors \cup {<<s, u>>}
    /\ shares' = [shares EXCEPT ![<<s, u>>] = @ + minted]
    /\ outstanding_vault_depositors' =
         outstanding_vault_depositors + IF shares[<<s, u>>] = 0 THEN 1 ELSE 0

\* A purchase is counted once, when the account is new.
LEMMA PositionBought ==
    ASSUME CustodyInv, NEW s \in SectorIds, NEW u \in Users, NEW minted \in Nat, minted > 0,
           BuyPosition(s, u, minted)
    PROVE  PositionsMove(s) /\ SharesOutside(s)' = SharesOutside(s) + minted
  <1> DEFINE p == <<s, u>>
             n == shares[p] + minted
  <1>1. /\ TypeOK /\ PositionsCounted /\ p \in SectorIds \X Users
        /\ shares \in [SectorIds \X Users -> Nat] /\ depositors \subseteq SectorIds \X Users
        /\ shares[p] \in Nat /\ n \in Nat /\ n > 0
        /\ n = shares[p] + minted
    BY DEF CustodyInv, TypeOK
  <1>2. /\ shares' = [shares EXCEPT ![p] = n] /\ depositors' = depositors \cup {p}
        /\ outstanding_vault_depositors' =
             outstanding_vault_depositors + IF shares[p] = 0 THEN 1 ELSE 0
    BY DEF BuyPosition
  <1> HIDE DEF n
  <1>3. SharesOutside(s)' = SharesOutside(s) + minted
    <2>1. SharesOutside(s)' = SharesOutside(s) - shares[<<s, u>>] + n
      BY <1>1, <1>2, OutsideMoves
    <2>2. SharesOutside(s) \in Nat
      BY <1>1, OutsideSum
    <2> QED
      BY <1>1, <2>1, <2>2
  <1>4. shares' \in [SectorIds \X Users -> Nat]
    BY <1>1, <1>2
  <1>5. \A q \in SectorIds \X Users : shares'[q] = IF q = p THEN n ELSE shares[q]
    BY <1>1, <1>2
  <1>6. \A q \in SectorIds \X Users : q \in depositors' <=> shares'[q] > 0
    BY <1>1, <1>2, <1>5 DEF PositionsCounted
  <1>7. outstanding_vault_depositors' = Cardinality(depositors')
    <2>1. IsFiniteSet(depositors)
      BY <1>1, Finite
    <2>2. Cardinality(depositors') =
            IF p \in depositors THEN Cardinality(depositors) ELSE Cardinality(depositors) + 1
      BY <1>2, <2>1, FS_AddElement
    <2>3. p \in depositors <=> shares[p] # 0
      BY <1>1 DEF PositionsCounted
    <2>4. outstanding_vault_depositors = Cardinality(depositors) /\ Cardinality(depositors) \in Nat
      BY <1>1, <2>1, FS_CardinalityType DEF PositionsCounted
    <2> QED
      BY <1>1, <1>2, <2>2, <2>3, <2>4
  <1>8. \A t \in SectorIds \ {s}, x \in Users : shares'[<<t, x>>] = shares[<<t, x>>]
    BY <1>5
  <1> QED
    BY <1>1, <1>2, <1>3, <1>4, <1>6, <1>7, <1>8 DEF PositionsMove, PositionsCounted

\* The account that burns its last share is closed and uncounted.
LEMMA PositionBurned ==
    ASSUME CustodyInv, NEW s \in SectorIds, NEW u \in Users, NEW burned \in Nat \ {0},
           burned <= shares[<<s, u>>], BurnPosition(s, u, burned)
    PROVE  PositionsMove(s) /\ SharesOutside(s)' = SharesOutside(s) - burned
  <1> DEFINE p == <<s, u>>
             n == shares[p] - burned
  <1>1. /\ TypeOK /\ PositionsCounted /\ p \in SectorIds \X Users
        /\ shares \in [SectorIds \X Users -> Nat] /\ depositors \subseteq SectorIds \X Users
        /\ shares[p] \in Nat /\ n \in Nat /\ (n = 0 <=> shares[p] = burned)
    BY DEF CustodyInv, TypeOK
  <1>2. shares' = [shares EXCEPT ![p] = n]
    BY DEF BurnPosition
  <1>3. SharesOutside(s)' = SharesOutside(s) - burned
    <2>1. SharesOutside(s)' = SharesOutside(s) - shares[<<s, u>>] + n
      BY <1>1, <1>2, OutsideMoves
    <2>2. SharesOutside(s) \in Nat
      BY <1>1, OutsideSum
    <2> QED
      BY <1>1, <2>1, <2>2
  <1>4. shares' \in [SectorIds \X Users -> Nat]
    BY <1>1, <1>2
  <1>5. \A q \in SectorIds \X Users : shares'[q] = IF q = p THEN n ELSE shares[q]
    BY <1>1, <1>2
  <1>6. p \in depositors
    BY <1>1 DEF PositionsCounted
  <1>7. depositors' = IF n = 0 THEN depositors \ {p} ELSE depositors
    BY <1>1 DEF BurnPosition
  <1>8. outstanding_vault_depositors' = Cardinality(depositors')
    <2>1. IsFiniteSet(depositors)
      BY <1>1, Finite
    <2>2. Cardinality(depositors \ {p}) = Cardinality(depositors) - 1
      BY <1>6, <2>1, FS_RemoveElement
    <2>3. /\ outstanding_vault_depositors = Cardinality(depositors)
          /\ Cardinality(depositors) \in Nat /\ Cardinality(depositors) # 0
      BY <1>1, <1>6, <2>1, FS_CardinalityType, FS_EmptySet DEF PositionsCounted
    <2> QED
      BY <1>1, <1>7, <2>2, <2>3 DEF BurnPosition
  <1> HIDE DEF n
  <1>9. \A q \in SectorIds \X Users : q \in depositors' <=> shares'[q] > 0
    BY <1>1, <1>5, <1>7 DEF PositionsCounted
  <1>10. \A t \in SectorIds \ {s}, x \in Users : shares'[<<t, x>>] = shares[<<t, x>>]
    BY <1>5
  <1> QED
    BY <1>1, <1>3, <1>4, <1>7, <1>8, <1>9, <1>10 DEF PositionsMove, PositionsCounted

\* What the accounts need of the lists.
ListsSound ==
    /\ listOf \in [SectorIds -> {"Active", "Tombstone", "Free", "Unallocated"}]
    /\ ActiveCounted

\* The counter follows the active list.
LEMMA ListsMove ==
    ASSUME ListsSound, NEW s \in SectorIds,
           Open(s) \/ Retire(s) \/ Release(s) \/ UNCHANGED listVars
    PROVE  ListsSound'
  <1> DEFINE act == OnListSet("Active")
  <1>1. IsFiniteSet(act) /\ active_count = Cardinality(act) /\ Cardinality(act) \in Nat
    <2>1. act \in SUBSET SectorIds
      BY DEF OnListSet
    <2> QED
      BY <2>1, Finite, FS_CardinalityType DEF ListsSound, ActiveCounted
  <1>2. CASE Open(s)
    <2>1. /\ listOf[s] # "Active" /\ listOf' = [listOf EXCEPT ![s] = "Active"]
          /\ active_count' = active_count + 1
      BY <1>2 DEF Open
    <2>2. OnListSet("Active")' = act \cup {s} /\ s \notin act
      BY <2>1 DEF OnListSet, ListsSound
    <2>3. Cardinality(OnListSet("Active")') = Cardinality(act) + 1
      BY <1>1, <2>2, FS_AddElement
    <2> QED
      BY <1>1, <2>1, <2>3 DEF ListsSound, ActiveCounted
  <1>3. CASE Retire(s) \/ Release(s)
    <2>1. PICK l \in {"Tombstone", "Free"} : listOf' = [listOf EXCEPT ![s] = l]
      BY <1>3 DEF Retire, Release
    <2>2. OnListSet("Active")' = act \ {s}
      BY <2>1 DEF OnListSet, ListsSound
    <2>3. Cardinality(OnListSet("Active")') = IF s \in act THEN Cardinality(act) - 1 ELSE Cardinality(act)
      BY <1>1, <2>2, FS_RemoveElement
    <2>4. active_count' = IF s \in act THEN active_count - 1 ELSE active_count
      BY <1>3 DEF Retire, Release, OnListSet
    <2> QED
      BY <1>1, <2>1, <2>3, <2>4 DEF ListsSound, ActiveCounted
  <1>4. CASE UNCHANGED listVars
    BY <1>4 DEF listVars, ListsSound, ActiveCounted, OnListSet
  <1> QED
    BY <1>2, <1>3, <1>4

-----------------------------------------------------------------------------
(* What an instruction does to one sector *)

\* The accounts add up after an instruction that touches one sector, when that
\* sector is sound after it and each treasury gained at least what the sector
\* and the fees did.
LEMMA SectorStep ==
    ASSUME CustodyInv, NEW s \in SectorIds, NEW w \in Vault, Update(s, w),
           PositionsMove(s), SoundSector(w, SharesOutside(s)'),
           \A u \in Users : <<s, u>> \in depositors' => w.leader # u,
           treasury' \in [Legs -> Int], accrued_fee' \in [Legs -> Nat],
           \A leg \in Legs : treasury'[leg] - accrued_fee'[leg] - w.atoms[leg]
                               >= treasury[leg] - accrued_fee[leg] - vaults[s].atoms[leg],
           treasury_open' = treasury_open, TreasuriesOpen \/ w.atoms = vaults[s].atoms,
           ListsSound', next_vault_seq' \in 0 .. MaxSeq, market_open' = market_open,
           signed' \subseteq SectorIds \X (1 .. MaxSeq)
    PROVE  CustodyInv'
  <1>1. /\ vaults' \in [SectorIds -> Vault] /\ vaults'[s] = w
        /\ \A t \in SectorIds \ {s} : vaults'[t] = vaults[t]
    BY DEF Update, CustodyInv, TypeOK
  <1>2. ASSUME NEW leg \in Legs
        PROVE  /\ LegVaultSum(leg)' \in Nat
               /\ treasury'[leg] >= LegVaultSum(leg)' + accrued_fee'[leg]
               /\ ~treasury_open'[leg] => LegVaultSum(leg)' = 0
    <2>1. LegVaultSum(leg)' = LegVaultSum(leg) - vaults[s].atoms[leg] + w.atoms[leg]
      BY LegSumMoves DEF CustodyInv
    <2>2. /\ LegVaultSum(leg) \in Nat /\ vaults[s].atoms[leg] \in Nat
          /\ vaults[s].atoms[leg] <= LegVaultSum(leg)
      BY LegSum DEF CustodyInv
    <2>3. w.atoms[leg] \in Nat
      BY DEF Vault
    <2>4. /\ treasury[leg] \in Nat /\ accrued_fee[leg] \in Nat /\ treasury'[leg] \in Int
          /\ accrued_fee'[leg] \in Nat
          /\ treasury[leg] >= LegVaultSum(leg) + accrued_fee[leg]
          /\ ~treasury_open[leg] => LegVaultSum(leg) = 0
      BY DEF CustodyInv, TypeOK, Solvent, ClosedTreasuriesEmpty
    <2>5. treasury'[leg] - accrued_fee'[leg] - w.atoms[leg]
            >= treasury[leg] - accrued_fee[leg] - vaults[s].atoms[leg]
      OBVIOUS
    <2>6. ~treasury_open'[leg] => w.atoms[leg] = vaults[s].atoms[leg]
      BY DEF TreasuriesOpen
    <2> QED
      BY <2>1, <2>2, <2>3, <2>4, <2>5, <2>6
  <1>3. Solvent' /\ ClosedTreasuriesEmpty'
    BY <1>2 DEF Solvent, ClosedTreasuriesEmpty
  <1>4. treasury' \in [Legs -> Nat]
    BY <1>2
  <1>5. PositionsCounted' /\ outstanding_vault_depositors' \in Nat
    <2>1. IsFiniteSet(depositors')
      BY Finite DEF PositionsMove
    <2> QED
      BY <2>1, FS_CardinalityType DEF PositionsMove, PositionsCounted
  <1>6. ActiveCounted' /\ active_count' \in Nat
    <2>1. IsFiniteSet(OnListSet("Active")')
      <3>1. OnListSet("Active")' \in SUBSET SectorIds
        BY DEF OnListSet
      <3> QED
        BY <3>1, Finite
    <2> QED
      BY <2>1, FS_CardinalityType DEF ListsSound, ActiveCounted
  <1>7. TypeOK'
    BY <1>1, <1>4, <1>5, <1>6 DEF TypeOK, CustodyInv, PositionsMove, ListsSound
  <1>8. SectorsSound'
    <2> SUFFICES ASSUME NEW t \in SectorIds
                 PROVE  SoundSector(vaults'[t], SharesOutside(t)')
      BY DEF SectorsSound
    <2>1. CASE t = s
      BY <1>1, <2>1
    <2>2. CASE t # s
      <3>1. [u \in Users |-> shares'[<<t, u>>]] = [u \in Users |-> shares[<<t, u>>]]
        BY <2>2 DEF PositionsMove
      <3>2. SharesOutside(t)' = SharesOutside(t)
        BY <3>1 DEF SharesOutside
      <3> QED
        BY <1>1, <2>2, <3>2 DEF CustodyInv, SectorsSound
    <2> QED
      BY <2>1, <2>2
  <1>9. LeaderIsNoDepositor'
    <2> SUFFICES ASSUME NEW t \in SectorIds, NEW u \in Users, <<t, u>> \in depositors'
                 PROVE  vaults'[t].leader # u
      BY DEF LeaderIsNoDepositor, PositionsMove
    <2>1. CASE t = s
      BY <1>1, <2>1
    <2>2. CASE t # s
      <3>1. shares'[<<t, u>>] > 0
        BY <1>5 DEF PositionsCounted
      <3>2. shares[<<t, u>>] > 0
        BY <2>2, <3>1 DEF PositionsMove
      <3>3. <<t, u>> \in depositors
        BY <3>2 DEF CustodyInv, PositionsCounted
      <3> QED
        BY <1>1, <2>2, <3>3 DEF CustodyInv, LeaderIsNoDepositor
    <2> QED
      BY <2>1, <2>2
  <1> QED
    BY <1>3, <1>5, <1>6, <1>7, <1>8, <1>9 DEF CustodyInv

\* What every instruction owes the vault it leaves as w, realized fee apart: the
\* bodies of NothingDiluted, MarkOnlyRises, RateNotRetroactive and
\* AdminActsOnTheVaultItRead for one sector.
FairTo(s, w) ==
    LET v == vaults[s] IN
    /\ w.total_shares # v.total_shares
         => \A leg \in Legs : w.atoms[leg] * Realized(v).total_shares
                                >= v.atoms[leg] * w.total_shares
    /\ w.hwm >= v.hwm
    /\ v.frozen \/ v.tombstoned => w.hwm = v.hwm /\ w.total_shares <= v.total_shares
    /\ w.perf_fee_rate # v.perf_fee_rate /\ w.hwm < U64Max
         => Realized(w).total_shares = w.total_shares
    /\ \/ AdminField(w) = AdminField(v) /\ (w.name_locked => v.name_locked)
       \/ <<s, v.seq>> \in signed

\* Every vault that stays the same vault was treated fairly.
FairStep == \A s \in SectorIds : SameVault(s) => FairTo(s, vaults'[s])

\* What each instruction is shown to do.
CustodyKept == CustodyInv' /\ FairStep

\* Only the sector written has to be looked at.
LEMMA FairSector ==
    ASSUME CustodyInv, NEW s \in SectorIds, NEW w, Update(s, w),
           w.leader # NoLeader /\ SameVault(s) => FairTo(s, w)
    PROVE  FairStep
  <1>1. /\ vaults \in [SectorIds -> Vault]
        /\ vaults' = [vaults EXCEPT ![s] = w]
    BY DEF Update, CustodyInv, TypeOK
  <1> SUFFICES ASSUME NEW t \in SectorIds, SameVault(t) PROVE FairTo(t, vaults'[t])
    BY DEF FairStep
  <1>2. CASE t = s
    BY <1>1, <1>2 DEF SameVault, IsOccupied
  <1>3. CASE t # s
    <2>1. vaults'[t] = vaults[t] /\ vaults[t] \in Vault
      BY <1>1, <1>3
    <2>2. vaults[t].hwm \in Nat /\ vaults[t].total_shares \in Nat
      BY <2>1 DEF Vault
    <2> QED
      BY <2>1, <2>2 DEF FairTo
  <1> QED
    BY <1>2, <1>3

\* So were all the vaults of a slab nobody wrote.
LEMMA SlabStays ==
    ASSUME CustodyInv, vaults' = vaults
    PROVE  FairStep
  <1> SUFFICES ASSUME NEW t \in SectorIds, SameVault(t) PROVE FairTo(t, vaults[t])
    BY DEF FairStep
  <1>1. vaults[t].hwm \in Nat /\ vaults[t].total_shares \in Nat
    BY DEF Vault, CustodyInv, TypeOK
  <1> QED
    BY <1>1 DEF FairTo

\* An instruction that only sets fields of one vault.
LEMMA RetuneStep ==
    ASSUME CustodyInv, NEW s \in SectorIds, NEW w \in Vault, Retune(s, w),
           SoundSector(w, SharesOutside(s)), w.atoms = vaults[s].atoms,
           \A u \in Users : <<s, u>> \in depositors => w.leader # u,
           w.leader # NoLeader /\ SameVault(s) => FairTo(s, w)
    PROVE  CustodyKept
  <1>1. /\ UNCHANGED <<depositors, shares, outstanding_vault_depositors>> /\ Update(s, w)
        /\ treasury' = treasury /\ accrued_fee' = accrued_fee /\ treasury_open' = treasury_open
        /\ market_open' = market_open /\ signed' = signed /\ next_vault_seq' = next_vault_seq
        /\ UNCHANGED listVars /\ depositors' = depositors
    BY DEF Retune
  <1>2. PositionsMove(s) /\ SharesOutside(s)' = SharesOutside(s)
    BY <1>1, PositionsStay
  <1>3. ListsSound'
    BY <1>1, ListsMove DEF ListsSound, CustodyInv, TypeOK
  <1>4. /\ treasury' \in [Legs -> Int] /\ accrued_fee' \in [Legs -> Nat]
        /\ next_vault_seq' \in 0 .. MaxSeq /\ signed' \subseteq SectorIds \X (1 .. MaxSeq)
    BY <1>1 DEF CustodyInv, TypeOK
  <1>5. \A leg \in Legs : treasury'[leg] - accrued_fee'[leg] - w.atoms[leg]
                            >= treasury[leg] - accrued_fee[leg] - vaults[s].atoms[leg]
    <2> SUFFICES ASSUME NEW leg \in Legs
                 PROVE  treasury[leg] - accrued_fee[leg] - vaults[s].atoms[leg]
                            >= treasury[leg] - accrued_fee[leg] - vaults[s].atoms[leg]
      BY <1>1
    <2>1. treasury[leg] \in Nat /\ accrued_fee[leg] \in Nat /\ vaults[s].atoms[leg] \in Nat
      BY DEF CustodyInv, TypeOK, Vault
    <2> QED
      BY <2>1
  <1>6. CustodyInv'
    BY <1>1, <1>2, <1>3, <1>4, <1>5, SectorStep
  <1> QED
    BY <1>1, <1>6, FairSector DEF CustodyKept

\* w has the accounts of v.
SameAccounts(v, w) ==
    /\ w.leader = v.leader /\ w.seq = v.seq /\ w.atoms = v.atoms
    /\ w.total_shares = v.total_shares /\ w.leader_shares = v.leader_shares
    /\ w.hwm = v.hwm /\ w.perf_fee_rate = v.perf_fee_rate

\* One that sets none of the accounts' fields, and an admin's field only on the
\* vault the admin signed for.
LEMMA QuietRetune ==
    ASSUME CustodyInv, NEW s \in SectorIds, NEW w \in Vault, Retune(s, w),
           SameAccounts(vaults[s], w),
           \/ AdminField(w) = AdminField(vaults[s]) /\ (w.name_locked => vaults[s].name_locked)
           \/ <<s, vaults[s].seq>> \in signed
    PROVE  CustodyKept
  <1>1. SoundSector(w, SharesOutside(s))
    BY DEF CustodyInv, SectorsSound, SoundSector, SameAccounts
  <1>2. FairTo(s, w)
    <2>1. vaults[s].hwm \in Nat /\ vaults[s].total_shares \in Nat
      BY DEF Vault, CustodyInv, TypeOK
    <2> QED
      BY <2>1 DEF FairTo, SameAccounts
  <1>3. \A u \in Users : <<s, u>> \in depositors => w.leader # u
    BY DEF CustodyInv, LeaderIsNoDepositor, SameAccounts
  <1> QED
    BY <1>1, <1>2, <1>3, RetuneStep DEF SameAccounts

-----------------------------------------------------------------------------
(* Settings *)

\* A sector of the slab.
LEMMA SectorKnown ==
    ASSUME CustodyInv, NEW s \in SectorIds
    PROVE  /\ vaults[s] \in Vault /\ DOMAIN vaults[s] = VaultFields
           /\ SoundSector(vaults[s], SharesOutside(s))
  <1>1. vaults[s] \in Vault /\ SoundSector(vaults[s], SharesOutside(s))
    BY DEF CustodyInv, TypeOK, SectorsSound
  <1> QED
    BY <1>1, Fields DEF Vault

\* The fee, if one is due, goes to the leader, within the shares there may be.
LEMMA RealizedSound ==
    ASSUME CustodyInv, NEW s \in SectorIds
    PROVE  LET v == Realized(vaults[s]) IN
           /\ v \in Vault /\ DOMAIN v = VaultFields
           /\ v.total_shares = v.leader_shares + SharesOutside(s)
           /\ v.total_shares <= U64Max
           /\ v.total_shares > 0 <=> vaults[s].total_shares > 0
           /\ v.leader = vaults[s].leader /\ v.seq = vaults[s].seq
           /\ v.atoms = vaults[s].atoms /\ v.hwm >= vaults[s].hwm
           /\ v.perf_fee_rate = vaults[s].perf_fee_rate
           /\ v.frozen = vaults[s].frozen /\ v.tombstoned = vaults[s].tombstoned
           /\ v.frozen \/ v.tombstoned => v = vaults[s]
           /\ v.name_locked = vaults[s].name_locked
           /\ AdminField(v) = AdminField(vaults[s])
  <1> DEFINE v == Realized(vaults[s])
  <1>1. vaults[s] \in Vault /\ SoundSector(vaults[s], SharesOutside(s))
    BY SectorKnown
  <1>2. SharesOutside(s) \in Nat
    BY OutsideSum DEF CustodyInv
  <1>3. /\ vaults[s].total_shares \in Nat /\ vaults[s].leader_shares \in Nat
        /\ vaults[s].total_shares = vaults[s].leader_shares + SharesOutside(s)
        /\ vaults[s].total_shares <= U64Max
    BY <1>1 DEF Vault, SoundSector
  <1>4. vaults[s].leader_shares <= vaults[s].total_shares
    BY <1>2, <1>3
  <1>5. /\ v \in Vault /\ v.total_shares <= U64Max /\ v.total_shares >= vaults[s].total_shares
        /\ v.total_shares - vaults[s].total_shares = v.leader_shares - vaults[s].leader_shares
        /\ vaults[s].total_shares = 0 => v.total_shares = 0
        /\ v.hwm >= vaults[s].hwm
        /\ vaults[s].frozen \/ vaults[s].tombstoned => v = vaults[s]
        /\ v.atoms = vaults[s].atoms
        /\ v.leader = vaults[s].leader /\ v.seq = vaults[s].seq
        /\ v.name_locked = vaults[s].name_locked
        /\ AdminField(v) = AdminField(vaults[s])
        /\ v.perf_fee_rate = vaults[s].perf_fee_rate
        /\ v.tombstoned = vaults[s].tombstoned /\ v.frozen = vaults[s].frozen
    BY <1>1, <1>3, <1>4, RealizedFacts
  <1> HIDE DEF v
  <1>6. v.total_shares \in Nat /\ v.leader_shares \in Nat /\ DOMAIN v = VaultFields
    BY <1>5, Fields DEF Vault
  <1> QED
    BY <1>2, <1>3, <1>5, <1>6 DEF v

\* What the leader and the quote authority set.
LEMMA SettingsStep ==
    ASSUME CustodyInv, NEW s \in SectorIds, NEW u
    PROVE  /\ \A flag \in Flags : SetAllowOutsideDepositors(u, s, flag) => CustodyKept
           /\ \A name \in Names \cup {Unset} : SetVaultName(u, s, name) => CustodyKept
           /\ \A new \in QuoteKeys : SetQuoteAuthority(u, s, new) => CustodyKept
           /\ \A matchable \in BOOLEAN : SetReferencePrice(u, s, matchable) => CustodyKept
  <1>1. vaults[s] \in Vault /\ DOMAIN vaults[s] = VaultFields
    BY SectorKnown
  <1>2. ASSUME NEW flag \in Flags, SetAllowOutsideDepositors(u, s, flag)
        PROVE  CustodyKept
    <2> DEFINE w == [vaults[s] EXCEPT !.allow_outside_depositors = flag]
    <2>1. w \in Vault
      BY <1>1, MarketAssumption DEF Vault
    <2>2. /\ SameAccounts(vaults[s], w) /\ AdminField(w) = AdminField(vaults[s])
          /\ w.name_locked = vaults[s].name_locked
      BY <1>1, Fields DEF SameAccounts, AdminField
    <2>3. Retune(s, w)
      BY <1>2 DEF SetAllowOutsideDepositors
    <2> HIDE DEF w
    <2> QED
      BY <2>1, <2>2, <2>3, QuietRetune
  <1>3. ASSUME NEW name \in Names \cup {Unset}, SetVaultName(u, s, name)
        PROVE  CustodyKept
    <2> DEFINE w == [vaults[s] EXCEPT !.name = name]
    <2>1. w \in Vault
      BY <1>1 DEF Vault
    <2>2. /\ SameAccounts(vaults[s], w) /\ AdminField(w) = AdminField(vaults[s])
          /\ w.name_locked = vaults[s].name_locked
      BY <1>1, Fields DEF SameAccounts, AdminField
    <2>3. Retune(s, w)
      BY <1>3 DEF SetVaultName
    <2> HIDE DEF w
    <2> QED
      BY <2>1, <2>2, <2>3, QuietRetune
  <1>4. ASSUME NEW new \in QuoteKeys, SetQuoteAuthority(u, s, new)
        PROVE  CustodyKept
    <2> DEFINE w == [vaults[s] EXCEPT !.quote_authority = new]
    <2>1. w \in Vault
      BY <1>1, MarketAssumption DEF Vault
    <2>2. /\ SameAccounts(vaults[s], w) /\ AdminField(w) = AdminField(vaults[s])
          /\ w.name_locked = vaults[s].name_locked
      BY <1>1, Fields DEF SameAccounts, AdminField
    <2>3. Retune(s, w)
      BY <1>4 DEF SetQuoteAuthority
    <2> HIDE DEF w
    <2> QED
      BY <2>1, <2>2, <2>3, QuietRetune
  <1>5. ASSUME NEW matchable \in BOOLEAN, SetReferencePrice(u, s, matchable)
        PROVE  CustodyKept
    <2> DEFINE w == [vaults[s] EXCEPT !.reference_set = matchable]
    <2>1. w \in Vault
      BY <1>1 DEF Vault
    <2>2. /\ SameAccounts(vaults[s], w) /\ AdminField(w) = AdminField(vaults[s])
          /\ w.name_locked = vaults[s].name_locked
      BY <1>1, Fields DEF SameAccounts, AdminField
    <2>3. Retune(s, w)
      BY <1>5 DEF SetReferencePrice
    <2> HIDE DEF w
    <2> QED
      BY <2>1, <2>2, <2>3, QuietRetune
  <1> QED
    BY <1>2, <1>3, <1>4, <1>5

\* What an admin sets, on the vault with the number it signed.
LEMMA PinnedStep ==
    ASSUME CustodyInv, NEW s \in SectorIds, NEW seq, <<s, seq>> \in signed, PinnedNext(s, seq)
    PROVE  CustodyKept
  <1>1. vaults[s] \in Vault /\ DOMAIN vaults[s] = VaultFields
    BY SectorKnown
  <1>2. ASSUME Pinned(s, seq)
        PROVE  <<s, vaults[s].seq>> \in signed
    BY <1>2 DEF Pinned
  <1>3. CASE FreezeVault(s, seq)
    <2> DEFINE w == [vaults[s] EXCEPT !.frozen = TRUE, !.name = Unset, !.name_locked = TRUE]
    <2>1. w \in Vault
      BY <1>1 DEF Vault
    <2>2. SameAccounts(vaults[s], w)
      BY <1>1, Fields DEF SameAccounts
    <2>3. Retune(s, w) /\ Pinned(s, seq)
      BY <1>3 DEF FreezeVault
    <2> HIDE DEF w
    <2> QED
      BY <1>2, <2>1, <2>2, <2>3, QuietRetune
  <1>4. ASSUME NEW flag \in Flags, SetOutsideDepositsApproved(s, seq, flag)
        PROVE  CustodyKept
    <2> DEFINE w == [vaults[s] EXCEPT !.outside_deposits_approved = flag]
    <2>1. w \in Vault
      BY <1>1, MarketAssumption DEF Vault
    <2>2. SameAccounts(vaults[s], w)
      BY <1>1, Fields DEF SameAccounts
    <2>3. Retune(s, w) /\ Pinned(s, seq)
      BY <1>4 DEF SetOutsideDepositsApproved
    <2> HIDE DEF w
    <2> QED
      BY <1>2, <2>1, <2>2, <2>3, QuietRetune
  <1>5. ASSUME NEW floor \in Floors, SetMinLeaderShare(s, seq, floor)
        PROVE  CustodyKept
    <2> DEFINE w == [vaults[s] EXCEPT !.min_leader_share = floor]
    <2>1. w \in Vault
      BY <1>1, MarketAssumption DEF Vault
    <2>2. SameAccounts(vaults[s], w)
      BY <1>1, Fields DEF SameAccounts
    <2>3. Retune(s, w) /\ Pinned(s, seq)
      BY <1>5 DEF SetMinLeaderShare
    <2> HIDE DEF w
    <2> QED
      BY <1>2, <2>1, <2>2, <2>3, QuietRetune
  <1>6. ASSUME NEW name \in Names \cup {Unset}, NEW lock \in BOOLEAN,
               OverrideVaultName(s, seq, name, lock)
        PROVE  CustodyKept
    <2> DEFINE w == [vaults[s] EXCEPT !.name = name, !.name_locked = lock]
    <2>1. w \in Vault
      BY <1>1 DEF Vault
    <2>2. SameAccounts(vaults[s], w)
      BY <1>1, Fields DEF SameAccounts
    <2>3. Retune(s, w) /\ Pinned(s, seq)
      BY <1>6 DEF OverrideVaultName
    <2> HIDE DEF w
    <2> QED
      BY <1>2, <2>1, <2>2, <2>3, QuietRetune
  <1> QED
    BY <1>3, <1>4, <1>5, <1>6 DEF PinnedNext

\* The new leader holds no position: withdraw would refuse it.
LEMMA SetLeaderStep ==
    ASSUME CustodyInv, NEW s \in SectorIds, NEW u, NEW new \in Users, SetLeader(u, s, new)
    PROVE  CustodyKept
  <1> DEFINE w == [vaults[s] EXCEPT !.leader = new]
  <1>1. /\ vaults[s] \in Vault /\ DOMAIN vaults[s] = VaultFields
        /\ SoundSector(vaults[s], SharesOutside(s))
    BY SectorKnown
  <1>2. w \in Vault
    BY <1>1 DEF Vault
  <1>3. /\ Retune(s, w) /\ <<s, new>> \notin depositors /\ IsOccupied(s) /\ new # NoLeader
    BY MarketAssumption DEF SetLeader
  <1>4. /\ w.leader = new /\ w.seq = vaults[s].seq /\ w.atoms = vaults[s].atoms
        /\ w.total_shares = vaults[s].total_shares /\ w.leader_shares = vaults[s].leader_shares
        /\ w.hwm = vaults[s].hwm /\ w.perf_fee_rate = vaults[s].perf_fee_rate
        /\ AdminField(w) = AdminField(vaults[s]) /\ w.name_locked = vaults[s].name_locked
    BY <1>1, Fields DEF AdminField
  <1> HIDE DEF w
  <1>5. SoundSector(w, SharesOutside(s))
    BY <1>1, <1>3, <1>4 DEF SoundSector, IsOccupied
  <1>6. FairTo(s, w)
    <2>1. vaults[s].hwm \in Nat /\ vaults[s].total_shares \in Nat
      BY <1>1 DEF Vault
    <2> QED
      BY <1>4, <2>1 DEF FairTo
  <1>7. \A x \in Users : <<s, x>> \in depositors => w.leader # x
    BY <1>3, <1>4
  <1> QED
    BY <1>2, <1>3, <1>4, <1>5, <1>6, <1>7, RetuneStep

\* A fee just realized leaves nothing to realize, at any rate, while the mark has
\* not saturated.
LEMMA NothingOwed ==
    ASSUME NEW v \in Vault, v.total_shares <= U64Max, v.leader_shares <= v.total_shares,
           NEW w \in Vault, w.atoms = v.atoms, w.total_shares = Realized(v).total_shares,
           w.hwm = Realized(v).hwm, w.hwm < U64Max,
           w.frozen = v.frozen, w.tombstoned = v.tombstoned
    PROVE  Realized(w).total_shares = w.total_shares
  <1> DEFINE r == RealizePerfFee(v.atoms, v.total_shares, v.leader_shares, v.hwm, v.perf_fee_rate)
             q == RealizePerfFee(w.atoms, w.total_shares, w.leader_shares, w.hwm, w.perf_fee_rate)
  <1>1. /\ v.atoms \in [Legs -> Nat] /\ v.total_shares \in 0 .. U64Max
        /\ v.leader_shares \in 0 .. v.total_shares /\ v.hwm \in Nat /\ v.perf_fee_rate \in Nat
        /\ w.total_shares \in Nat /\ DOMAIN v = VaultFields /\ DOMAIN w = VaultFields
    BY ShareMathAssumption, Fields DEF Vault
  <1>2. CASE v.frozen \/ v.tombstoned
    BY <1>2 DEF Realized
  <1>3. CASE ~(v.frozen \/ v.tombstoned)
    <2>1. /\ Realized(v).total_shares = v.total_shares + r.minted /\ Realized(v).hwm = r.hwm
      BY <1>1, <1>3, Fields DEF Realized
    <2>2. Realized(w).total_shares = w.total_shares + q.minted
      BY <1>1, <1>3, Fields DEF Realized
    <2>3. /\ r.minted \in Nat /\ (v.total_shares = 0 => r.minted = 0)
          /\ r.hwm < U64Max /\ v.total_shares > 0
               => (Liquidity(v.atoms) * Q32) \div (v.total_shares + r.minted) <= r.hwm
      BY <1>1, FeeFacts
    <2> HIDE DEF r
    <2>4. w.total_shares = 0 \/ (Liquidity(w.atoms) * Q32) \div w.total_shares <= w.hwm
      BY <1>1, <2>1, <2>3
    <2>5. q.minted = 0
      BY <2>4 DEF RealizePerfFee
    <2> QED
      BY <1>1, <2>2, <2>5
  <1> QED
    BY <1>2, <1>3

\* The rate changes on a realized mark.
LEMMA SetPerfFeeRateStep ==
    ASSUME CustodyInv, NEW s \in SectorIds, NEW u, NEW rate \in FeeRates,
           SetPerfFeeRate(u, s, rate)
    PROVE  CustodyKept
  <1> DEFINE v == Realized(vaults[s])
             w == [v EXCEPT !.perf_fee_rate = rate]
  <1>1. /\ vaults[s] \in Vault /\ DOMAIN vaults[s] = VaultFields
        /\ SoundSector(vaults[s], SharesOutside(s))
    BY SectorKnown
  <1>2. /\ v \in Vault /\ DOMAIN v = VaultFields
        /\ v.total_shares = v.leader_shares + SharesOutside(s)
        /\ v.total_shares <= U64Max
        /\ v.total_shares > 0 <=> vaults[s].total_shares > 0
        /\ v.leader = vaults[s].leader /\ v.seq = vaults[s].seq
        /\ v.atoms = vaults[s].atoms /\ v.hwm >= vaults[s].hwm
        /\ v.frozen = vaults[s].frozen /\ v.tombstoned = vaults[s].tombstoned
        /\ v.frozen \/ v.tombstoned => v = vaults[s]
        /\ v.name_locked = vaults[s].name_locked
        /\ AdminField(v) = AdminField(vaults[s])
    BY RealizedSound
  <1>3. Retune(s, w) /\ IsOccupied(s)
    BY DEF SetPerfFeeRate
  <1>4. SharesOutside(s) \in Nat
    BY OutsideSum DEF CustodyInv
  <1> HIDE DEF v
  <1>5. w \in Vault
    BY <1>2, MarketAssumption DEF Vault
  <1>6. /\ w.leader = v.leader /\ w.seq = v.seq /\ w.atoms = v.atoms
        /\ w.total_shares = v.total_shares /\ w.leader_shares = v.leader_shares
        /\ w.hwm = v.hwm /\ w.frozen = v.frozen /\ w.tombstoned = v.tombstoned
        /\ AdminField(w) = AdminField(v) /\ w.name_locked = v.name_locked
    BY <1>2, Fields DEF AdminField
  <1> HIDE DEF w
  <1>7. vaults[s].total_shares \in Nat /\ v.total_shares \in Nat
    BY <1>1, <1>2 DEF Vault
  <1>8. SoundSector(w, SharesOutside(s))
    BY <1>1, <1>2, <1>3, <1>6, <1>7 DEF SoundSector, IsOccupied
  <1>9. FairTo(s, w)
    <2>1. /\ vaults[s].leader_shares <= vaults[s].total_shares
          /\ vaults[s].total_shares <= U64Max
      BY <1>1, <1>4, <1>7 DEF SoundSector, Vault
    <2>2. w.hwm < U64Max => Realized(w).total_shares = w.total_shares
      BY <1>1, <1>2, <1>5, <1>6, <2>1, NothingOwed DEF v
    <2>3. \A leg \in Legs : w.atoms[leg] * v.total_shares >= vaults[s].atoms[leg] * w.total_shares
      <3> SUFFICES ASSUME NEW leg \in Legs
                   PROVE  w.atoms[leg] * v.total_shares >= vaults[s].atoms[leg] * w.total_shares
        OBVIOUS
      <3>1. vaults[s].atoms[leg] \in Nat
        BY <1>1 DEF Vault
      <3> QED
        BY <1>2, <1>6, <1>7, <3>1
    <2> QED
      BY <1>2, <1>6, <1>7, <2>2, <2>3 DEF FairTo, v
  <1>10. \A x \in Users : <<s, x>> \in depositors => w.leader # x
    BY <1>2, <1>6 DEF CustodyInv, LeaderIsNoDepositor
  <1> QED
    BY <1>2, <1>3, <1>5, <1>6, <1>8, <1>9, <1>10, RetuneStep

-----------------------------------------------------------------------------
(* Deposits and withdrawals *)

\* v is the vault of s with its fee realized, but for what its leader has moved
\* of its own shares.
Current(s, v) ==
    /\ v \in Vault
    /\ v.total_shares = Realized(vaults[s]).total_shares /\ v.total_shares <= U64Max
    /\ v.leader = vaults[s].leader /\ v.seq = vaults[s].seq
    /\ v.atoms = vaults[s].atoms /\ v.hwm >= vaults[s].hwm
    /\ v.perf_fee_rate = vaults[s].perf_fee_rate
    /\ v.frozen = vaults[s].frozen /\ v.tombstoned = vaults[s].tombstoned
    /\ v.frozen \/ v.tombstoned
         => v.hwm = vaults[s].hwm /\ v.total_shares = vaults[s].total_shares
    /\ v.name_locked = vaults[s].name_locked /\ AdminField(v) = AdminField(vaults[s])

\* Realizing the fee gives such a vault, whatever leader_shares becomes.
LEMMA RealizedCurrent ==
    ASSUME CustodyInv, NEW s \in SectorIds
    PROVE  /\ Current(s, Realized(vaults[s]))
           /\ \A n \in Nat : LET w == [Realized(vaults[s]) EXCEPT !.leader_shares = n] IN
                             Current(s, w) /\ w.leader_shares = n
  <1> DEFINE v == Realized(vaults[s])
  <1>1. Current(s, v) /\ DOMAIN v = VaultFields
    BY RealizedSound DEF Current
  <1> HIDE DEF v
  <1>2. ASSUME NEW n \in Nat
        PROVE  LET w == [v EXCEPT !.leader_shares = n] IN Current(s, w) /\ w.leader_shares = n
    <2> DEFINE w == [v EXCEPT !.leader_shares = n]
    <2>1. w \in Vault
      BY <1>1 DEF Current, Vault
    <2>2. /\ w.total_shares = v.total_shares /\ w.leader = v.leader /\ w.seq = v.seq
          /\ w.atoms = v.atoms /\ w.hwm = v.hwm /\ w.perf_fee_rate = v.perf_fee_rate
          /\ w.frozen = v.frozen /\ w.tombstoned = v.tombstoned
          /\ w.name_locked = v.name_locked /\ AdminField(w) = AdminField(v)
          /\ w.leader_shares = n
      BY <1>1, Fields DEF AdminField
    <2> HIDE DEF w
    <2>3. Current(s, w)
      BY <1>1, <2>1, <2>2 DEF Current
    <2> QED
      BY <2>2, <2>3 DEF w
  <1> QED
    BY <1>1, <1>2 DEF v

\* A basket comes in for the shares minted: the treasury gains what the vault
\* does, and the basket is worth at least the shares.
LEMMA DepositIntoStep ==
    ASSUME CustodyInv, NEW s \in SectorIds, NEW v, Current(s, v), v.leader # NoLeader,
           ~v.frozen, ~v.tombstoned,
           NEW minted \in Nat, minted > 0, NEW in \in [Legs -> Nat],
           DepositInto(s, v, in, minted),
           PositionsMove(s), \A u \in Users : <<s, u>> \in depositors' => v.leader # u,
           v.total_shares + minted = v.leader_shares + SharesOutside(s)',
           \E leg \in Legs : v.atoms[leg] + in[leg] > 0,
           \A leg \in Legs : (v.atoms[leg] + in[leg]) * v.total_shares
                               >= v.atoms[leg] * (v.total_shares + minted),
           UNCHANGED <<next_vault_seq, accrued_fee, treasury_open, market_open, signed, listVars>>
    PROVE  CustodyKept
  <1> DEFINE w == [v EXCEPT !.atoms = Plus(@, in), !.total_shares = @ + minted]
  <1>1. /\ Update(s, w) /\ TreasuriesOpen /\ treasury' = Plus(treasury, in)
        /\ v.total_shares + minted <= U64Max
        /\ accrued_fee' = accrued_fee /\ treasury_open' = treasury_open
        /\ market_open' = market_open /\ signed' = signed /\ next_vault_seq' = next_vault_seq
        /\ UNCHANGED listVars
    BY DEF DepositInto
  <1>2. /\ v \in Vault /\ DOMAIN v = VaultFields /\ v.atoms \in [Legs -> Nat]
        /\ v.total_shares \in Nat /\ v.leader_shares \in Nat
    BY Fields DEF Current, Vault
  <1>3. w \in Vault
    <2>1. v.total_shares + minted \in Nat /\ Plus(v.atoms, in) \in [Legs -> Nat]
      BY <1>2 DEF Plus
    <2> QED
      BY <1>2, <2>1 DEF Vault
  <1>4. /\ w.total_shares = v.total_shares + minted /\ w.leader_shares = v.leader_shares
        /\ w.atoms = [leg \in Legs |-> v.atoms[leg] + in[leg]]
        /\ w.leader = v.leader /\ w.seq = v.seq
        /\ w.hwm = v.hwm /\ w.perf_fee_rate = v.perf_fee_rate
        /\ w.name_locked = v.name_locked /\ AdminField(w) = AdminField(v)
    BY <1>2, Fields DEF Plus, AdminField
  <1> HIDE DEF w
  <1>5. SoundSector(w, SharesOutside(s)')
    <2>1. v.seq > 0
      BY SectorKnown DEF SoundSector, Current
    <2> QED
      BY <1>1, <1>2, <1>4, <2>1 DEF SoundSector
  <1>6. ListsSound'
    BY <1>1, ListsMove DEF ListsSound, CustodyInv, TypeOK
  <1>7. /\ treasury' \in [Legs -> Int] /\ accrued_fee' \in [Legs -> Nat]
        /\ next_vault_seq' \in 0 .. MaxSeq /\ signed' \subseteq SectorIds \X (1 .. MaxSeq)
    BY <1>1 DEF CustodyInv, TypeOK, Plus
  <1>8. \A leg \in Legs : treasury'[leg] - accrued_fee'[leg] - w.atoms[leg]
                            >= treasury[leg] - accrued_fee[leg] - vaults[s].atoms[leg]
    <2> SUFFICES ASSUME NEW leg \in Legs
                 PROVE  treasury'[leg] - accrued_fee'[leg] - w.atoms[leg]
                            >= treasury[leg] - accrued_fee[leg] - vaults[s].atoms[leg]
      OBVIOUS
    <2>1. /\ treasury[leg] \in Nat /\ accrued_fee[leg] \in Nat /\ v.atoms[leg] \in Nat
          /\ in[leg] \in Nat
      BY <1>2 DEF CustodyInv, TypeOK
    <2>2. /\ w.atoms[leg] = v.atoms[leg] + in[leg] /\ vaults[s].atoms[leg] = v.atoms[leg]
          /\ treasury'[leg] = treasury[leg] + in[leg]
      BY <1>1, <1>4 DEF Plus, Current
    <2> QED
      BY <1>1, <2>1, <2>2
  <1>9. CustodyInv'
    BY <1>1, <1>3, <1>4, <1>5, <1>6, <1>7, <1>8, SectorStep
  <1>10. FairTo(s, w)
    <2>1. \A leg \in Legs : w.atoms[leg] * v.total_shares >= v.atoms[leg] * w.total_shares
      BY <1>4
    <2> QED
      BY <1>4, <2>1 DEF FairTo, Current
  <1> QED
    BY <1>1, <1>9, <1>10, FairSector DEF CustodyKept

\* Shares are burned and their slice leaves; the last share empties the vault
\* and gives the sector back.
LEMMA WithdrawFromStep ==
    ASSUME CustodyInv, NEW s \in SectorIds, NEW v, Current(s, v), v.leader # NoLeader,
           NEW burned \in Nat, burned > 0, burned <= v.total_shares,
           WithdrawFrom(s, v, burned),
           PositionsMove(s), \A u \in Users : <<s, u>> \in depositors' => v.leader # u,
           v.total_shares - burned = v.leader_shares + SharesOutside(s)',
           UNCHANGED <<next_vault_seq, accrued_fee, treasury_open, market_open, signed>>
    PROVE  CustodyKept
  <1> DEFINE out == ProRataSlice(burned, v.total_shares, v.atoms)
             w == [v EXCEPT !.total_shares = @ - burned, !.atoms = Minus(@, out)]
             x == [w EXCEPT !.leader = NoLeader]
  <1>1. /\ TreasuriesOpen /\ treasury' = Minus(treasury, out)
        /\ accrued_fee' = accrued_fee /\ treasury_open' = treasury_open
        /\ market_open' = market_open /\ signed' = signed /\ next_vault_seq' = next_vault_seq
        /\ \/ w.total_shares = 0 /\ Release(s) /\ Update(s, x)
           \/ w.total_shares # 0 /\ UNCHANGED listVars /\ Update(s, w)
    BY DEF WithdrawFrom, ReclaimSector
  <1>2. /\ v \in Vault /\ DOMAIN v = VaultFields /\ v.atoms \in [Legs -> Nat]
        /\ v.total_shares \in Nat \ {0} /\ v.leader_shares \in Nat /\ v.seq > 0
        /\ burned \in 0 .. v.total_shares /\ vaults[s].total_shares > 0
        /\ v.total_shares <= U64Max
    <2>1. v \in Vault /\ v.total_shares <= U64Max
      BY DEF Current
    <2>2. vaults[s].total_shares > 0
      BY <2>1, RealizedSound DEF Current, Vault
    <2> QED
      BY <2>1, <2>2, Fields, SectorKnown DEF Current, Vault, SoundSector
  <1>3. ASSUME NEW leg \in Legs
        PROVE  /\ out[leg] \in 0 .. v.atoms[leg]
               /\ burned = v.total_shares => out[leg] = v.atoms[leg]
               /\ burned < v.total_shares /\ v.atoms[leg] > 0 => out[leg] < v.atoms[leg]
               /\ (v.atoms[leg] - out[leg]) * v.total_shares
                    >= v.atoms[leg] * (v.total_shares - burned)
    <2> DEFINE a == v.atoms[leg]
               t == v.total_shares
               o == out[leg]
    <2>1. o = (burned * a) \div t /\ a \in Nat /\ t \in Nat \ {0} /\ burned \in 0 .. t
      BY <1>2 DEF ProRataSlice
    <2> HIDE DEF a, t, o
    <2>2. /\ o \in 0 .. a
          /\ burned = t => o = a
          /\ burned < t /\ a > 0 => o < a
          /\ (a - o) * t >= a * (t - burned)
      BY <2>1, FloorFacts
    <2> QED
      BY <2>2 DEF a, t, o
  <1>4. out \in [Legs -> Nat]
    BY <1>2, <1>3 DEF ProRataSlice
  <1> HIDE DEF out
  <1>5. /\ w.total_shares = v.total_shares - burned /\ w.leader_shares = v.leader_shares
        /\ w.atoms = [leg \in Legs |-> v.atoms[leg] - out[leg]]
        /\ w.leader = v.leader /\ w.seq = v.seq
        /\ w.hwm = v.hwm /\ w.perf_fee_rate = v.perf_fee_rate
        /\ w.name_locked = v.name_locked /\ AdminField(w) = AdminField(v)
    BY <1>2, Fields DEF Minus, AdminField
  <1>6. w \in Vault /\ DOMAIN w = VaultFields
    <2>1. v.total_shares - burned \in Nat /\ Minus(v.atoms, out) \in [Legs -> Nat]
      BY <1>2, <1>3 DEF Minus
    <2> QED
      BY <1>2, <2>1, Fields DEF Vault
  <1>7. SharesOutside(s)' \in Nat
    <2>1. IsFiniteSet(Users)
      BY Finite
    <2> DEFINE f == [u \in Users |-> shares'[<<s, u>>]]
    <2>2. f \in [Users -> Nat] /\ SharesOutside(s)' = SumFunction(f)
      BY DEF PositionsMove, SharesOutside
    <2> HIDE DEF f
    <2> QED
      BY <2>1, <2>2, SumOfNats
  <1> HIDE DEF w
  <1>8. w.total_shares = 0 => w.leader_shares = 0 /\ SharesOutside(s)' = 0 /\ w.atoms = NoAtoms
    <2>1. w.total_shares = 0 => burned = v.total_shares
      BY <1>2, <1>5
    <2>2. w.total_shares = 0 => w.atoms = NoAtoms
      BY <1>2, <1>3, <1>5, <2>1 DEF NoAtoms
    <2> QED
      BY <1>2, <1>5, <1>7, <2>2
  <1>9. w.total_shares > 0 => \E leg \in Legs : w.atoms[leg] > 0
    <2>1. PICK leg \in Legs : v.atoms[leg] > 0
      BY <1>2, SectorKnown DEF SoundSector, Current
    <2>2. w.total_shares > 0 => burned < v.total_shares
      BY <1>2, <1>5
    <2>3. w.atoms[leg] = v.atoms[leg] - out[leg] /\ v.atoms[leg] \in Nat /\ out[leg] \in Nat
      BY <1>2, <1>4, <1>5
    <2> QED
      BY <1>3, <2>1, <2>2, <2>3
  <1>10. /\ x \in Vault /\ x.total_shares = w.total_shares /\ x.leader_shares = w.leader_shares
         /\ x.atoms = w.atoms /\ x.leader = NoLeader
    BY <1>6, Fields DEF Vault
  <1> HIDE DEF x
  <1>11. w.total_shares \in Nat /\ w.total_shares <= U64Max
    BY <1>2, <1>5, ShareMathAssumption
  <1>12. /\ w.total_shares # 0 => SoundSector(w, SharesOutside(s)')
         /\ w.total_shares = 0 => SoundSector(x, SharesOutside(s)')
    BY <1>2, <1>5, <1>8, <1>9, <1>10, <1>11 DEF SoundSector
  <1>13. ListsSound'
    BY <1>1, ListsMove DEF ListsSound, CustodyInv, TypeOK
  <1>14. /\ treasury' \in [Legs -> Int] /\ accrued_fee' \in [Legs -> Nat]
         /\ next_vault_seq' \in 0 .. MaxSeq /\ signed' \subseteq SectorIds \X (1 .. MaxSeq)
    BY <1>1, <1>4 DEF CustodyInv, TypeOK, Minus
  <1>15. \A leg \in Legs : treasury'[leg] - accrued_fee'[leg] - w.atoms[leg]
                            >= treasury[leg] - accrued_fee[leg] - vaults[s].atoms[leg]
    <2> SUFFICES ASSUME NEW leg \in Legs
                 PROVE  treasury'[leg] - accrued_fee'[leg] - w.atoms[leg]
                            >= treasury[leg] - accrued_fee[leg] - vaults[s].atoms[leg]
      OBVIOUS
    <2>1. /\ treasury[leg] \in Nat /\ accrued_fee[leg] \in Nat /\ v.atoms[leg] \in Nat
          /\ out[leg] \in Nat
      BY <1>2, <1>4 DEF CustodyInv, TypeOK
    <2>2. /\ w.atoms[leg] = v.atoms[leg] - out[leg] /\ vaults[s].atoms[leg] = v.atoms[leg]
          /\ treasury'[leg] = treasury[leg] - out[leg]
      BY <1>1, <1>5 DEF Minus, Current
    <2> QED
      BY <1>1, <2>1, <2>2
  <1>16. CASE w.total_shares = 0
    <2>1. Update(s, x) /\ \A u \in Users : x.leader # u
      BY <1>1, <1>10, <1>16, MarketAssumption
    <2>2. CustodyInv'
      BY <1>1, <1>10, <1>12, <1>13, <1>14, <1>15, <1>16, <2>1, SectorStep
    <2> QED
      BY <1>10, <2>1, <2>2, FairSector DEF CustodyKept
  <1>17. CASE w.total_shares # 0
    <2>1. Update(s, w)
      BY <1>1, <1>17
    <2>2. CustodyInv'
      BY <1>1, <1>5, <1>6, <1>12, <1>13, <1>14, <1>15, <1>17, <2>1, SectorStep
    <2>3. FairTo(s, w)
      <3>1. \A leg \in Legs : w.atoms[leg] * v.total_shares >= v.atoms[leg] * w.total_shares
        BY <1>3, <1>5
      <3>2. w.total_shares <= v.total_shares
        BY <1>2, <1>5
      <3> QED
        BY <1>5, <3>1, <3>2 DEF FairTo, Current
    <2> QED
      BY <2>1, <2>2, <2>3, FairSector DEF CustodyKept
  <1> QED
    BY <1>16, <1>17

\* A leader's deposit, first or later.
LEMMA LeaderDepositStep ==
    ASSUME CustodyInv, NEW s \in SectorIds, NEW u, NEW v, Current(s, v), DOMAIN v = VaultFields,
           v.total_shares = v.leader_shares + SharesOutside(s),
           NEW minted \in Nat, NEW in \in [Legs -> Nat], LeaderDeposit(u, s, v, in, minted),
           \E leg \in Legs : v.atoms[leg] + in[leg] > 0,
           \A leg \in Legs : (v.atoms[leg] + in[leg]) * v.total_shares
                               >= v.atoms[leg] * (v.total_shares + minted)
    PROVE  CustodyKept
  <1> DEFINE w == [v EXCEPT !.leader_shares = @ + minted]
  <1>1. /\ IsOccupied(s) /\ v.leader = u /\ ~v.frozen /\ ~v.tombstoned /\ minted > 0
        /\ DepositInto(s, w, in, minted)
        /\ UNCHANGED <<depositors, shares, outstanding_vault_depositors>>
        /\ UNCHANGED <<next_vault_seq, accrued_fee, treasury_open, market_open, signed, listVars>>
    BY DEF LeaderDeposit
  <1>2. /\ v \in Vault /\ v.leader_shares \in Nat /\ v.total_shares \in Nat
        /\ v.leader_shares + minted \in Nat /\ SharesOutside(s) \in Nat
    BY OutsideSum DEF Current, Vault, CustodyInv
  <1>3. /\ w.total_shares = v.total_shares /\ w.leader = v.leader /\ w.seq = v.seq
        /\ w.atoms = v.atoms /\ w.hwm = v.hwm /\ w.perf_fee_rate = v.perf_fee_rate
        /\ w.frozen = v.frozen /\ w.tombstoned = v.tombstoned
        /\ w.name_locked = v.name_locked /\ AdminField(w) = AdminField(v)
        /\ w.leader_shares = v.leader_shares + minted
    BY <1>2, Fields DEF AdminField
  <1>4. w \in Vault
    BY <1>2 DEF Vault
  <1> HIDE DEF w
  <1>5. Current(s, w)
    BY <1>3, <1>4 DEF Current
  <1>6. PositionsMove(s) /\ SharesOutside(s)' = SharesOutside(s)
    BY <1>1, PositionsStay
  <1>7. w.total_shares + minted = w.leader_shares + SharesOutside(s)'
    BY <1>2, <1>3, <1>6
  <1>8. w.leader # NoLeader /\ \A x \in Users : <<s, x>> \in depositors' => w.leader # x
    BY <1>1, <1>3 DEF CustodyInv, LeaderIsNoDepositor, IsOccupied, Current
  <1>9. /\ \E leg \in Legs : w.atoms[leg] + in[leg] > 0
        /\ \A leg \in Legs : (w.atoms[leg] + in[leg]) * w.total_shares
                               >= w.atoms[leg] * (w.total_shares + minted)
    BY <1>3
  <1> QED
    BY <1>1, <1>3, <1>5, <1>6, <1>7, <1>8, <1>9, DepositIntoStep

\* The first deposit of a vault, into an empty inventory.
LEMMA SeedVaultStep ==
    ASSUME CustodyInv, NEW s \in SectorIds, NEW u, NEW basket \in [Legs -> Amounts],
           SeedVault(u, s, basket)
    PROVE  CustodyKept
  <1> DEFINE v == vaults[s]
  <1>1. v.total_shares = 0 /\ LeaderDeposit(u, s, v, basket, Liquidity(basket))
    BY DEF SeedVault
  <1>2. /\ v \in Vault /\ DOMAIN v = VaultFields /\ SoundSector(v, SharesOutside(s))
        /\ v.atoms = NoAtoms /\ v.total_shares = v.leader_shares + SharesOutside(s)
    BY <1>1, SectorKnown DEF SoundSector
  <1>3. Current(s, v)
    <2>1. ~v.frozen /\ ~v.tombstoned
      BY <1>1 DEF LeaderDeposit
    <2>2. Realized(v).total_shares = 0
      <3>1. Current(s, Realized(v)) /\ (Realized(v).total_shares > 0 <=> v.total_shares > 0)
        BY RealizedCurrent, RealizedSound
      <3> QED
        BY <1>1, <3>1 DEF Current, Vault
    <2>3. v.hwm \in Nat /\ v.total_shares <= U64Max
      BY <1>2 DEF Vault, SoundSector
    <2> QED
      BY <1>1, <1>2, <2>1, <2>2, <2>3 DEF Current
  <1>4. basket \in [Legs -> Nat] /\ \A leg \in Legs : basket[leg] > 0
    <2>1. \A a \in Amounts : a \in Nat /\ a > 0
      BY MarketAssumption
    <2>2. \A leg \in Legs : basket[leg] \in Amounts
      OBVIOUS
    <2>3. basket \in [Legs -> Nat]
      BY <2>1, <2>2
    <2> QED
      BY <2>1, <2>2, <2>3
  <1>5. Liquidity(basket) \in Nat
    BY <1>4, LiquidityType
  <1>6. \A leg \in Legs : v.atoms[leg] = 0
    BY <1>2 DEF NoAtoms
  <1> HIDE DEF v
  <1>7. \A leg \in Legs : (v.atoms[leg] + basket[leg]) * v.total_shares
                             >= v.atoms[leg] * (v.total_shares + Liquidity(basket))
    BY <1>1, <1>4, <1>5, <1>6
  <1>8. \E leg \in Legs : v.atoms[leg] + basket[leg] > 0
    <2>1. "base" \in Legs
      BY DEF Legs
    <2> QED
      BY <1>4, <1>6, <2>1
  <1> QED
    BY <1>1, <1>2, <1>3, <1>4, <1>5, <1>7, <1>8, LeaderDepositStep

\* A later deposit of the leader.
LEMMA DepositLeaderStep ==
    ASSUME CustodyInv, NEW s \in SectorIds, NEW u, NEW leg \in Legs, NEW amount \in Amounts,
           DepositLeader(u, s, leg, amount)
    PROVE  CustodyKept
  <1> DEFINE v == Realized(vaults[s])
             minted == BasketShares(v.total_shares, v.atoms, leg, amount)
             in == BasketIn(v.total_shares, v.atoms, minted)
  <1>1. v.total_shares > 0 /\ LeaderDeposit(u, s, v, in, minted)
    BY DEF DepositLeader
  <1>2. /\ Current(s, v) /\ DOMAIN v = VaultFields
        /\ v.total_shares = v.leader_shares + SharesOutside(s)
    BY RealizedCurrent, RealizedSound
  <1> HIDE DEF v
  <1>3. v.total_shares \in Nat \ {0} /\ v.atoms \in [Legs -> Nat] /\ amount \in Nat
    BY <1>1, <1>2, MarketAssumption DEF Current, Vault
  <1>4. minted \in Nat
    BY <1>3, BasketFacts
  <1> HIDE DEF minted
  <1>5. /\ in \in [Legs -> Nat]
        /\ \A l \in Legs : (v.atoms[l] + in[l]) * v.total_shares
                             >= v.atoms[l] * (v.total_shares + minted)
    BY <1>3, <1>4, BasketFacts
  <1>6. \E l \in Legs : v.atoms[l] + in[l] > 0
    <2>1. PICK l \in Legs : v.atoms[l] > 0
      BY <1>1, <1>2, SectorKnown, RealizedSound DEF SoundSector, v
    <2>2. in[l] \in Nat /\ v.atoms[l] \in Nat
      BY <1>3, <1>5
    <2> QED
      BY <2>1, <2>2
  <1> HIDE DEF in
  <1> QED
    BY <1>1, <1>2, <1>4, <1>5, <1>6, LeaderDepositStep

\* A depositor's.
LEMMA DepositStep ==
    ASSUME CustodyInv, NEW s \in SectorIds, NEW u \in Users, NEW leg \in Legs,
           NEW amount \in Amounts, Deposit(u, s, leg, amount)
    PROVE  CustodyKept
  <1> DEFINE v == Realized(vaults[s])
             minted == BasketShares(v.total_shares, v.atoms, leg, amount)
             in == BasketIn(v.total_shares, v.atoms, minted)
  <1>1. /\ v.total_shares > 0 /\ DepositInto(s, v, in, minted) /\ minted > 0
        /\ IsOccupied(s) /\ v.leader # u /\ ~v.frozen /\ ~v.tombstoned
        /\ BuyPosition(s, u, minted)
        /\ UNCHANGED <<next_vault_seq, accrued_fee, treasury_open, market_open, signed, listVars>>
    BY DEF Deposit, BuyPosition
  <1>2. /\ Current(s, v) /\ DOMAIN v = VaultFields
        /\ v.total_shares = v.leader_shares + SharesOutside(s)
    BY RealizedCurrent, RealizedSound
  <1> HIDE DEF v
  <1>3. v.total_shares \in Nat \ {0} /\ v.atoms \in [Legs -> Nat] /\ amount \in Nat
        /\ v.leader_shares \in Nat
    BY <1>1, <1>2, MarketAssumption DEF Current, Vault
  <1>4. minted \in Nat
    BY <1>3, BasketFacts
  <1> HIDE DEF minted
  <1>5. /\ in \in [Legs -> Nat]
        /\ \A l \in Legs : (v.atoms[l] + in[l]) * v.total_shares
                             >= v.atoms[l] * (v.total_shares + minted)
    BY <1>3, <1>4, BasketFacts
  <1>6. \E l \in Legs : v.atoms[l] + in[l] > 0
    <2>1. PICK l \in Legs : v.atoms[l] > 0
      BY <1>1, <1>2, SectorKnown, RealizedSound DEF SoundSector, v
    <2>2. in[l] \in Nat /\ v.atoms[l] \in Nat
      BY <1>3, <1>5
    <2> QED
      BY <2>1, <2>2
  <1> HIDE DEF in
  <1>7. PositionsMove(s) /\ SharesOutside(s)' = SharesOutside(s) + minted
    BY <1>1, <1>4, PositionBought
  <1>8. SharesOutside(s) \in Nat
    BY OutsideSum DEF CustodyInv
  <1>9. v.total_shares + minted = v.leader_shares + SharesOutside(s)'
    BY <1>2, <1>3, <1>4, <1>7, <1>8
  <1>10. v.leader # NoLeader /\ \A x \in Users : <<s, x>> \in depositors' => v.leader # x
    BY <1>1, <1>2 DEF CustodyInv, LeaderIsNoDepositor, IsOccupied, Current, BuyPosition
  <1> QED
    BY <1>1, <1>2, <1>4, <1>5, <1>6, <1>7, <1>9, <1>10, DepositIntoStep

\* A depositor's account pays out at most what it holds.
LEMMA PositionWithdrawn ==
    ASSUME CustodyInv, NEW s \in SectorIds, NEW u \in Users, NEW burned \in Nat, burned > 0,
           burned <= shares[<<s, u>>], IsOccupied(s),
           WithdrawFrom(s, Realized(vaults[s]), burned), BurnPosition(s, u, burned),
           UNCHANGED <<next_vault_seq, accrued_fee, treasury_open, market_open, signed>>
    PROVE  CustodyKept
  <1> DEFINE v == Realized(vaults[s])
  <1>1. /\ Current(s, v) /\ v.total_shares = v.leader_shares + SharesOutside(s)
        /\ v.leader = vaults[s].leader
    BY RealizedCurrent, RealizedSound
  <1>2. WithdrawFrom(s, v, burned)
    OBVIOUS
  <1> HIDE DEF v
  <1>3. PositionsMove(s) /\ SharesOutside(s)' = SharesOutside(s) - burned
    BY PositionBurned
  <1>4. SharesOutside(s) \in Nat /\ shares[<<s, u>>] \in Nat /\ shares[<<s, u>>] <= SharesOutside(s)
    BY OutsideSum DEF CustodyInv
  <1>5. v.total_shares \in Nat /\ v.leader_shares \in Nat
    BY <1>1 DEF Current, Vault
  <1>6. burned <= v.total_shares /\ v.total_shares - burned = v.leader_shares + SharesOutside(s)'
    BY <1>1, <1>3, <1>4, <1>5
  <1>7. v.leader # NoLeader /\ \A x \in Users : <<s, x>> \in depositors' => v.leader # x
    <2>1. depositors' \subseteq depositors
      BY DEF BurnPosition
    <2> QED
      BY <1>1, <2>1 DEF CustodyInv, LeaderIsNoDepositor, IsOccupied
  <1> QED
    BY <1>1, <1>2, <1>3, <1>6, <1>7, WithdrawFromStep

\* A depositor withdraws.
LEMMA WithdrawStep ==
    ASSUME CustodyInv, NEW s \in SectorIds, NEW u \in Users, NEW burned \in 1 .. U64Max,
           Withdraw(u, s, burned)
    PROVE  CustodyKept
  <1>1. burned \in Nat /\ burned > 0
    BY ShareMathAssumption
  <1> QED
    BY <1>1, PositionWithdrawn DEF Withdraw

\* An admin pays a depositor out.
LEMMA ForceWithdrawDepositorStep ==
    ASSUME CustodyInv, NEW s \in SectorIds, NEW u \in Users, ForceWithdrawDepositor(u, s)
    PROVE  CustodyKept
  <1> DEFINE burned == shares[<<s, u>>]
  <1>1. burned \in Nat /\ burned <= burned
    BY DEF CustodyInv, TypeOK
  <1>2. /\ burned > 0 /\ IsOccupied(s)
        /\ WithdrawFrom(s, Realized(vaults[s]), burned) /\ BurnPosition(s, u, burned)
        /\ UNCHANGED <<next_vault_seq, accrued_fee, treasury_open, market_open, signed>>
    BY DEF ForceWithdrawDepositor
  <1>3. burned <= shares[<<s, u>>]
    BY <1>1
  <1> HIDE DEF burned
  <1> QED
    BY <1>1, <1>2, <1>3, PositionWithdrawn

\* The leader's own shares, through either door.
LEMMA LeaderWithdrawn ==
    ASSUME CustodyInv, NEW s \in SectorIds, IsOccupied(s), NEW n \in Nat, NEW burned \in Nat,
           burned > 0, Realized(vaults[s]).leader_shares = n + burned,
           WithdrawFrom(s, [Realized(vaults[s]) EXCEPT !.leader_shares = n], burned),
           UNCHANGED <<depositors, shares, outstanding_vault_depositors>>,
           UNCHANGED <<next_vault_seq, accrued_fee, treasury_open, market_open, signed>>
    PROVE  CustodyKept
  <1> DEFINE v == Realized(vaults[s])
             w == [v EXCEPT !.leader_shares = n]
  <1>1. /\ Current(s, v) /\ v.total_shares = v.leader_shares + SharesOutside(s)
        /\ v.leader = vaults[s].leader /\ v.leader_shares = n + burned
    BY RealizedCurrent, RealizedSound
  <1>2. Current(s, w) /\ w.leader_shares = n
    BY RealizedCurrent
  <1>3. WithdrawFrom(s, w, burned)
    OBVIOUS
  <1> HIDE DEF v, w
  <1>4. w.total_shares = v.total_shares /\ w.leader = v.leader /\ v.total_shares \in Nat
    BY <1>1, <1>2 DEF Current, Vault
  <1>5. PositionsMove(s) /\ SharesOutside(s)' = SharesOutside(s) /\ SharesOutside(s) \in Nat
    BY PositionsStay, OutsideSum DEF CustodyInv
  <1>6. burned <= w.total_shares /\ w.total_shares - burned = w.leader_shares + SharesOutside(s)'
    BY <1>1, <1>2, <1>4, <1>5
  <1>7. w.leader # NoLeader /\ \A x \in Users : <<s, x>> \in depositors' => w.leader # x
    BY <1>1, <1>4 DEF CustodyInv, LeaderIsNoDepositor, IsOccupied
  <1> QED
    BY <1>2, <1>3, <1>5, <1>6, <1>7, WithdrawFromStep

\* The leader withdraws.
LEMMA WithdrawLeaderStep ==
    ASSUME CustodyInv, NEW s \in SectorIds, NEW u, NEW burned \in 1 .. U64Max,
           WithdrawLeader(u, s, burned)
    PROVE  CustodyKept
  <1> DEFINE v == Realized(vaults[s])
             n == v.leader_shares - burned
  <1>1. burned \in Nat /\ burned > 0
    BY ShareMathAssumption
  <1>2. /\ IsOccupied(s) /\ burned <= v.leader_shares
        /\ WithdrawFrom(s, [v EXCEPT !.leader_shares = n], burned)
        /\ UNCHANGED <<depositors, shares, outstanding_vault_depositors>>
        /\ UNCHANGED <<next_vault_seq, accrued_fee, treasury_open, market_open, signed>>
    BY DEF WithdrawLeader
  <1>3. v.leader_shares \in Nat
    BY RealizedSound DEF Vault
  <1>4. n \in Nat /\ v.leader_shares = n + burned
    <2> HIDE DEF v
    <2> QED
      BY <1>1, <1>2, <1>3
  <1> HIDE DEF n
  <1> QED
    BY <1>1, <1>2, <1>4, LeaderWithdrawn

\* A sector given back with no share sold: an empty vault that an admin, or its
\* leader, closes.
LEMMA ReclaimStep ==
    ASSUME CustodyInv, NEW s \in SectorIds, vaults[s].total_shares = 0,
           NEW v \in Vault, DOMAIN v = VaultFields,
           v.total_shares = vaults[s].total_shares, v.leader_shares = vaults[s].leader_shares,
           v.atoms = vaults[s].atoms, ReclaimSector(s, v),
           UNCHANGED <<depositors, shares, outstanding_vault_depositors, next_vault_seq,
                       treasury, accrued_fee, treasury_open, market_open, signed>>
    PROVE  CustodyKept
  <1> DEFINE x == [v EXCEPT !.leader = NoLeader]
  <1>1. /\ Update(s, x) /\ Release(s)
        /\ treasury' = treasury /\ accrued_fee' = accrued_fee /\ treasury_open' = treasury_open
        /\ market_open' = market_open /\ signed' = signed /\ next_vault_seq' = next_vault_seq
    BY DEF ReclaimSector
  <1>2. /\ x \in Vault /\ x.leader = NoLeader /\ x.atoms = vaults[s].atoms
        /\ x.total_shares = vaults[s].total_shares /\ x.leader_shares = vaults[s].leader_shares
    BY Fields DEF Vault
  <1> HIDE DEF x
  <1>3. PositionsMove(s) /\ SharesOutside(s)' = SharesOutside(s)
    BY PositionsStay
  <1>4. SoundSector(x, SharesOutside(s)')
    BY <1>2, <1>3, SectorKnown DEF SoundSector
  <1>5. ListsSound'
    BY <1>1, ListsMove DEF ListsSound, CustodyInv, TypeOK
  <1>6. /\ treasury' \in [Legs -> Int] /\ accrued_fee' \in [Legs -> Nat]
        /\ next_vault_seq' \in 0 .. MaxSeq /\ signed' \subseteq SectorIds \X (1 .. MaxSeq)
    BY <1>1 DEF CustodyInv, TypeOK
  <1>7. \A leg \in Legs : treasury'[leg] - accrued_fee'[leg] - x.atoms[leg]
                            >= treasury[leg] - accrued_fee[leg] - vaults[s].atoms[leg]
    <2> SUFFICES ASSUME NEW leg \in Legs
                 PROVE  treasury[leg] - accrued_fee[leg] - vaults[s].atoms[leg]
                            >= treasury[leg] - accrued_fee[leg] - vaults[s].atoms[leg]
      BY <1>1, <1>2
    <2>1. treasury[leg] \in Nat /\ accrued_fee[leg] \in Nat /\ vaults[s].atoms[leg] \in Nat
      BY DEF CustodyInv, TypeOK, Vault
    <2> QED
      BY <2>1
  <1>8. \A u \in Users : <<s, u>> \in depositors' => x.leader # u
    BY <1>2, MarketAssumption
  <1>9. CustodyInv'
    BY <1>1, <1>2, <1>3, <1>4, <1>5, <1>6, <1>7, <1>8, SectorStep
  <1> QED
    BY <1>1, <1>2, <1>9, FairSector DEF CustodyKept

\* An admin pays the leader out.
LEMMA ForceWithdrawLeaderStep ==
    ASSUME CustodyInv, NEW s \in SectorIds, ForceWithdrawLeader(s)
    PROVE  CustodyKept
  <1>1. CASE vaults[s].total_shares = 0
    <2>1. /\ ReclaimSector(s, vaults[s])
          /\ UNCHANGED <<depositors, shares, outstanding_vault_depositors, next_vault_seq,
                         treasury, accrued_fee, treasury_open, market_open, signed>>
      BY <1>1 DEF ForceWithdrawLeader
    <2>2. vaults[s] \in Vault /\ DOMAIN vaults[s] = VaultFields
      BY SectorKnown
    <2> QED
      BY <1>1, <2>1, <2>2, ReclaimStep
  <1>2. CASE vaults[s].total_shares # 0
    <2> DEFINE v == Realized(vaults[s])
               burned == v.leader_shares
    <2>1. /\ IsOccupied(s) /\ burned > 0
          /\ WithdrawFrom(s, [v EXCEPT !.leader_shares = 0], burned)
          /\ UNCHANGED <<depositors, shares, outstanding_vault_depositors>>
          /\ UNCHANGED <<next_vault_seq, accrued_fee, treasury_open, market_open, signed>>
      BY <1>2 DEF ForceWithdrawLeader
    <2>2. burned \in Nat /\ 0 \in Nat
      BY RealizedSound DEF Vault
    <2>3. v.leader_shares = 0 + burned
      <3> HIDE DEF v
      <3> QED
        BY <2>2
    <2> HIDE DEF burned
    <2> QED
      BY <2>1, <2>2, <2>3, LeaderWithdrawn
  <1> QED
    BY <1>1, <1>2

-----------------------------------------------------------------------------
(* The life of a vault, fills and the treasuries *)

\* A vault opens on a sector that held nothing and that nobody has a position in.
LEMMA CreateVaultStep ==
    ASSUME CustodyInv, IdentityInv, NEW payer, NEW leader \in Users, NEW authority \in QuoteKeys,
           NEW name \in Names \cup {Unset}, NEW rate \in FeeRates, NEW allow \in Flags,
           NEW s \in SectorIds, CreateVault(payer, leader, authority, name, rate, allow, s)
    PROVE  CustodyKept
  <1> DEFINE w == [ZeroedVault EXCEPT
                     !.name = name, !.leader = leader, !.quote_authority = authority,
                     !.seq = next_vault_seq + 1, !.perf_fee_rate = rate, !.hwm = Q32,
                     !.min_leader_share = DefaultFloor, !.allow_outside_depositors = allow]
  <1>1. /\ Update(s, w) /\ Open(s)
        /\ next_vault_seq' = next_vault_seq + 1 /\ next_vault_seq < MaxSeq
        /\ UNCHANGED <<depositors, shares, outstanding_vault_depositors>>
        /\ treasury' = treasury /\ accrued_fee' = accrued_fee /\ treasury_open' = treasury_open
        /\ market_open' = market_open /\ signed' = signed /\ depositors' = depositors
    BY DEF CreateVault
  <1>2. next_vault_seq + 1 \in 1 .. MaxSeq
    BY <1>1, MarketAssumption DEF CustodyInv, TypeOK
  <1>3. /\ w \in Vault
        /\ w.leader \in Users /\ w.leader # NoLeader /\ w.seq = next_vault_seq + 1
        /\ w.total_shares = 0 /\ w.leader_shares = 0 /\ w.atoms = NoAtoms
    <2>1. /\ next_vault_seq + 1 \in 0 .. MaxSeq /\ rate \in 0 .. PPM /\ allow \in BOOLEAN
          /\ Q32 \in Nat /\ DefaultFloor \in 0 .. PPM /\ authority \in Users
          /\ NoAtoms \in [Legs -> Nat]
      BY <1>2, MarketAssumption, ShareMathAssumption DEF NoAtoms
    <2> QED
      BY <2>1, MarketAssumption DEF Vault, ZeroedVault
  <1> HIDE DEF w
  <1>4. ~IsOccupied(s)
    BY <1>1 DEF Open, OnListSet, IdentityInv, FlagsMatchLists
  <1>5. vaults[s].total_shares = 0 /\ vaults[s].atoms = NoAtoms /\ SharesOutside(s) = 0
    <2>1. vaults[s].total_shares = 0 /\ SoundSector(vaults[s], SharesOutside(s))
      BY <1>4, SectorKnown DEF SoundSector, IsOccupied
    <2>2. SharesOutside(s) \in Nat /\ vaults[s].leader_shares \in Nat
      BY OutsideSum DEF CustodyInv, TypeOK, Vault
    <2> QED
      BY <2>1, <2>2 DEF SoundSector
  <1>6. PositionsMove(s) /\ SharesOutside(s)' = SharesOutside(s)
    BY <1>1, PositionsStay
  <1>7. SoundSector(w, SharesOutside(s)')
    BY <1>2, <1>3, <1>5, <1>6, ShareMathAssumption DEF SoundSector
  <1>8. \A u \in Users : <<s, u>> \in depositors' => w.leader # u
    <2>1. \A u \in Users : shares[<<s, u>>] = 0
      BY <1>5, OutsideSum DEF CustodyInv
    <2>2. \A u \in Users : <<s, u>> \notin depositors
      BY <2>1 DEF CustodyInv, PositionsCounted
    <2> QED
      BY <1>1, <2>2
  <1>9. ListsSound'
    BY <1>1, ListsMove DEF ListsSound, CustodyInv, TypeOK
  <1>10. /\ treasury' \in [Legs -> Int] /\ accrued_fee' \in [Legs -> Nat]
         /\ next_vault_seq' \in 0 .. MaxSeq /\ signed' \subseteq SectorIds \X (1 .. MaxSeq)
    BY <1>1, <1>2 DEF CustodyInv, TypeOK
  <1>11. \A leg \in Legs : treasury'[leg] - accrued_fee'[leg] - w.atoms[leg]
                            >= treasury[leg] - accrued_fee[leg] - vaults[s].atoms[leg]
    <2> SUFFICES ASSUME NEW leg \in Legs
                 PROVE  treasury[leg] - accrued_fee[leg] - vaults[s].atoms[leg]
                            >= treasury[leg] - accrued_fee[leg] - vaults[s].atoms[leg]
      BY <1>1, <1>3, <1>5
    <2>1. treasury[leg] \in Nat /\ accrued_fee[leg] \in Nat /\ vaults[s].atoms[leg] \in Nat
      BY DEF CustodyInv, TypeOK, Vault
    <2> QED
      BY <2>1
  <1>12. CustodyInv'
    BY <1>1, <1>3, <1>5, <1>6, <1>7, <1>8, <1>9, <1>10, <1>11, SectorStep
  <1> QED
    BY <1>1, <1>4, <1>12, FairSector DEF CustodyKept, SameVault

\* A vault with shares goes to the tombstones with them.
LEMMA CloseVaultStep ==
    ASSUME CustodyInv, NEW s \in SectorIds, NEW u, CloseVault(u, s)
    PROVE  CustodyKept
  <1> DEFINE v == [vaults[s] EXCEPT !.name = Unset, !.name_locked = FALSE]
             w == [v EXCEPT !.tombstoned = TRUE]
  <1>1. /\ vaults[s] \in Vault /\ DOMAIN vaults[s] = VaultFields
        /\ SoundSector(vaults[s], SharesOutside(s))
    BY SectorKnown
  <1>2. v \in Vault /\ w \in Vault
    BY <1>1 DEF Vault
  <1>3. /\ DOMAIN v = VaultFields /\ v.total_shares = vaults[s].total_shares
        /\ v.leader_shares = vaults[s].leader_shares /\ v.atoms = vaults[s].atoms
        /\ SameAccounts(vaults[s], w) /\ AdminField(w) = AdminField(vaults[s])
        /\ w.name_locked = FALSE
    BY <1>1, Fields DEF SameAccounts, AdminField
  <1>4. /\ v.total_shares = 0 => ReclaimSector(s, v)
        /\ v.total_shares # 0 => Retire(s) /\ Update(s, w)
        /\ UNCHANGED <<depositors, shares, outstanding_vault_depositors, next_vault_seq,
                       treasury, accrued_fee, treasury_open, market_open, signed>>
    BY DEF CloseVault
  <1> HIDE DEF v, w
  <1>5. CASE v.total_shares = 0
    BY <1>2, <1>3, <1>4, <1>5, ReclaimStep
  <1>6. CASE v.total_shares # 0
    <2>1. /\ Update(s, w) /\ Retire(s)
          /\ treasury' = treasury /\ accrued_fee' = accrued_fee
          /\ treasury_open' = treasury_open /\ market_open' = market_open /\ signed' = signed
          /\ next_vault_seq' = next_vault_seq /\ depositors' = depositors
          /\ UNCHANGED <<depositors, shares, outstanding_vault_depositors>>
      BY <1>4, <1>6
    <2>2. PositionsMove(s) /\ SharesOutside(s)' = SharesOutside(s)
      BY <2>1, PositionsStay
    <2>3. SoundSector(w, SharesOutside(s)')
      BY <1>1, <1>3, <2>2 DEF SoundSector, SameAccounts
    <2>4. ListsSound'
      BY <2>1, ListsMove DEF ListsSound, CustodyInv, TypeOK
    <2>5. /\ treasury' \in [Legs -> Int] /\ accrued_fee' \in [Legs -> Nat]
          /\ next_vault_seq' \in 0 .. MaxSeq /\ signed' \subseteq SectorIds \X (1 .. MaxSeq)
      BY <2>1 DEF CustodyInv, TypeOK
    <2>6. \A leg \in Legs : treasury'[leg] - accrued_fee'[leg] - w.atoms[leg]
                              >= treasury[leg] - accrued_fee[leg] - vaults[s].atoms[leg]
      <3> SUFFICES ASSUME NEW leg \in Legs
                   PROVE  treasury[leg] - accrued_fee[leg] - vaults[s].atoms[leg]
                              >= treasury[leg] - accrued_fee[leg] - vaults[s].atoms[leg]
        BY <1>3, <2>1 DEF SameAccounts
      <3>1. treasury[leg] \in Nat /\ accrued_fee[leg] \in Nat /\ vaults[s].atoms[leg] \in Nat
        BY DEF CustodyInv, TypeOK, Vault
      <3> QED
        BY <3>1
    <2>7. \A x \in Users : <<s, x>> \in depositors' => w.leader # x
      BY <1>3, <2>1 DEF CustodyInv, LeaderIsNoDepositor, SameAccounts
    <2>8. CustodyInv'
      BY <1>2, <1>3, <2>1, <2>2, <2>3, <2>4, <2>5, <2>6, <2>7, SectorStep DEF SameAccounts
    <2>9. FairTo(s, w)
      <3>1. vaults[s].hwm \in Nat /\ vaults[s].total_shares \in Nat
        BY <1>1 DEF Vault
      <3> QED
        BY <1>3, <3>1 DEF FairTo, SameAccounts
    <2> QED
      BY <2>1, <2>8, <2>9, FairSector DEF CustodyKept
  <1> QED
    BY <1>5, <1>6

\* A taker's input, its residue, what it takes and the fee it leaves.
LEMMA FillStep ==
    ASSUME CustodyInv, NEW s \in SectorIds, NEW leg \in Legs, NEW in \in FillAmounts,
           NEW out \in FillAmounts, NEW fee \in TakerFees, NEW residue \in Residues,
           Fill(s, leg, in, out, fee, residue)
    PROVE  CustodyKept
  <1> DEFINE to == OtherLeg(leg)
             a == [vaults[s].atoms EXCEPT ![leg] = @ + in, ![to] = @ - out]
             w == [vaults[s] EXCEPT !.atoms = a]
  <1>1. /\ in \in Nat \ {0} /\ out \in Nat \ {0} /\ fee \in Nat /\ residue \in Nat
        /\ to \in Legs /\ to # leg /\ Legs = {leg, to}
    BY MarketAssumption DEF OtherLeg, Legs
  <1>2. /\ Update(s, w) /\ TreasuriesOpen /\ listOf[s] = "Active"
        /\ out <= vaults[s].atoms[to] /\ fee <= out
        /\ treasury' = [treasury EXCEPT ![leg] = @ + in + residue, ![to] = @ - (out - fee)]
        /\ accrued_fee' = [accrued_fee EXCEPT ![to] = @ + fee]
        /\ UNCHANGED <<depositors, shares, outstanding_vault_depositors>>
        /\ treasury_open' = treasury_open /\ depositors' = depositors
        /\ market_open' = market_open /\ signed' = signed /\ next_vault_seq' = next_vault_seq
        /\ UNCHANGED listVars
    BY DEF Fill
  <1> HIDE DEF to
  <1>3. /\ vaults[s] \in Vault /\ DOMAIN vaults[s] = VaultFields
        /\ SoundSector(vaults[s], SharesOutside(s))
        /\ vaults[s].atoms \in [Legs -> Nat]
    BY SectorKnown DEF Vault
  <1>4. /\ a \in [Legs -> Nat] /\ a[leg] = vaults[s].atoms[leg] + in
        /\ a[to] = vaults[s].atoms[to] - out
    BY <1>1, <1>2, <1>3
  <1> HIDE DEF a
  <1>5. /\ w \in Vault /\ w.atoms = a /\ w.leader = vaults[s].leader /\ w.seq = vaults[s].seq
        /\ w.total_shares = vaults[s].total_shares /\ w.leader_shares = vaults[s].leader_shares
        /\ w.hwm = vaults[s].hwm /\ w.perf_fee_rate = vaults[s].perf_fee_rate
        /\ AdminField(w) = AdminField(vaults[s]) /\ w.name_locked = vaults[s].name_locked
    BY <1>3, <1>4, Fields DEF Vault, AdminField
  <1> HIDE DEF w
  <1>6. vaults[s].total_shares > 0
    <2>1. vaults[s].atoms[to] > 0
      BY <1>1, <1>2, <1>3
    <2> QED
      BY <1>1, <1>3, <2>1 DEF SoundSector, NoAtoms, Vault
  <1>7. PositionsMove(s) /\ SharesOutside(s)' = SharesOutside(s)
    BY <1>2, PositionsStay
  <1>8. SoundSector(w, SharesOutside(s)')
    <2>1. a[leg] > 0
      BY <1>1, <1>3, <1>4
    <2> QED
      BY <1>3, <1>5, <1>6, <1>7, <2>1 DEF SoundSector
  <1>9. ListsSound'
    BY <1>2, ListsMove DEF ListsSound, CustodyInv, TypeOK
  <1>10. treasury \in [Legs -> Nat] /\ accrued_fee \in [Legs -> Nat]
    BY DEF CustodyInv, TypeOK
  <1>11. /\ treasury' \in [Legs -> Int] /\ accrued_fee' \in [Legs -> Nat]
         /\ treasury'[leg] = treasury[leg] + in + residue
         /\ treasury'[to] = treasury[to] - (out - fee)
         /\ accrued_fee'[leg] = accrued_fee[leg] /\ accrued_fee'[to] = accrued_fee[to] + fee
    BY <1>1, <1>2, <1>10
  <1>12. next_vault_seq' \in 0 .. MaxSeq /\ signed' \subseteq SectorIds \X (1 .. MaxSeq)
    BY <1>2 DEF CustodyInv, TypeOK
  <1>13. \A l \in Legs : treasury'[l] - accrued_fee'[l] - w.atoms[l]
                            >= treasury[l] - accrued_fee[l] - vaults[s].atoms[l]
    <2>1. treasury'[leg] - accrued_fee'[leg] - a[leg]
            >= treasury[leg] - accrued_fee[leg] - vaults[s].atoms[leg]
      BY <1>1, <1>3, <1>4, <1>10, <1>11
    <2>2. treasury'[to] - accrued_fee'[to] - a[to]
            >= treasury[to] - accrued_fee[to] - vaults[s].atoms[to]
      BY <1>1, <1>3, <1>4, <1>10, <1>11
    <2> QED
      BY <1>1, <1>5, <2>1, <2>2
  <1>14. \A u \in Users : <<s, u>> \in depositors' => w.leader # u
    BY <1>2, <1>5 DEF CustodyInv, LeaderIsNoDepositor
  <1>15. CustodyInv'
    BY <1>2, <1>5, <1>7, <1>8, <1>9, <1>11, <1>12, <1>13, <1>14, SectorStep
  <1>16. FairTo(s, w)
    <2>1. vaults[s].hwm \in Nat /\ vaults[s].total_shares \in Nat
      BY <1>3 DEF Vault
    <2> QED
      BY <1>5, <2>1 DEF FairTo
  <1> QED
    BY <1>2, <1>15, <1>16, FairSector DEF CustodyKept

\* The vaults and the positions stay; the treasuries move within what is claimed.
LEMMA SlabStaysStep ==
    ASSUME CustodyInv,
           UNCHANGED <<vaults, depositors, shares, outstanding_vault_depositors,
                       next_vault_seq, market_open, listVars>>,
           treasury' \in [Legs -> Nat], accrued_fee' \in [Legs -> Nat],
           treasury_open' \in [Legs -> BOOLEAN],
           \A leg \in Legs : treasury'[leg] >= LegVaultSum(leg) + accrued_fee'[leg],
           \A leg \in Legs : ~treasury_open'[leg] => LegVaultSum(leg) = 0,
           signed' \subseteq SectorIds \X (1 .. MaxSeq)
    PROVE  CustodyKept
  <1>1. /\ vaults' = vaults /\ depositors' = depositors /\ shares' = shares
        /\ outstanding_vault_depositors' = outstanding_vault_depositors
        /\ next_vault_seq' = next_vault_seq /\ market_open' = market_open
        /\ listOf' = listOf /\ active_count' = active_count
    BY DEF listVars
  <1>2. \A leg \in Legs : LegVaultSum(leg)' = LegVaultSum(leg)
    BY <1>1 DEF LegVaultSum
  <1>3. \A s \in SectorIds : SharesOutside(s)' = SharesOutside(s)
    BY <1>1 DEF SharesOutside
  <1>4. TypeOK'
    BY <1>1 DEF CustodyInv, TypeOK
  <1>5. Solvent' /\ ClosedTreasuriesEmpty'
    BY <1>2 DEF Solvent, ClosedTreasuriesEmpty
  <1>6. SectorsSound'
    BY <1>1, <1>3 DEF CustodyInv, SectorsSound
  <1>7. PositionsCounted' /\ LeaderIsNoDepositor' /\ ActiveCounted'
    BY <1>1 DEF CustodyInv, PositionsCounted, LeaderIsNoDepositor, ActiveCounted, OnListSet
  <1> QED
    BY <1>1, <1>4, <1>5, <1>6, <1>7, SlabStays DEF CustodyKept, CustodyInv

\* An admin reads a vault: its number is one that was given.
LEMMA AdminSignStep ==
    ASSUME CustodyInv, NEW s \in SectorIds, AdminSign(s)
    PROVE  CustodyKept
  <1>1. vaults[s].seq \in 1 .. MaxSeq
    BY SectorKnown, MarketAssumption DEF AdminSign, IsOccupied, SoundSector, Vault
  <1>2. signed' \subseteq SectorIds \X (1 .. MaxSeq)
    BY <1>1 DEF AdminSign, CustodyInv, TypeOK
  <1>3. /\ UNCHANGED <<vaults, depositors, shares, outstanding_vault_depositors,
                       next_vault_seq, market_open, listVars>>
        /\ treasury' = treasury /\ accrued_fee' = accrued_fee /\ treasury_open' = treasury_open
    BY DEF AdminSign
  <1> QED
    BY <1>2, <1>3, SlabStaysStep DEF CustodyInv, TypeOK, Solvent, ClosedTreasuriesEmpty

\* A donation is nobody's.
LEMMA DonateStep ==
    ASSUME CustodyInv, NEW leg \in Legs, NEW amount \in Residues \ {0}, Donate(leg, amount)
    PROVE  CustodyKept
  <1>1. /\ UNCHANGED <<vaults, depositors, shares, outstanding_vault_depositors,
                       next_vault_seq, market_open, listVars>>
        /\ accrued_fee' = accrued_fee /\ treasury_open' = treasury_open /\ signed' = signed
        /\ treasury' = [treasury EXCEPT ![leg] = @ + amount]
    BY DEF Donate
  <1>2. amount \in Nat /\ treasury \in [Legs -> Nat] /\ accrued_fee \in [Legs -> Nat]
    BY MarketAssumption DEF CustodyInv, TypeOK
  <1>3. treasury' \in [Legs -> Nat] /\ \A l \in Legs : treasury'[l] >= treasury[l]
    BY <1>1, <1>2
  <1>4. \A l \in Legs : treasury'[l] >= LegVaultSum(l) + accrued_fee'[l]
    <2> TAKE l \in Legs
    <2>1. LegVaultSum(l) \in Nat /\ treasury[l] >= LegVaultSum(l) + accrued_fee[l]
      BY LegSum DEF CustodyInv, Solvent
    <2> QED
      BY <1>1, <1>2, <1>3, <2>1
  <1> QED
    BY <1>1, <1>2, <1>3, <1>4, SlabStaysStep DEF CustodyInv, TypeOK, ClosedTreasuriesEmpty

\* What is swept is what nobody claims.
LEMMA SweepResidualStep ==
    ASSUME CustodyInv, NEW leg \in Legs, SweepResidual(leg)
    PROVE  CustodyKept
  <1> DEFINE n == Lesser(treasury[leg], LegVaultSum(leg) + accrued_fee[leg])
  <1>1. /\ UNCHANGED <<vaults, depositors, shares, outstanding_vault_depositors,
                       next_vault_seq, market_open, listVars>>
        /\ accrued_fee' = accrued_fee /\ treasury_open' = treasury_open /\ signed' = signed
        /\ treasury' = [treasury EXCEPT ![leg] = n]
    BY DEF SweepResidual
  <1>2. treasury \in [Legs -> Nat] /\ accrued_fee \in [Legs -> Nat]
    BY DEF CustodyInv, TypeOK
  <1>3. \A l \in Legs : LegVaultSum(l) \in Nat /\ treasury[l] >= LegVaultSum(l) + accrued_fee[l]
    BY LegSum DEF CustodyInv, Solvent
  <1>4. n = LegVaultSum(leg) + accrued_fee[leg] /\ n \in Nat
    BY <1>2, <1>3 DEF Lesser
  <1> HIDE DEF n
  <1>5. treasury' \in [Legs -> Nat]
    BY <1>1, <1>2, <1>4
  <1>6. \A l \in Legs : treasury'[l] >= LegVaultSum(l) + accrued_fee'[l]
    BY <1>1, <1>2, <1>3, <1>4
  <1> QED
    BY <1>1, <1>2, <1>5, <1>6, SlabStaysStep DEF CustodyInv, TypeOK, ClosedTreasuriesEmpty

\* A treasury closes when no vault claims its leg.
LEMMA CloseMarketTreasuryStep ==
    ASSUME CustodyInv, NEW leg \in Legs, CloseMarketTreasury(leg)
    PROVE  CustodyKept
  <1>1. /\ UNCHANGED <<vaults, depositors, shares, outstanding_vault_depositors,
                       next_vault_seq, market_open, listVars>>
        /\ signed' = signed /\ LegVaultSum(leg) = 0
        /\ treasury' = [treasury EXCEPT ![leg] = 0]
        /\ accrued_fee' = [accrued_fee EXCEPT ![leg] = 0]
        /\ treasury_open' = [treasury_open EXCEPT ![leg] = FALSE]
    BY DEF CloseMarketTreasury
  <1>2. /\ treasury \in [Legs -> Nat] /\ accrued_fee \in [Legs -> Nat]
        /\ treasury_open \in [Legs -> BOOLEAN]
    BY DEF CustodyInv, TypeOK
  <1>3. /\ treasury' \in [Legs -> Nat] /\ accrued_fee' \in [Legs -> Nat]
        /\ treasury_open' \in [Legs -> BOOLEAN]
    BY <1>1, <1>2
  <1>4. \A l \in Legs : treasury'[l] >= LegVaultSum(l) + accrued_fee'[l]
    BY <1>1, <1>2 DEF CustodyInv, Solvent
  <1>5. \A l \in Legs : ~treasury_open'[l] => LegVaultSum(l) = 0
    BY <1>1, <1>2 DEF CustodyInv, ClosedTreasuriesEmpty
  <1> QED
    BY <1>1, <1>3, <1>4, <1>5, SlabStaysStep DEF CustodyInv, TypeOK

\* With its treasuries gone a market owes nobody.
LEMMA ClosableIsEmpty ==
    ASSUME CustodyInv, \A leg \in Legs : ~treasury_open[leg]
    PROVE  \A s \in SectorIds : vaults[s].total_shares = 0
  <1> SUFFICES ASSUME NEW s \in SectorIds, vaults[s].total_shares # 0 PROVE FALSE
    OBVIOUS
  <1>1. vaults[s].total_shares > 0
    BY DEF CustodyInv, TypeOK, Vault
  <1>2. PICK leg \in Legs : vaults[s].atoms[leg] > 0
    BY <1>1, SectorKnown DEF SoundSector
  <1>3. LegVaultSum(leg) = 0
    BY DEF CustodyInv, ClosedTreasuriesEmpty
  <1>4. vaults[s].atoms[leg] \in Nat /\ vaults[s].atoms[leg] <= LegVaultSum(leg)
    BY LegSum DEF CustodyInv
  <1> QED
    BY <1>2, <1>3, <1>4

\* The market goes with nobody in it.
LEMMA CloseMarketStep ==
    ASSUME CustodyInv, CloseMarket
    PROVE  CustodyKept /\ depositors = {} /\ \A s \in SectorIds : vaults[s].total_shares = 0
  <1>1. /\ vaults' = [s \in SectorIds |-> ZeroedVault]
        /\ listOf' = [s \in SectorIds |-> "Unallocated"]
        /\ active_count' = 0 /\ next_vault_seq' = 0 /\ market_open' = FALSE
        /\ outstanding_vault_depositors = 0 /\ \A leg \in Legs : ~treasury_open[leg]
        /\ depositors' = depositors /\ shares' = shares
        /\ outstanding_vault_depositors' = outstanding_vault_depositors
        /\ treasury' = treasury /\ accrued_fee' = accrued_fee /\ treasury_open' = treasury_open
        /\ signed' = signed
    BY DEF CloseMarket
  <1>2. \A s \in SectorIds : vaults[s].total_shares = 0
    BY <1>1, ClosableIsEmpty
  <1>3. depositors = {}
    <2>1. IsFiniteSet(depositors)
      BY Finite DEF CustodyInv, TypeOK
    <2> QED
      BY <1>1, <2>1, FS_EmptySet DEF CustodyInv, PositionsCounted
  <1>4. /\ ZeroedVault \in Vault /\ ZeroedVault.leader = NoLeader
        /\ ZeroedVault.total_shares = 0 /\ ZeroedVault.leader_shares = 0
        /\ ZeroedVault.atoms = NoAtoms /\ 0 \in 0 .. MaxSeq
    <2>1. 0 \in 0 .. MaxSeq /\ 0 \in 0 .. PPM /\ NoAtoms \in [Legs -> Nat]
      BY MarketAssumption, ShareMathAssumption DEF NoAtoms
    <2> QED
      BY <2>1 DEF Vault, ZeroedVault
  <1>5. \A leg \in Legs : LegVaultSum(leg)' = 0
    <2> TAKE leg \in Legs
    <2>1. [s \in SectorIds |-> vaults'[s].atoms[leg]] = [s \in SectorIds |-> 0]
      BY <1>1, <1>4 DEF NoAtoms
    <2>2. SumFunction([s \in SectorIds |-> 0]) = 0
      BY Finite, SumOfZeros
    <2> QED
      BY <2>1, <2>2 DEF LegVaultSum
  <1>6. \A s \in SectorIds : SharesOutside(s)' = 0
    <2> TAKE s \in SectorIds
    <2>1. \A u \in Users : shares[<<s, u>>] = 0
      BY <1>3 DEF CustodyInv, PositionsCounted, TypeOK
    <2>2. [u \in Users |-> shares'[<<s, u>>]] = [u \in Users |-> 0]
      BY <1>1, <2>1
    <2>3. SumFunction([u \in Users |-> 0]) = 0
      BY Finite, SumOfZeros
    <2> QED
      BY <2>2, <2>3 DEF SharesOutside
  <1>7. TypeOK'
    <2>1. vaults' \in [SectorIds -> Vault]
      BY <1>1, <1>4
    <2> QED
      BY <1>1, <1>4, <2>1 DEF CustodyInv, TypeOK
  <1>8. SectorsSound'
    BY <1>1, <1>4, <1>6, ShareMathAssumption DEF SectorsSound, SoundSector
  <1>9. PositionsCounted' /\ LeaderIsNoDepositor'
    BY <1>1, <1>3 DEF CustodyInv, PositionsCounted, LeaderIsNoDepositor
  <1>10. ActiveCounted'
    <2>1. OnListSet("Active")' = {}
      BY <1>1 DEF OnListSet
    <2> QED
      BY <1>1, <2>1, FS_EmptySet DEF ActiveCounted
  <1>11. Solvent' /\ ClosedTreasuriesEmpty'
    <2> SUFFICES ASSUME NEW leg \in Legs PROVE treasury[leg] >= 0 + accrued_fee[leg]
      BY <1>1, <1>5 DEF Solvent, ClosedTreasuriesEmpty
    <2>1. LegVaultSum(leg) \in Nat /\ treasury[leg] >= LegVaultSum(leg) + accrued_fee[leg]
      BY LegSum DEF CustodyInv, Solvent
    <2>2. treasury[leg] \in Nat /\ accrued_fee[leg] \in Nat
      BY DEF CustodyInv, TypeOK
    <2> QED
      BY <2>1, <2>2
  <1>12. FairStep
    BY <1>1, <1>4 DEF FairStep, SameVault, IsOccupied
  <1> QED
    BY <1>2, <1>3, <1>7, <1>8, <1>9, <1>10, <1>11, <1>12 DEF CustodyKept, CustodyInv

-----------------------------------------------------------------------------
(* Every step *)

\* A new market owes nobody.
LEMMA InitCustody == Init => CustodyInv
  <1> SUFFICES ASSUME Init PROVE CustodyInv
    OBVIOUS
  <1>1. /\ vaults = [s \in SectorIds |-> ZeroedVault]
        /\ listOf = [s \in SectorIds |-> "Unallocated"] /\ active_count = 0
        /\ next_vault_seq = 0 /\ market_open = TRUE /\ signed = {}
        /\ depositors = {} /\ outstanding_vault_depositors = 0
        /\ shares = [p \in SectorIds \X Users |-> 0]
        /\ treasury = NoAtoms /\ accrued_fee = NoAtoms
        /\ treasury_open = [leg \in Legs |-> TRUE]
    BY DEF Init, ListsInit
  <1>2. /\ ZeroedVault \in Vault /\ ZeroedVault.leader = NoLeader
        /\ ZeroedVault.total_shares = 0 /\ ZeroedVault.leader_shares = 0
        /\ ZeroedVault.atoms = NoAtoms /\ 0 \in 0 .. MaxSeq /\ NoAtoms \in [Legs -> Nat]
    <2>1. 0 \in 0 .. MaxSeq /\ 0 \in 0 .. PPM /\ NoAtoms \in [Legs -> Nat]
      BY MarketAssumption, ShareMathAssumption DEF NoAtoms
    <2> QED
      BY <2>1 DEF Vault, ZeroedVault
  <1>3. \A leg \in Legs : LegVaultSum(leg) = 0
    <2> TAKE leg \in Legs
    <2>1. [s \in SectorIds |-> vaults[s].atoms[leg]] = [s \in SectorIds |-> 0]
      BY <1>1, <1>2 DEF NoAtoms
    <2>2. SumFunction([s \in SectorIds |-> 0]) = 0
      BY Finite, SumOfZeros
    <2> QED
      BY <2>1, <2>2 DEF LegVaultSum
  <1>4. \A s \in SectorIds : SharesOutside(s) = 0
    <2> TAKE s \in SectorIds
    <2>1. [u \in Users |-> shares[<<s, u>>]] = [u \in Users |-> 0]
      BY <1>1
    <2>2. SumFunction([u \in Users |-> 0]) = 0
      BY Finite, SumOfZeros
    <2> QED
      BY <2>1, <2>2 DEF SharesOutside
  <1>5. TypeOK
    <2>1. vaults \in [SectorIds -> Vault]
      BY <1>1, <1>2
    <2> QED
      BY <1>1, <1>2, <2>1 DEF TypeOK
  <1>6. SectorsSound
    BY <1>1, <1>2, <1>4, ShareMathAssumption DEF SectorsSound, SoundSector
  <1>7. PositionsCounted /\ LeaderIsNoDepositor
    <2>1. Cardinality({}) = 0
      BY FS_EmptySet
    <2> QED
      BY <1>1, <2>1 DEF PositionsCounted, LeaderIsNoDepositor
  <1>8. ActiveCounted
    <2>1. OnListSet("Active") = {}
      BY <1>1 DEF OnListSet
    <2> QED
      BY <1>1, <2>1, FS_EmptySet DEF ActiveCounted
  <1>9. Solvent /\ ClosedTreasuriesEmpty
    BY <1>1, <1>3 DEF Solvent, ClosedTreasuriesEmpty, NoAtoms
  <1> QED
    BY <1>5, <1>6, <1>7, <1>8, <1>9 DEF CustodyInv

\* The leader's instructions.
LEMMA LeaderNextStep ==
    ASSUME CustodyInv, NEW u \in Users, NEW s \in SectorIds, LeaderNext(u, s)
    PROVE  CustodyKept
  BY CloseVaultStep, SeedVaultStep, DepositLeaderStep, WithdrawLeaderStep, SetLeaderStep,
     SetPerfFeeRateStep, SettingsStep DEF LeaderNext

\* The admins'.
LEMMA AdminNextStep ==
    ASSUME CustodyInv, AdminNext
    PROVE  CustodyKept
  <1>1. ASSUME NEW p \in signed, PinnedNext(p[1], p[2])
        PROVE  CustodyKept
    <2>1. p[1] \in SectorIds /\ p = <<p[1], p[2]>>
      BY DEF CustodyInv, TypeOK
    <2> QED
      BY <1>1, <2>1, PinnedStep
  <1> QED
    BY <1>1, AdminSignStep, ForceWithdrawLeaderStep, ForceWithdrawDepositorStep,
       SweepResidualStep, CloseMarketTreasuryStep, CloseMarketStep DEF AdminNext

\* Every instruction.
LEMMA StepKeepsCustody ==
    ASSUME CustodyInv, IdentityInv, Next
    PROVE  CustodyKept
  <1>1. ASSUME NEW u \in Users, NEW s \in SectorIds,
               LeaderNext(u, s) \/ DepositorNext(u, s) \/ QuoteNext(u, s)
        PROVE  CustodyKept
    BY <1>1, LeaderNextStep, DepositStep, WithdrawStep, SettingsStep DEF DepositorNext, QuoteNext
  <1>2. CASE TakerNext
    BY <1>2, FillStep DEF TakerNext
  <1>3. CASE \E leg \in Legs, amount \in Residues \ {0} : Donate(leg, amount)
    BY <1>3, DonateStep
  <1>4. ASSUME NEW payer \in Users, NEW leader \in Users, NEW authority \in QuoteKeys,
               NEW name \in Names \cup {Unset}, NEW rate \in FeeRates, NEW allow \in Flags,
               NEW s \in SectorIds, CreateVault(payer, leader, authority, name, rate, allow, s)
        PROVE  CustodyKept
    BY <1>4, CreateVaultStep
  <1> QED
    BY <1>1, <1>2, <1>3, <1>4, AdminNextStep DEF Next

\* The body of CloseStrandsNobody.
NobodyStranded ==
    market_open /\ ~market_open'
      => depositors = {} /\ \A s \in SectorIds : vaults[s].total_shares = 0

\* Only CloseMarket takes the market account away.
LEMMA StepStrandsNobody ==
    ASSUME CustodyInv, Next
    PROVE  NobodyStranded
  <1>1. ASSUME NEW u, NEW s, LeaderNext(u, s)
        PROVE  market_open' = market_open
    BY <1>1 DEF LeaderNext, CloseVault, SeedVault, DepositLeader, LeaderDeposit, WithdrawLeader,
                SetLeader, SetPerfFeeRate, SetAllowOutsideDepositors, SetVaultName,
                SetQuoteAuthority, Retune
  <1>2. ASSUME NEW u, NEW s, DepositorNext(u, s) \/ QuoteNext(u, s)
        PROVE  market_open' = market_open
    BY <1>2 DEF DepositorNext, Deposit, Withdraw, QuoteNext, SetReferencePrice, Retune
  <1>3. ASSUME NEW s, NEW seq, PinnedNext(s, seq)
        PROVE  market_open' = market_open
    BY <1>3 DEF PinnedNext, FreezeVault, SetOutsideDepositsApproved, SetMinLeaderShare,
                OverrideVaultName, Retune
  <1>4. CASE AdminNext /\ ~CloseMarket
    BY <1>3, <1>4 DEF AdminNext, AdminSign, ForceWithdrawLeader, ForceWithdrawDepositor,
                      SweepResidual, CloseMarketTreasury, NobodyStranded
  <1>5. CASE CloseMarket
    BY <1>5, CloseMarketStep DEF NobodyStranded
  <1>6. CASE TakerNext
    BY <1>6 DEF TakerNext, Fill, NobodyStranded
  <1>7. ASSUME NEW leg, NEW amount, Donate(leg, amount)
        PROVE  market_open' = market_open
    BY <1>7 DEF Donate
  <1>8. ASSUME NEW payer, NEW leader, NEW authority, NEW name, NEW rate, NEW allow, NEW s,
               CreateVault(payer, leader, authority, name, rate, allow, s)
        PROVE  market_open' = market_open
    BY <1>8 DEF CreateVault
  <1> QED
    BY <1>1, <1>2, <1>4, <1>5, <1>6, <1>7, <1>8 DEF Next, NobodyStranded

\* Someone else's transaction.
LEMMA StutterKeepsCustody ==
    ASSUME CustodyInv, UNCHANGED marketVars
    PROVE  CustodyInv'
  <1>1. /\ UNCHANGED <<vaults, depositors, shares, outstanding_vault_depositors,
                       next_vault_seq, market_open, listVars>>
        /\ treasury' = treasury /\ accrued_fee' = accrued_fee /\ treasury_open' = treasury_open
        /\ signed' = signed
    BY DEF marketVars, listVars
  <1> QED
    BY <1>1, SlabStaysStep DEF CustodyKept, CustodyInv, TypeOK, Solvent, ClosedTreasuriesEmpty

-----------------------------------------------------------------------------
(* The theorems of the accounts *)

\* Every reachable market's accounts add up: shares, positions, inventories,
\* counters and treasuries.
THEOREM MarketCustodyInductive == Spec => [](MarketIInv /\ CustodyInv)
  <1>1. Init => CustodyInv
    BY InitCustody
  <1>2. MarketIInv /\ CustodyInv /\ [Next]_marketVars => CustodyInv'
    BY StepKeepsCustody, StutterKeepsCustody DEF CustodyKept, MarketIInv
  <1> QED
    BY <1>1, <1>2, MarketIdentityInductive, PTL DEF Spec

\* The accounts keep their types: no instruction drives a share count, an
\* inventory, a treasury or a counter below zero.
THEOREM MarketTypeOK == Spec => []TypeOK
  <1>1. CustodyInv => TypeOK
    BY DEF CustodyInv
  <1> QED
    BY <1>1, MarketCustodyInductive, PTL

\* On each leg the treasury covers every vault's inventory and the fees accrued,
\* whatever deposits, fills, payouts, sweeps and closures came before.
THEOREM MarketSolvent == Spec => []Solvent
  <1>1. CustodyInv => Solvent
    BY DEF CustodyInv
  <1> QED
    BY <1>1, MarketCustodyInductive, PTL

\* total_shares is the leader's shares and the depositors'; the last share takes
\* the inventory with it and the sector is given back empty.
THEOREM MarketSharesAccounted == Spec => []SharesAccounted
  <1>1. CustodyInv => SharesAccounted
    BY DEF CustodyInv, SectorsSound, SoundSector, SharesAccounted, IsOccupied
  <1> QED
    BY <1>1, MarketCustodyInductive, PTL

\* No VaultDepositor account outlives the vault it was bought in, and the
\* market's counter counts the accounts.
THEOREM MarketNoOrphanPosition == Spec => []NoOrphanPosition
  <1>1. CustodyInv => NoOrphanPosition
    <2> SUFFICES ASSUME CustodyInv PROVE NoOrphanPosition
      OBVIOUS
    <2>1. ASSUME NEW s \in SectorIds, NEW u \in Users, <<s, u>> \in depositors
          PROVE  IsOccupied(s)
      <3>1. shares[<<s, u>>] > 0
        BY <2>1 DEF CustodyInv, PositionsCounted
      <3>2. SharesOutside(s) > 0 /\ SharesOutside(s) \in Nat
        BY <3>1, OutsideSum DEF CustodyInv
      <3>3. vaults[s].total_shares # 0
        BY <3>2, SectorKnown DEF SoundSector, Vault
      <3> QED
        BY <3>3, SectorKnown DEF SoundSector, IsOccupied
    <2>2. \A p \in depositors : IsOccupied(p[1])
      BY <2>1 DEF CustodyInv, TypeOK
    <2> QED
      BY <2>2 DEF CustodyInv, PositionsCounted, NoOrphanPosition
  <1> QED
    BY <1>1, MarketCustodyInductive, PTL

\* No hand-over and no deposit leaves a leader with a position in its own vault.
THEOREM MarketLeaderIsNoDepositor == Spec => []LeaderIsNoDepositor
  <1>1. CustodyInv => LeaderIsNoDepositor
    BY DEF CustodyInv
  <1> QED
    BY <1>1, MarketCustodyInductive, PTL

\* Every step of the market is fair to every vault and strands nobody.
LEMMA FairSteps == Spec => [][FairStep /\ NobodyStranded]_marketVars
  <1>1. MarketIInv /\ CustodyInv /\ Next => FairStep /\ NobodyStranded
    <2> SUFFICES ASSUME MarketIInv, CustodyInv, Next PROVE FairStep /\ NobodyStranded
      OBVIOUS
    <2>1. CustodyKept
      BY StepKeepsCustody DEF MarketIInv
    <2>2. NobodyStranded
      BY StepStrandsNobody
    <2> QED
      BY <2>1, <2>2 DEF CustodyKept
  <1>2. MarketIInv /\ CustodyInv /\ [Next]_marketVars => [FairStep /\ NobodyStranded]_marketVars
    BY <1>1
  <1> QED
    BY <1>2, MarketCustodyInductive, PTL DEF Spec

\* The rounding of deposits and withdrawals favours the shares that stay, on
\* each leg, for amounts of any size.
THEOREM MarketNothingDiluted == Spec => NothingDiluted
  <1>1. [FairStep /\ NobodyStranded]_marketVars
          => [\A s \in SectorIds :
                SameVault(s) /\ vaults'[s].total_shares # vaults[s].total_shares
                  => \A leg \in Legs :
                        vaults'[s].atoms[leg] * Realized(vaults[s]).total_shares
                          >= vaults[s].atoms[leg] * vaults'[s].total_shares]_marketVars
    BY DEF FairStep, FairTo
  <1> QED
    BY <1>1, FairSteps, PTL DEF NothingDiluted

\* The high-water mark never moves down, nor at all once the vault is frozen or
\* closed, when its shares can only be burned.
THEOREM MarketMarkOnlyRises == Spec => MarkOnlyRises
  <1>1. [FairStep /\ NobodyStranded]_marketVars
          => [\A s \in SectorIds :
                SameVault(s) =>
                  /\ vaults'[s].hwm >= vaults[s].hwm
                  /\ vaults[s].frozen \/ vaults[s].tombstoned =>
                        /\ vaults'[s].hwm = vaults[s].hwm
                        /\ vaults'[s].total_shares <= vaults[s].total_shares]_marketVars
    BY DEF FairStep, FairTo
  <1> QED
    BY <1>1, FairSteps, PTL DEF MarkOnlyRises

\* The body of RateNotRetroactive.
NoRetroactiveFee ==
    \A s \in SectorIds :
        /\ SameVault(s)
        /\ vaults'[s].perf_fee_rate # vaults[s].perf_fee_rate
        /\ vaults'[s].hwm < U64Max
        => Realized(vaults'[s]).total_shares = vaults'[s].total_shares

\* set_perf_fee_rate leaves nothing to realize at the new rate, as long as the
\* mark has not saturated.
THEOREM MarketRateNotRetroactive == Spec => RateNotRetroactive
  <1>1. ASSUME FairStep PROVE NoRetroactiveFee
    <2> SUFFICES ASSUME NEW s \in SectorIds, SameVault(s),
                        vaults'[s].perf_fee_rate # vaults[s].perf_fee_rate,
                        vaults'[s].hwm < U64Max
                 PROVE  Realized(vaults'[s]).total_shares = vaults'[s].total_shares
      BY DEF NoRetroactiveFee
    <2> DEFINE w == vaults'[s]
    <2>1. FairTo(s, w) /\ w.perf_fee_rate # vaults[s].perf_fee_rate /\ w.hwm < U64Max
      BY <1>1 DEF FairStep
    <2> HIDE DEF w
    <2>2. Realized(w).total_shares = w.total_shares
      BY <2>1 DEF FairTo
    <2> QED
      BY <2>2 DEF w
  <1>2. [FairStep /\ NobodyStranded]_marketVars => [NoRetroactiveFee]_marketVars
    BY <1>1
  <1> QED
    BY <1>2, FairSteps, PTL DEF RateNotRetroactive, NoRetroactiveFee

\* An admin's freeze, approval, floor or name lock lands on the vault the admin
\* signed for, however late it is executed.
THEOREM MarketAdminActsOnTheVaultItRead == Spec => AdminActsOnTheVaultItRead
  <1>1. [FairStep /\ NobodyStranded]_marketVars
          => [\A s \in SectorIds :
                /\ SameVault(s)
                /\ \/ AdminField(vaults'[s]) # AdminField(vaults[s])
                   \/ vaults'[s].name_locked /\ ~vaults[s].name_locked
                => <<s, vaults[s].seq>> \in signed]_marketVars
    BY DEF FairStep, FairTo
  <1> QED
    BY <1>1, FairSteps, PTL DEF AdminActsOnTheVaultItRead

\* close_market closes a market in which nobody holds a share.
THEOREM MarketCloseStrandsNobody == Spec => CloseStrandsNobody
  <1>1. [FairStep /\ NobodyStranded]_marketVars
          => [market_open /\ ~market_open'
                => depositors = {} /\ \A s \in SectorIds : vaults[s].total_shares = 0]_marketVars
    BY DEF NobodyStranded
  <1> QED
    BY <1>1, FairSteps, PTL DEF CloseStrandsNobody
=============================================================================
