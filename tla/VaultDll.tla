------------------------------ MODULE VaultDll ------------------------------
(***************************************************************************)
(* The intrusive lists threaded through a market's vault slab              *)
(* (src/programs/dropset/src/state/market/dll.rs): an Active and a         *)
(* Tombstone doubly linked list and a Free list, all in the same           *)
(* (next, prev) pair of the sectors, with their heads in the header.       *)
(*                                                                         *)
(* The free list is popped without patching the new head's prev, so prev   *)
(* means nothing on Free.  An instruction that returns an error leaves the *)
(* account as it was, so an error is a disabled action here; that the      *)
(* CorruptVaultList errors never arise is a property (NeverCorrupt).       *)
(***************************************************************************)
EXTENDS Naturals, FiniteSets

CONSTANTS
    MaxSectors,        \* bound on the slab's growth (the code's is u32::MAX)
    Null               \* NULL_SECTOR

Sectors == 0 .. MaxSectors - 1
Lists == {"Active", "Tombstone", "Free"}

ASSUME DllAssumption == MaxSectors \in Nat \ {0} /\ Null \notin Sectors

VARIABLES
    len,               \* sectors the slab has grown to
    links,             \* [head, next, prev]: the header's heads, the sectors' pointers
    active_count,      \* MarketHeader::active_count
    occupied,          \* sectors whose leader is not the default address
    tombstoned         \* sectors whose tombstoned flag is set

vars == <<len, links, active_count, occupied, tombstoned>>

Allocated == 0 .. len - 1

-----------------------------------------------------------------------------
(* The pointer operations.  Each is a guard (the `require!`s) and a result. *)

CanLink(l, list, s) ==
    /\ l.next[s] = Null /\ l.prev[s] = Null
    /\ l.head[list] # Null => l.head[list] \in Allocated

LinkHead(l, list, s) ==
    LET old == l.head[list] IN
    [head |-> [l.head EXCEPT ![list] = s],
     next |-> [l.next EXCEPT ![s] = old],
     prev |-> [x \in Sectors |-> IF x = s THEN Null ELSE IF x = old THEN s ELSE l.prev[x]]]

\* A linked sector's neighbours lie in the slab, and only the head has no prev.
CanUnlink(l, list, s) ==
    /\ IF l.prev[s] = Null THEN l.head[list] = s ELSE l.prev[s] \in Allocated
    /\ l.next[s] # Null => l.next[s] \in Allocated

\* Mutant: the head follows next whatever s's place.
UnlinkHeadOnly(l, list, s) ==
    LET n == l.next[s]
        p == l.prev[s]
    IN [head |-> [l.head EXCEPT ![list] = n],
        next |-> [x \in Sectors |-> IF x = s THEN Null ELSE IF x = p THEN n ELSE l.next[x]],
        prev |-> [x \in Sectors |-> IF x = s THEN Null ELSE IF x = n THEN p ELSE l.prev[x]]]

Unlink(l, list, s) ==
    LET n == l.next[s]
        p == l.prev[s]
    IN [head |-> IF p = Null THEN [l.head EXCEPT ![list] = n] ELSE l.head,
        next |-> [x \in Sectors |-> IF x = s THEN Null ELSE IF x = p THEN n ELSE l.next[x]],
        prev |-> [x \in Sectors |-> IF x = s THEN Null ELSE IF x = n THEN p ELSE l.prev[x]]]

\* The sectors a walk from a list's head visits: the smallest set that holds
\* the head and the successor of each of its members.
ClosedUnderNext(l, list, S) ==
    /\ l.head[list] # Null => l.head[list] \in S
    /\ \A s \in S : l.next[s] # Null => l.next[s] \in S

Walk(l, list) ==
    {s \in Sectors : \A S \in SUBSET Sectors : ClosedUnderNext(l, list, S) => s \in S}

\* vault_list_of looks on Active, then on Tombstone.
VaultListOf(l, s) ==
    IF s \in Walk(l, "Active") THEN "Active"
    ELSE IF s \in Walk(l, "Tombstone") THEN "Tombstone"
    ELSE "None"

SaturatingDec(n) == IF n = 0 THEN 0 ELSE n - 1

-----------------------------------------------------------------------------
Init ==
    /\ len = 0
    /\ links = [head |-> [list \in Lists |-> Null],
                next |-> [s \in Sectors |-> Null],
                prev |-> [s \in Sectors |-> Null]]
    /\ active_count = 0
    /\ occupied = {}
    /\ tombstoned = {}

\* allocate_sector's first branch: pop the free list, zero the sector.
PopFree(l) ==
    LET s == l.head["Free"] IN
    [head |-> [l.head EXCEPT !["Free"] = l.next[s]],
     next |-> [l.next EXCEPT ![s] = Null],
     prev |-> [l.prev EXCEPT ![s] = Null]]

\* create_vault: take a sector, stamp its leader, thread it on Active.
Activate(s, l) ==
    /\ CanLink(l, "Active", s)
    /\ links' = LinkHead(l, "Active", s)
    /\ active_count' = active_count + 1
    /\ occupied' = occupied \cup {s}
    /\ tombstoned' = tombstoned \ {s}

OpenReused ==
    /\ links.head["Free"] # Null
    /\ Activate(links.head["Free"], PopFree(links))
    /\ UNCHANGED len

\* Mutant: the slab grows past a free sector.
OpenGrownAlways ==
    /\ len < MaxSectors
    /\ Activate(len, [links EXCEPT !.next[len] = Null, !.prev[len] = Null])
    /\ len' = len + 1

\* Mutant: the new length is not written back.
OpenGrownLost ==
    /\ links.head["Free"] = Null
    /\ len < MaxSectors
    /\ Activate(len, [links EXCEPT !.next[len] = Null, !.prev[len] = Null])
    /\ UNCHANGED len

OpenGrown ==
    /\ links.head["Free"] = Null
    /\ len < MaxSectors
    /\ Activate(len, [links EXCEPT !.next[len] = Null, !.prev[len] = Null])
    /\ len' = len + 1

\* close_vault of a vault with shares: tombstone_sector, once the walk found
\* the sector on Active.
Tombstone(s) ==
    /\ s \in occupied
    /\ VaultListOf(links, s) = "Active"
    /\ CanUnlink(links, "Active", s)
    /\ CanLink(Unlink(links, "Active", s), "Tombstone", s)
    /\ links' = LinkHead(Unlink(links, "Active", s), "Tombstone", s)
    /\ active_count' = SaturatingDec(active_count)
    /\ tombstoned' = tombstoned \cup {s}
    /\ UNCHANGED <<len, occupied>>

\* reclaim_sector: the last share of an occupied vault was burned, or the vault
\* was closed before any was minted.  The flag stays set until the reuse.
Reclaim(s) ==
    LET list == VaultListOf(links, s) IN
    /\ s \in occupied
    /\ list # "None"
    /\ CanUnlink(links, list, s)
    /\ CanLink(Unlink(links, list, s), "Free", s)
    /\ links' = LinkHead(Unlink(links, list, s), "Free", s)
    /\ active_count' = IF list = "Active" THEN SaturatingDec(active_count) ELSE active_count
    /\ occupied' = occupied \ {s}
    /\ UNCHANGED <<len, tombstoned>>

Next ==
    \/ OpenReused
    \/ OpenGrown
    \/ \E s \in Allocated : Tombstone(s) \/ Reclaim(s)

Spec == Init /\ [][Next]_vars

-----------------------------------------------------------------------------
(* Properties *)

Pointers == Sectors \cup {Null}

Links == [head : [Lists -> Pointers], next : [Sectors -> Pointers], prev : [Sectors -> Pointers]]

\* The types of the header's and the sectors' fields.
TypeOK ==
    /\ len \in 0 .. MaxSectors
    /\ links \in Links
    /\ active_count \in Nat
    /\ occupied \subseteq Allocated
    /\ tombstoned \subseteq Allocated

\* The list the flags of a sector say it is on: what the handlers that read
\* leader and tombstoned instead of walking rely on.
FlaggedList(s) ==
    IF s \notin Allocated THEN "Unallocated"
    ELSE IF s \notin occupied THEN "Free"
    ELSE IF s \in tombstoned THEN "Tombstone"
    ELSE "Active"

FlaggedSet(list) == {s \in Sectors : FlaggedList(s) = list}

\* Walking a list from its head visits exactly the sectors whose flags put
\* them on it: no sector is leaked, none is on two lists, and deposit and swap,
\* which trust the flags, agree with close_vault, which walks.
WalksAgreeWithFlags == \A list \in Lists : Walk(links, list) = FlaggedSet(list)

\* active_count, which create_vault holds against max_vaults and close_market
\* against zero, is the number of vaults the swap's walk visits.
ActiveCountExact == active_count = Cardinality(Walk(links, "Active"))

\* close_vault and reclaim_sector on an occupied vault, and create_vault's
\* link, never meet a CorruptVaultList error: no vault is stuck on its list.
NeverCorrupt ==
    /\ \A s \in occupied :
          LET list == VaultListOf(links, s) IN
          /\ list # "None"
          /\ CanUnlink(links, list, s)
          /\ \A to \in Lists \ {"Active"} : CanLink(Unlink(links, list, s), to, s)
    /\ links.head["Free"] # Null => CanLink(PopFree(links), "Active", links.head["Free"])

\* The list a walk finds each sector on.
WalkedList ==
    [s \in Sectors |->
        IF VaultListOf(links, s) # "None" THEN VaultListOf(links, s)
        ELSE IF s \in Walk(links, "Free") THEN "Free" ELSE "Unallocated"]

\* The pointer lists implement the abstract ones, sector by sector: each
\* operation of dll.rs moves one sector and no other, and a vault is created on
\* a reclaimed sector whenever there is one.
Abstract == INSTANCE VaultLists WITH listOf <- WalkedList

ImplementsLists == Abstract!ListsSpec
=============================================================================
