----------------------------- MODULE VaultLists -----------------------------
(***************************************************************************)
(* What the market promises of its vault sectors, with no pointers in it.  *)
(* Every sector of the slab is on exactly one list: Active (quoting),      *)
(* Tombstone (closed, still holding shares) or Free (reclaimed); a sector  *)
(* the slab has not grown to yet is Unallocated.  VaultDll implements it.  *)
(***************************************************************************)
EXTENDS Naturals

CONSTANT MaxSectors    \* bound on the slab's growth (the code's is u32::MAX)

VARIABLES
    listOf,            \* the list each sector is on
    active_count       \* MarketHeader::active_count

listVars == <<listOf, active_count>>

SectorIds == 0 .. MaxSectors - 1

OnListSet(l) == {s \in SectorIds : listOf[s] = l}

ListsInit ==
    /\ listOf = [s \in SectorIds |-> "Unallocated"]
    /\ active_count = 0

\* A new vault takes a reclaimed sector if there is one, else the next one of
\* the slab.
Open(s) ==
    /\ IF OnListSet("Free") # {}
       THEN listOf[s] = "Free"
       ELSE listOf[s] = "Unallocated" /\ \A r \in 0 .. s - 1 : listOf[r] # "Unallocated"
    /\ listOf' = [listOf EXCEPT ![s] = "Active"]
    /\ active_count' = active_count + 1

\* A closed vault that still has shares leaves Active for Tombstone.
Retire(s) ==
    /\ listOf[s] = "Active"
    /\ listOf' = [listOf EXCEPT ![s] = "Tombstone"]
    /\ active_count' = active_count - 1

\* A vault with no shares left gives its sector back, wherever it was.
Release(s) ==
    /\ listOf[s] \in {"Active", "Tombstone"}
    /\ listOf' = [listOf EXCEPT ![s] = "Free"]
    /\ active_count' = IF listOf[s] = "Active" THEN active_count - 1 ELSE active_count

ListsNext == \E s \in SectorIds : Open(s) \/ Retire(s) \/ Release(s)

ListsSpec == ListsInit /\ [][ListsNext]_listVars
=============================================================================
