--------------------------- MODULE VaultDllProofs ---------------------------
(***************************************************************************)
(* Proofs about VaultDll, for any number of sectors.                       *)
(*                                                                         *)
(* A list is described by the set F of its sectors: Chain says a walk from *)
(* the head visits F and that next is injective on it, BackLinked that     *)
(* prev inverts next.  The lemmas say how each pointer operation changes   *)
(* the list it works on and that it leaves every other list alone; the     *)
(* invariant puts FlaggedSet(list) for F.                                  *)
(***************************************************************************)
EXTENDS VaultDll, FiniteSetTheorems, TLAPS

\* F is what a walk of the list visits: closed, and in every closed set; no
\* sector has two predecessors and the head has none.
Chain(l, list, F) ==
    /\ F \subseteq Sectors
    /\ ClosedUnderNext(l, list, F)
    /\ \A S \in SUBSET Sectors : ClosedUnderNext(l, list, S) => F \subseteq S
    /\ \A s, t \in F : l.next[s] # Null /\ l.next[s] = l.next[t] => s = t
    /\ \A s \in F : l.next[s] # Null => l.next[s] # l.head[list]

BackLinked(l, list, F) ==
    \A s \in F :
        /\ l.prev[s] = Null <=> l.head[list] = s
        /\ l.prev[s] # Null => l.prev[s] \in F /\ l.next[l.prev[s]] = s
        /\ l.next[s] # Null => l.prev[l.next[s]] = s

LEMMA NullNotSector == Null \notin Sectors
BY DllAssumption

\* The walk of a chain is the chain.
LEMMA ChainWalk ==
    ASSUME NEW l, NEW list, NEW F, Chain(l, list, F)
    PROVE  Walk(l, list) = F
BY DEF Chain, Walk

\* Linking at the head adds the sector to the list.
LEMMA LinkHeadChain ==
    ASSUME NEW l \in Links, NEW list \in Lists, NEW F, NEW s \in Sectors \ F,
           Chain(l, list, F)
    PROVE  Chain(LinkHead(l, list, s), list, F \cup {s})
<1> DEFINE n == LinkHead(l, list, s)
           G == F \cup {s}
<1>1. n.head = [l.head EXCEPT ![list] = s] /\ n.next = [l.next EXCEPT ![s] = l.head[list]]
  BY DEF LinkHead
<1>2. n.head[list] = s /\ n.next[s] = l.head[list] /\ \A x \in F : n.next[x] = l.next[x]
  BY <1>1 DEF Links, Chain
<1>3. ClosedUnderNext(n, list, G)
  BY <1>2 DEF ClosedUnderNext, Chain
<1>4. ASSUME NEW S \in SUBSET Sectors, ClosedUnderNext(n, list, S)
      PROVE  G \subseteq S
  <2>1. s \in S
    BY <1>4, <1>2, NullNotSector DEF ClosedUnderNext
  <2>2. l.head[list] # Null => l.head[list] \in S
    BY <2>1, <1>4, <1>2 DEF ClosedUnderNext
  <2>3. ClosedUnderNext(l, list, S \cap F)
    BY <2>2, <1>4, <1>2 DEF ClosedUnderNext, Chain
  <2> QED
    BY <2>1, <2>3 DEF Chain
<1>5. \A x, y \in G : n.next[x] # Null /\ n.next[x] = n.next[y] => x = y
  BY <1>2 DEF Chain
<1>6. \A x \in G : n.next[x] # Null => n.next[x] # n.head[list]
  BY <1>2 DEF Chain, ClosedUnderNext
<1> QED
  BY <1>3, <1>4, <1>5, <1>6 DEF Chain

\* ... and keeps its back links.
LEMMA LinkHeadBackLinked ==
    ASSUME NEW l \in Links, NEW list \in Lists, NEW F, NEW s \in Sectors \ F,
           Chain(l, list, F), BackLinked(l, list, F)
    PROVE  BackLinked(LinkHead(l, list, s), list, F \cup {s})
<1> DEFINE n == LinkHead(l, list, s)
           old == l.head[list]
<1>1. /\ n.head[list] = s /\ n.next[s] = old /\ n.prev[s] = Null
      /\ \A x \in F : n.next[x] = l.next[x]
      /\ old \in F => n.prev[old] = s
      /\ \A x \in F : x # old => n.prev[x] = l.prev[x]
  BY DEF LinkHead, Links, Chain
<1>2. old = Null \/ old \in F
  BY DEF Chain, ClosedUnderNext
<1>3. \A x \in F : l.next[x] # Null => l.next[x] \in F /\ l.next[x] # old
  BY DEF Chain, ClosedUnderNext
<1>4. s # Null /\ F \subseteq Sectors
  BY NullNotSector DEF Chain
<1>5. \A x \in F : x # old => l.prev[x] # Null
  BY <1>2 DEF BackLinked
<1> QED
  BY <1>1, <1>2, <1>3, <1>4, <1>5, NullNotSector DEF BackLinked

\* A sector outside a list, linked or unlinked elsewhere, leaves the list be.
LEMMA ChainFrame ==
    ASSUME NEW l, NEW m, NEW list, NEW F, Chain(l, list, F),
           m.head[list] = l.head[list], \A x \in F : m.next[x] = l.next[x]
    PROVE  Chain(m, list, F)
<1>1. ClosedUnderNext(m, list, F)
  BY DEF Chain, ClosedUnderNext
<1>2. ASSUME NEW S \in SUBSET Sectors, ClosedUnderNext(m, list, S)
      PROVE  F \subseteq S
  <2>1. ClosedUnderNext(l, list, S \cap F)
    BY <1>2 DEF Chain, ClosedUnderNext
  <2> QED
    BY <2>1 DEF Chain
<1> QED
  BY <1>1, <1>2 DEF Chain

LEMMA BackLinkedFrame ==
    ASSUME NEW l, NEW m, NEW list, NEW F, Chain(l, list, F), BackLinked(l, list, F),
           m.head[list] = l.head[list],
           \A x \in F : m.next[x] = l.next[x] /\ m.prev[x] = l.prev[x]
    PROVE  BackLinked(m, list, F)
BY DEF Chain, ClosedUnderNext, BackLinked

\* No sector of a chain is its own successor: the walk could not reach it.
LEMMA ChainNoLoop ==
    ASSUME NEW l, NEW list, NEW F, Chain(l, list, F), BackLinked(l, list, F), NEW s \in F
    PROVE  l.next[s] # s /\ l.prev[s] # s
<1>1. ASSUME l.next[s] = s
      PROVE  FALSE
  <2>1. s # Null
    BY NullNotSector DEF Chain
  <2>2. ClosedUnderNext(l, list, F \ {s})
    BY <1>1, <2>1 DEF Chain, ClosedUnderNext
  <2> QED
    BY <2>2 DEF Chain
<1>2. l.prev[s] = s => l.next[s] = s
  BY NullNotSector DEF Chain, BackLinked
<1> QED
  BY <1>1, <1>2

\* Unlinking takes the sector, and it alone, out of a back-linked list.
LEMMA UnlinkChain ==
    ASSUME NEW l \in Links, NEW list \in Lists, NEW F, NEW s \in F,
           Chain(l, list, F), BackLinked(l, list, F)
    PROVE  Chain(Unlink(l, list, s), list, F \ {s})
<1> DEFINE m == Unlink(l, list, s)
           n == l.next[s]
           p == l.prev[s]
           G == F \ {s}
<1>1. /\ m.head[list] = IF p = Null THEN n ELSE l.head[list]
      /\ \A x \in G : m.next[x] = IF x = p THEN n ELSE l.next[x]
  BY DEF Unlink, Links, Chain
<1>2. /\ p = Null => l.head[list] = s
      /\ p # Null => p \in F /\ l.next[p] = s /\ l.head[list] # s
      /\ n = Null \/ n \in F
      /\ s \in Sectors /\ s # Null /\ F \subseteq Sectors
  BY NullNotSector DEF BackLinked, Chain, ClosedUnderNext
<1>3. n # s /\ p # s
  BY ChainNoLoop
<1>4. \A x \in F : l.next[x] = s => x = p
  BY <1>2 DEF BackLinked
<1>5. l.head[list] = Null \/ l.head[list] \in F
  BY DEF Chain, ClosedUnderNext
<1>6. ClosedUnderNext(m, list, G)
  BY <1>1, <1>2, <1>3, <1>4, <1>5 DEF ClosedUnderNext, Chain
<1>7. ASSUME NEW S \in SUBSET Sectors, ClosedUnderNext(m, list, S)
      PROVE  G \subseteq S
  <2> DEFINE T == (S \cap G)
  <2>1. CASE p # Null /\ p \notin S
    <3>1. ClosedUnderNext(l, list, T)
      BY <2>1, <1>7, <1>1, <1>2, <1>4, <1>5, <1>6 DEF ClosedUnderNext, Chain
    <3> QED
      BY <3>1, <1>2 DEF Chain
  <2>2. CASE p = Null \/ p \in S
    <3>1. n # Null => n \in T
      BY <2>2, <1>7, <1>1, <1>2, <1>3, <1>6 DEF ClosedUnderNext
    <3>2. ClosedUnderNext(l, list, T \cup {s})
      <4>1. l.head[list] # Null => l.head[list] \in T \cup {s}
        BY <1>7, <1>1, <1>2, <1>5 DEF ClosedUnderNext
      <4>2. \A x \in T : l.next[x] # Null => l.next[x] \in T \cup {s}
        BY <1>7, <1>1, <1>2, <1>6, NullNotSector DEF ClosedUnderNext
      <4> QED
        BY <3>1, <4>1, <4>2 DEF ClosedUnderNext
    <3>3. T \cup {s} \in SUBSET Sectors
      BY <1>2
    <3> QED
      BY <3>2, <3>3 DEF Chain
  <2> QED
    BY <2>1, <2>2
<1>8. \A x, y \in G : m.next[x] # Null /\ m.next[x] = m.next[y] => x = y
  BY <1>1, <1>2, <1>3 DEF Chain
<1>9. \A x \in G : m.next[x] # Null => m.next[x] # m.head[list]
  <2>1. CASE p = Null
    BY <2>1, <1>1, <1>2, NullNotSector DEF Chain
  <2>2. CASE p # Null
    BY <2>2, <1>1, <1>2 DEF Chain
  <2> QED
    BY <2>1, <2>2
<1> QED
  BY <1>2, <1>6, <1>7, <1>8, <1>9 DEF Chain

LEMMA UnlinkBackLinked ==
    ASSUME NEW l \in Links, NEW list \in Lists, NEW F, NEW s \in F,
           Chain(l, list, F), BackLinked(l, list, F)
    PROVE  BackLinked(Unlink(l, list, s), list, F \ {s})
<1> DEFINE m == Unlink(l, list, s)
           n == l.next[s]
           p == l.prev[s]
           G == F \ {s}
<1>1. /\ m.head[list] = IF p = Null THEN n ELSE l.head[list]
      /\ \A x \in G : m.next[x] = IF x = p THEN n ELSE l.next[x]
      /\ \A x \in G : m.prev[x] = IF x = n THEN p ELSE l.prev[x]
  BY DEF Unlink, Links, Chain
<1>2. /\ p = Null <=> l.head[list] = s
      /\ p # Null => p \in F /\ l.next[p] = s
      /\ n # Null => n \in F /\ l.prev[n] = s
      /\ s # Null
  BY NullNotSector DEF BackLinked, Chain, ClosedUnderNext
<1>3. n # s /\ p # s
  BY ChainNoLoop
<1>4. \A x \in G : l.next[x] # Null => l.next[x] \in F /\ (l.next[x] = s => x = p)
  BY <1>2 DEF Chain, ClosedUnderNext, BackLinked
<1>5. \A x \in G : l.prev[x] = s => x = n
  BY <1>2 DEF BackLinked
<1>6. \A x \in G : m.prev[x] = Null <=> m.head[list] = x
  BY <1>1, <1>2, <1>3, NullNotSector DEF BackLinked, Chain
<1>7. \A x \in G : m.prev[x] # Null => m.prev[x] \in G /\ m.next[m.prev[x]] = x
  BY <1>1, <1>2, <1>3, <1>5 DEF BackLinked, Chain
<1>8. \A x \in G : m.next[x] # Null => m.prev[m.next[x]] = x
  BY <1>1, <1>2, <1>3, <1>4 DEF BackLinked, Chain
<1> QED
  BY <1>6, <1>7, <1>8 DEF BackLinked

\* Popping the free list takes its head, and it alone, out of it.
LEMMA PopFreeChain ==
    ASSUME NEW l \in Links, NEW F, Chain(l, "Free", F), l.head["Free"] # Null
    PROVE  Chain(PopFree(l), "Free", F \ {l.head["Free"]})
<1> DEFINE s == l.head["Free"]
           m == PopFree(l)
           G == F \ {s}
<1>1. /\ s \in F /\ F \subseteq Sectors
      /\ m.head["Free"] = l.next[s]
      /\ \A x \in G : m.next[x] = l.next[x]
  BY DEF PopFree, Links, Lists, Chain, ClosedUnderNext
<1>2. \A x \in F : l.next[x] # s
  BY <1>1, NullNotSector DEF Chain
<1>3. ClosedUnderNext(m, "Free", G)
  BY <1>1, <1>2 DEF Chain, ClosedUnderNext
<1>4. ASSUME NEW S \in SUBSET Sectors, ClosedUnderNext(m, "Free", S)
      PROVE  G \subseteq S
  <2>1. ClosedUnderNext(l, "Free", (S \cap G) \cup {s})
    BY <1>1, <1>3, <1>4 DEF ClosedUnderNext
  <2>2. (S \cap G) \cup {s} \in SUBSET Sectors
    BY <1>1
  <2> QED
    BY <2>1, <2>2 DEF Chain
<1>5. /\ \A x, y \in G : m.next[x] # Null /\ m.next[x] = m.next[y] => x = y
      /\ \A x \in G : m.next[x] # Null => m.next[x] # m.head["Free"]
  BY <1>1 DEF Chain
<1> QED
  BY <1>1, <1>3, <1>4, <1>5 DEF Chain

\* The operations on one list leave the lists that share no sector with it.
LEMMA LinkHeadOther ==
    ASSUME NEW l \in Links, NEW list \in Lists, NEW F, Chain(l, list, F),
           NEW s \in Sectors, NEW other \in Lists, other # list,
           NEW G, Chain(l, other, G), G \cap (F \cup {s}) = {}
    PROVE  /\ Chain(LinkHead(l, list, s), other, G)
           /\ BackLinked(l, other, G) => BackLinked(LinkHead(l, list, s), other, G)
<1> DEFINE m == LinkHead(l, list, s)
<1>1. l.head[list] \notin G
  BY NullNotSector DEF Chain, ClosedUnderNext
<1>2. /\ m.head[other] = l.head[other]
      /\ \A x \in G : m.next[x] = l.next[x] /\ m.prev[x] = l.prev[x]
  BY <1>1 DEF LinkHead, Links, Chain
<1>3. Chain(m, other, G)
  BY <1>2, ChainFrame
<1>4. BackLinked(l, other, G) => BackLinked(m, other, G)
  BY <1>2, BackLinkedFrame
<1> QED
  BY <1>3, <1>4

LEMMA UnlinkOther ==
    ASSUME NEW l \in Links, NEW list \in Lists, NEW F,
           Chain(l, list, F), BackLinked(l, list, F),
           NEW s \in F, NEW other \in Lists, other # list,
           NEW G, Chain(l, other, G), G \cap F = {}
    PROVE  /\ Chain(Unlink(l, list, s), other, G)
           /\ BackLinked(l, other, G) => BackLinked(Unlink(l, list, s), other, G)
<1> DEFINE m == Unlink(l, list, s)
<1>1. l.next[s] \notin G /\ l.prev[s] \notin G
  BY NullNotSector DEF Chain, ClosedUnderNext, BackLinked
<1>2. /\ m.head[other] = l.head[other]
      /\ \A x \in G : m.next[x] = l.next[x] /\ m.prev[x] = l.prev[x]
  BY <1>1 DEF Unlink, Links, Chain
<1>3. Chain(m, other, G)
  BY <1>2, ChainFrame
<1>4. BackLinked(l, other, G) => BackLinked(m, other, G)
  BY <1>2, BackLinkedFrame
<1> QED
  BY <1>3, <1>4

LEMMA PopFreeOther ==
    ASSUME NEW l \in Links, NEW F, Chain(l, "Free", F), l.head["Free"] # Null,
           NEW other \in Lists, other # "Free",
           NEW G, Chain(l, other, G), G \cap F = {}
    PROVE  /\ Chain(PopFree(l), other, G)
           /\ BackLinked(l, other, G) => BackLinked(PopFree(l), other, G)
<1> DEFINE m == PopFree(l)
<1>1. l.head["Free"] \notin G
  BY DEF Chain, ClosedUnderNext
<1>2. /\ m.head[other] = l.head[other]
      /\ \A x \in G : m.next[x] = l.next[x] /\ m.prev[x] = l.prev[x]
  BY <1>1 DEF PopFree, Links, Chain
<1>3. Chain(m, other, G)
  BY <1>2, ChainFrame
<1>4. BackLinked(l, other, G) => BackLinked(m, other, G)
  BY <1>2, BackLinkedFrame
<1> QED
  BY <1>3, <1>4

LEMMA LinksClosed ==
    ASSUME NEW l \in Links, NEW list \in Lists, NEW s \in Sectors
    PROVE  /\ LinkHead(l, list, s) \in Links
           /\ Unlink(l, list, s) \in Links
           /\ l.head["Free"] # Null => PopFree(l) \in Links
<1>1. LinkHead(l, list, s) \in Links
  BY DEF LinkHead, Links, Pointers
<1>2. Unlink(l, list, s) \in Links
  BY DEF Unlink, Links, Pointers
<1>3. l.head["Free"] # Null => PopFree(l) \in Links
  BY DEF PopFree, Links, Pointers, Lists
<1> QED
  BY <1>1, <1>2, <1>3

-----------------------------------------------------------------------------
(* The inductive invariant. *)

Inv ==
    /\ TypeOK
    /\ \A list \in Lists : Chain(links, list, FlaggedSet(list))
    /\ \A list \in {"Active", "Tombstone"} : BackLinked(links, list, FlaggedSet(list))

LEMMA InitInv == Init => Inv
<1> SUFFICES ASSUME Init PROVE Inv
  OBVIOUS
<1>1. TypeOK
  BY DllAssumption DEF Init, TypeOK, Links, Pointers, Allocated
<1>2. \A list \in Lists : FlaggedSet(list) = {}
  BY DEF Init, FlaggedSet, FlaggedList, Allocated, Sectors, Lists
<1>3. \A list \in Lists : Chain(links, list, {})
  BY DEF Init, Chain, ClosedUnderNext
<1> QED
  BY <1>1, <1>2, <1>3 DEF Inv, BackLinked, Lists

LEMMA FlaggedDisjoint ==
    ASSUME NEW a, NEW b, a # b
    PROVE  FlaggedSet(a) \cap FlaggedSet(b) = {}
BY DEF FlaggedSet

\* create_vault onto a reused sector.
LEMMA OpenReusedInv == Inv /\ OpenReused => Inv'
<1> SUFFICES ASSUME Inv, OpenReused PROVE Inv'
  OBVIOUS
<1> DEFINE s == links.head["Free"]
           m == PopFree(links)
           A == FlaggedSet("Active")
           T == FlaggedSet("Tombstone")
           F == FlaggedSet("Free")
<1>1. /\ links \in Links /\ s # Null
      /\ Chain(links, "Active", A) /\ Chain(links, "Tombstone", T) /\ Chain(links, "Free", F)
      /\ BackLinked(links, "Active", A) /\ BackLinked(links, "Tombstone", T)
      /\ "Active" \in Lists /\ "Tombstone" \in Lists /\ "Free" \in Lists
  BY DEF Inv, TypeOK, OpenReused, Lists
<1>2. s \in F /\ s \in Sectors /\ s \in Allocated
  BY <1>1 DEF Chain, ClosedUnderNext, FlaggedSet, FlaggedList
<1>3. A \cap F = {} /\ T \cap F = {} /\ A \cap T = {}
  BY FlaggedDisjoint
<1>4. links' = LinkHead(m, "Active", s) /\ m \in Links
  BY <1>1, <1>2, LinksClosed DEF OpenReused, Activate
<1>5. /\ Chain(m, "Active", A) /\ BackLinked(m, "Active", A)
      /\ Chain(m, "Tombstone", T) /\ BackLinked(m, "Tombstone", T)
      /\ Chain(m, "Free", F \ {s})
  BY <1>1, <1>3, PopFreeOther, PopFreeChain
<1>6. /\ FlaggedSet("Active")' = A \cup {s}
      /\ FlaggedSet("Tombstone")' = T
      /\ FlaggedSet("Free")' = F \ {s}
  BY <1>2 DEF OpenReused, Activate, FlaggedSet, FlaggedList, Allocated
<1>7. /\ Chain(links', "Active", A \cup {s}) /\ BackLinked(links', "Active", A \cup {s})
      /\ Chain(links', "Tombstone", T) /\ BackLinked(links', "Tombstone", T)
      /\ Chain(links', "Free", F \ {s})
  BY <1>1, <1>2, <1>3, <1>4, <1>5, LinkHeadChain, LinkHeadBackLinked, LinkHeadOther
<1>8. links' \in Links
  BY <1>1, <1>2, <1>4, LinksClosed
<1>9. TypeOK'
  <2>1. /\ len' = len /\ active_count' = active_count + 1
        /\ occupied' = occupied \cup {s} /\ tombstoned' = tombstoned \ {s}
    BY DEF OpenReused, Activate
  <2> HIDE DEF s, m
  <2> QED
    BY <1>2, <1>8, <2>1 DEF Inv, TypeOK, Allocated
<1> QED
  BY <1>6, <1>7, <1>9 DEF Inv, Lists

\* create_vault onto a sector grown at the tail.
LEMMA OpenGrownInv == Inv /\ OpenGrown => Inv'
<1> SUFFICES ASSUME Inv, OpenGrown PROVE Inv'
  OBVIOUS
<1> DEFINE s == len
           m == [links EXCEPT !.next[s] = Null, !.prev[s] = Null]
           A == FlaggedSet("Active")
           T == FlaggedSet("Tombstone")
           F == FlaggedSet("Free")
<1>1. /\ links \in Links
      /\ Chain(links, "Active", A) /\ Chain(links, "Tombstone", T) /\ Chain(links, "Free", F)
      /\ BackLinked(links, "Active", A) /\ BackLinked(links, "Tombstone", T)
      /\ "Active" \in Lists /\ "Tombstone" \in Lists /\ "Free" \in Lists
  BY DEF Inv, TypeOK, Lists
<1>2. s \in Sectors /\ s \notin A /\ s \notin T /\ s \notin F
  BY DllAssumption DEF Inv, TypeOK, OpenGrown, Sectors, Allocated, FlaggedSet, FlaggedList
<1>3. A \cap F = {} /\ T \cap F = {} /\ A \cap T = {}
  BY FlaggedDisjoint
<1>4. links' = LinkHead(m, "Active", s) /\ m \in Links
  BY <1>1, <1>2 DEF OpenGrown, Activate, Links, Pointers
<1>5. /\ m.head = links.head
      /\ \A x \in Sectors : x # s => m.next[x] = links.next[x] /\ m.prev[x] = links.prev[x]
  BY <1>1 DEF Links
<1>6. A \subseteq Sectors /\ T \subseteq Sectors /\ F \subseteq Sectors
  BY DEF FlaggedSet
<1>7. /\ Chain(m, "Active", A) /\ BackLinked(m, "Active", A)
      /\ Chain(m, "Tombstone", T) /\ BackLinked(m, "Tombstone", T)
      /\ Chain(m, "Free", F)
  <2> HIDE DEF m, A, T, F
  <2> QED
    BY <1>1, <1>2, <1>5, <1>6, ChainFrame, BackLinkedFrame
<1>8. /\ FlaggedSet("Active")' = A \cup {s}
      /\ FlaggedSet("Tombstone")' = T
      /\ FlaggedSet("Free")' = F
  BY <1>2 DEF OpenGrown, Activate, FlaggedSet, FlaggedList, Allocated, Inv, TypeOK, Sectors
<1>9. /\ Chain(links', "Active", A \cup {s}) /\ BackLinked(links', "Active", A \cup {s})
      /\ Chain(links', "Tombstone", T) /\ BackLinked(links', "Tombstone", T)
      /\ Chain(links', "Free", F)
  BY <1>1, <1>2, <1>3, <1>4, <1>7, LinkHeadChain, LinkHeadBackLinked, LinkHeadOther
<1>10. links' \in Links
  BY <1>1, <1>2, <1>4, LinksClosed
<1>11. TypeOK'
  BY <1>2, <1>10, DllAssumption DEF Inv, TypeOK, OpenGrown, Activate, Allocated, Sectors
<1> QED
  BY <1>8, <1>9, <1>11 DEF Inv, Lists

\* What vault_list_of answers for a sector of the slab.
LEMMA VaultListOfFlagged ==
    ASSUME Inv, NEW s \in Sectors
    PROVE  VaultListOf(links, s) =
             IF FlaggedList(s) \in {"Active", "Tombstone"} THEN FlaggedList(s) ELSE "None"
<1>1. Walk(links, "Active") = FlaggedSet("Active") /\ Walk(links, "Tombstone") = FlaggedSet("Tombstone")
  BY ChainWalk DEF Inv, Lists
<1> QED
  BY <1>1 DEF VaultListOf, FlaggedSet

\* Moving a sector from one back-linked list to the head of another list.
LEMMA MoveSector ==
    ASSUME Inv, NEW from \in {"Active", "Tombstone"}, NEW to \in Lists, from # to,
           NEW s \in FlaggedSet(from),
           NEW l, l = LinkHead(Unlink(links, from, s), to, s)
    PROVE  /\ l \in Links
           /\ Chain(l, from, FlaggedSet(from) \ {s})
           /\ BackLinked(l, from, FlaggedSet(from) \ {s})
           /\ Chain(l, to, FlaggedSet(to) \cup {s})
           /\ to # "Free" => BackLinked(l, to, FlaggedSet(to) \cup {s})
           /\ \A other \in Lists \ {from, to} :
                 /\ Chain(l, other, FlaggedSet(other))
                 /\ other # "Free" => BackLinked(l, other, FlaggedSet(other))
<1> DEFINE u == Unlink(links, from, s)
           D == FlaggedSet(from)
           E == FlaggedSet(to)
<1>1. links \in Links /\ s \in Sectors /\ from \in Lists
  BY DEF Inv, TypeOK, FlaggedSet, Lists
<1>2. u \in Links /\ l \in Links
  BY <1>1, LinksClosed
<1>3. Chain(links, from, D) /\ BackLinked(links, from, D) /\ Chain(links, to, E)
  BY <1>1 DEF Inv
<1>4. to # "Free" => BackLinked(links, to, E)
  BY DEF Inv, Lists
<1>5. D \cap E = {} /\ s \notin E /\ s \in D
  BY FlaggedDisjoint
<1>6. Chain(u, from, D \ {s}) /\ BackLinked(u, from, D \ {s})
  BY <1>1, <1>3, UnlinkChain, UnlinkBackLinked
<1>7. Chain(u, to, E) /\ (to # "Free" => BackLinked(u, to, E))
  BY <1>1, <1>3, <1>4, <1>5, UnlinkOther
<1>8. Chain(l, to, E \cup {s}) /\ (to # "Free" => BackLinked(l, to, E \cup {s}))
  BY <1>1, <1>2, <1>5, <1>7, LinkHeadChain, LinkHeadBackLinked
<1>9. Chain(l, from, D \ {s}) /\ BackLinked(l, from, D \ {s})
  <2>1. (D \ {s}) \cap (E \cup {s}) = {}
    BY <1>5
  <2> QED
    BY <2>1, <1>1, <1>2, <1>6, <1>7, LinkHeadOther
<1>10. ASSUME NEW other \in Lists \ {from, to}
       PROVE  /\ Chain(l, other, FlaggedSet(other))
              /\ other # "Free" => BackLinked(l, other, FlaggedSet(other))
  <2> DEFINE G == FlaggedSet(other)
  <2>1. G \cap D = {} /\ G \cap (E \cup {s}) = {}
    BY <1>5, FlaggedDisjoint
  <2>2. Chain(links, other, G) /\ (other # "Free" => BackLinked(links, other, G))
    BY DEF Inv, Lists
  <2>3. Chain(u, other, G) /\ (other # "Free" => BackLinked(u, other, G))
    BY <1>1, <1>3, <1>5, <2>1, <2>2, UnlinkOther
  <2> QED
    BY <1>1, <1>2, <1>7, <2>1, <2>3, LinkHeadOther
<1> QED
  BY <1>2, <1>8, <1>9, <1>10

\* close_vault of a vault that has shares.
LEMMA TombstoneInv ==
    ASSUME Inv, NEW s \in Allocated, Tombstone(s)
    PROVE  Inv'
<1>1. s \in Sectors /\ s \in FlaggedSet("Active")
  <2>1. s \in Sectors
    BY DllAssumption DEF Inv, TypeOK, Allocated, Sectors
  <2> QED
    BY <2>1, VaultListOfFlagged DEF Tombstone, FlaggedSet
<1>2. links' = LinkHead(Unlink(links, "Active", s), "Tombstone", s)
  BY DEF Tombstone
<1>3. /\ FlaggedSet("Active")' = FlaggedSet("Active") \ {s}
      /\ FlaggedSet("Tombstone")' = FlaggedSet("Tombstone") \cup {s}
      /\ FlaggedSet("Free")' = FlaggedSet("Free")
  BY <1>1 DEF Tombstone, FlaggedSet, FlaggedList, Allocated
<1>4. /\ links' \in Links
      /\ \A list \in Lists : Chain(links', list, FlaggedSet(list)')
      /\ \A list \in {"Active", "Tombstone"} : BackLinked(links', list, FlaggedSet(list)')
  BY <1>1, <1>2, <1>3, MoveSector DEF Lists
<1>5. TypeOK'
  BY <1>4 DEF Inv, TypeOK, Tombstone, Allocated, SaturatingDec
<1> QED
  BY <1>4, <1>5 DEF Inv

\* reclaim_sector.
LEMMA ReclaimInv ==
    ASSUME Inv, NEW s \in Allocated, Reclaim(s)
    PROVE  Inv'
<1>1. s \in Sectors
  BY DllAssumption DEF Inv, TypeOK, Allocated, Sectors
<1>2. PICK from \in {"Active", "Tombstone"} : from = VaultListOf(links, s) /\ s \in FlaggedSet(from)
  BY <1>1, VaultListOfFlagged DEF Reclaim, FlaggedSet
<1>3. links' = LinkHead(Unlink(links, from, s), "Free", s)
  BY <1>2 DEF Reclaim
<1>4. /\ FlaggedSet(from)' = FlaggedSet(from) \ {s}
      /\ FlaggedSet("Free")' = FlaggedSet("Free") \cup {s}
      /\ \A other \in {"Active", "Tombstone"} \ {from} : FlaggedSet(other)' = FlaggedSet(other)
  <2>1. len' = len /\ occupied' = occupied \ {s} /\ tombstoned' = tombstoned
    BY DEF Reclaim
  <2>2. \A x \in Sectors : FlaggedList(x)' = IF x = s THEN "Free" ELSE FlaggedList(x)
    BY <2>1 DEF FlaggedList, Allocated
  <2> QED
    BY <1>1, <1>2, <2>2 DEF FlaggedSet
<1>5. /\ links' \in Links
      /\ \A list \in Lists : Chain(links', list, FlaggedSet(list)')
      /\ \A list \in {"Active", "Tombstone"} : BackLinked(links', list, FlaggedSet(list)')
  <2>1. /\ links' \in Links
        /\ Chain(links', from, FlaggedSet(from) \ {s})
        /\ BackLinked(links', from, FlaggedSet(from) \ {s})
        /\ Chain(links', "Free", FlaggedSet("Free") \cup {s})
        /\ \A other \in Lists \ {from, "Free"} :
              /\ Chain(links', other, FlaggedSet(other))
              /\ other # "Free" => BackLinked(links', other, FlaggedSet(other))
    BY <1>2, <1>3, MoveSector DEF Lists
  <2> QED
    BY <2>1, <1>2, <1>4 DEF Lists
<1>6. TypeOK'
  BY <1>5 DEF Inv, TypeOK, Reclaim, Allocated, SaturatingDec
<1> QED
  BY <1>5, <1>6 DEF Inv

\* Whatever the vault instructions do to the slab, its lists stay well formed.
THEOREM DllInductive == Spec => []Inv
<1>1. Inv /\ [Next]_vars => Inv'
  <2> SUFFICES ASSUME Inv, [Next]_vars PROVE Inv'
    OBVIOUS
  <2>1. CASE OpenReused
    BY <2>1, OpenReusedInv
  <2>2. CASE OpenGrown
    BY <2>2, OpenGrownInv
  <2>3. CASE \E s \in Allocated : Tombstone(s) \/ Reclaim(s)
    BY <2>3, TombstoneInv, ReclaimInv
  <2>4. CASE UNCHANGED vars
    BY <2>4 DEF vars, Inv, TypeOK, Chain, BackLinked, ClosedUnderNext, FlaggedSet, FlaggedList, Allocated
  <2> QED
    BY <2>1, <2>2, <2>3, <2>4 DEF Next
<1> QED
  BY <1>1, InitInv, PTL DEF Spec

\* The type invariant of the list heads, pointers and counters of dll.rs.
THEOREM DllTypeCorrect == Spec => []TypeOK
BY DllInductive, PTL DEF Inv

\* Walking a list from its head visits exactly the sectors whose flags put
\* them on it: no interleaving of create, close, withdraw and force-withdraw
\* leaks a sector or threads one on two lists.
THEOREM DllWalksAgreeWithFlags == Spec => []WalksAgreeWithFlags
<1>1. Inv => WalksAgreeWithFlags
  BY ChainWalk DEF Inv, WalksAgreeWithFlags
<1> QED
  BY <1>1, DllInductive, PTL

\* No handler meets a CorruptVaultList error, so no vault is stuck on its list.
THEOREM DllNeverCorrupt == Spec => []NeverCorrupt
<1>1. Inv => NeverCorrupt
  <2> SUFFICES ASSUME Inv PROVE NeverCorrupt
    OBVIOUS
  <2>1. \A list \in Lists : /\ FlaggedSet(list) \subseteq Allocated
                            /\ links.head[list] = Null \/ links.head[list] \in FlaggedSet(list)
    BY DEF Inv, Chain, ClosedUnderNext, FlaggedSet, FlaggedList, Lists
  <2>2. ASSUME NEW s \in occupied
        PROVE  LET list == VaultListOf(links, s) IN
               /\ list # "None"
               /\ CanUnlink(links, list, s)
               /\ \A to \in Lists \ {"Active"} : CanLink(Unlink(links, list, s), to, s)
    <3>1. s \in Sectors /\ s \in Allocated
      BY DllAssumption DEF Inv, TypeOK, Allocated, Sectors
    <3>2. PICK list \in {"Active", "Tombstone"} :
            list = VaultListOf(links, s) /\ s \in FlaggedSet(list)
      BY <3>1, VaultListOfFlagged DEF FlaggedList, FlaggedSet
    <3>3. list \in Lists /\ list # "None"
      BY DEF Lists
    <3>4. BackLinked(links, list, FlaggedSet(list)) /\ Chain(links, list, FlaggedSet(list))
      BY <3>3 DEF Inv
    <3>5. CanUnlink(links, list, s)
      BY <2>1, <3>2, <3>3, <3>4 DEF CanUnlink, BackLinked, Chain, ClosedUnderNext
    <3>6. ASSUME NEW to \in Lists
          PROVE  CanLink(Unlink(links, list, s), to, s)
      <4> DEFINE u == Unlink(links, list, s)
      <4>1. u.next[s] = Null /\ u.prev[s] = Null
        BY <3>1 DEF Unlink
      <4>2. u.head[to] \in {links.head[to], links.next[s]}
        BY <3>1 DEF Unlink, Inv, TypeOK, Links
      <4>3. links.next[s] = Null \/ links.next[s] \in Allocated
        BY <2>1, <3>2, <3>3, <3>4 DEF Chain, ClosedUnderNext
      <4> QED
        BY <2>1, <4>1, <4>2, <4>3 DEF CanLink
    <3> QED
      BY <3>2, <3>3, <3>5, <3>6
  <2>3. links.head["Free"] # Null => CanLink(PopFree(links), "Active", links.head["Free"])
    <3> SUFFICES ASSUME links.head["Free"] # Null
                 PROVE  CanLink(PopFree(links), "Active", links.head["Free"])
      OBVIOUS
    <3>1. links.head["Free"] \in Sectors
      BY <2>1 DEF FlaggedSet, Lists
    <3>2. /\ PopFree(links).head["Active"] = links.head["Active"]
          /\ PopFree(links).next[links.head["Free"]] = Null
          /\ PopFree(links).prev[links.head["Free"]] = Null
      BY <3>1 DEF PopFree, Inv, TypeOK, Links, Lists
    <3> QED
      BY <2>1, <3>2 DEF CanLink, Lists
  <2> QED
    BY <2>2, <2>3 DEF NeverCorrupt
<1> QED
  BY <1>1, DllInductive, PTL

LEMMA FlaggedFinite == \A list : IsFiniteSet(FlaggedSet(list))
<1>1. IsFiniteSet(Sectors)
  BY FS_Interval, DllAssumption DEF Sectors
<1> QED
  BY <1>1, FS_Subset DEF FlaggedSet

\* active_count is the length of the list the swap walks.
THEOREM DllActiveCountExact == Spec => []ActiveCountExact
<1> DEFINE Count == active_count = Cardinality(FlaggedSet("Active"))
<1>1. Init => Count
  <2>1. Init => FlaggedSet("Active") = {} /\ active_count = 0
    BY DEF Init, FlaggedSet, FlaggedList, Allocated, Sectors
  <2> QED
    BY <2>1, FS_EmptySet
<1>2. Inv /\ Count /\ [Next]_vars => Count'
  <2> SUFFICES ASSUME Inv, Count, [Next]_vars PROVE Count'
    OBVIOUS
  <2> DEFINE A == FlaggedSet("Active")
  <2>1. IsFiniteSet(A) /\ Cardinality(A) \in Nat
    BY FlaggedFinite, FS_CardinalityType
  <2>2. ASSUME NEW s, s \notin A, active_count' = active_count + 1, A' = A \cup {s}
        PROVE  Count'
    BY <2>1, <2>2, FS_AddElement
  <2>3. ASSUME NEW s \in A, active_count' = SaturatingDec(active_count), A' = A \ {s}
        PROVE  Count'
    <3>1. A # {}
      BY <2>3
    <3>2. Cardinality(A) # 0
      BY <2>1, <3>1, FS_EmptySet
    <3> QED
      BY <2>1, <2>3, <3>2, FS_RemoveElement DEF SaturatingDec
  <2>4. CASE OpenReused
    <3>1. PICK s : s = links.head["Free"]
      OBVIOUS
    <3>2. s \in FlaggedSet("Free")
      BY <3>1, <2>4 DEF OpenReused, Inv, Lists, Chain, ClosedUnderNext
    <3>3. s \notin A /\ active_count' = active_count + 1 /\ A' = A \cup {s}
      BY <3>1, <3>2, <2>4 DEF OpenReused, Activate, FlaggedSet, FlaggedList, Allocated
    <3> QED
      BY <3>3, <2>2
  <2>5. CASE OpenGrown
    <3>1. PICK s : s = len
      OBVIOUS
    <3>2. s \notin A /\ active_count' = active_count + 1 /\ A' = A \cup {s}
      BY <3>1, <2>5, DllAssumption
      DEF OpenGrown, Activate, FlaggedSet, FlaggedList, Allocated, Inv, TypeOK, Sectors
    <3> QED
      BY <3>2, <2>2
  <2>6. ASSUME NEW s \in Allocated, Tombstone(s)
        PROVE  Count'
    <3>1. s \in Sectors
      BY DllAssumption DEF Inv, TypeOK, Allocated, Sectors
    <3>2. s \in A
      BY <3>1, <2>6, VaultListOfFlagged DEF Tombstone, FlaggedSet
    <3>3. active_count' = SaturatingDec(active_count) /\ A' = A \ {s}
      BY <3>2, <2>6 DEF Tombstone, FlaggedSet, FlaggedList, Allocated
    <3> QED
      BY <3>2, <3>3, <2>3
  <2>7. ASSUME NEW s \in Allocated, Reclaim(s)
        PROVE  Count'
    <3>1. s \in Sectors
      BY DllAssumption DEF Inv, TypeOK, Allocated, Sectors
    <3>2. len' = len /\ occupied' = occupied \ {s} /\ tombstoned' = tombstoned
      BY <2>7 DEF Reclaim
    <3>3. A' = A \ {s}
      BY <3>2 DEF FlaggedSet, FlaggedList, Allocated
    <3>4. CASE s \in A
      <4>1. VaultListOf(links, s) = "Active"
        BY <3>1, <3>4, VaultListOfFlagged DEF FlaggedSet
      <4> QED
        BY <3>3, <3>4, <4>1, <2>3, <2>7 DEF Reclaim
    <3>5. CASE s \notin A
      <4>1. VaultListOf(links, s) # "Active"
        BY <3>1, <3>5, VaultListOfFlagged DEF FlaggedSet
      <4> QED
        BY <3>3, <3>5, <4>1, <2>7 DEF Reclaim
    <3> QED
      BY <3>4, <3>5
  <2>8. CASE UNCHANGED vars
    BY <2>8 DEF vars, FlaggedSet, FlaggedList, Allocated
  <2> QED
    BY <2>4, <2>5, <2>6, <2>7, <2>8 DEF Next
<1>3. Inv /\ Count => ActiveCountExact
  BY ChainWalk DEF Inv, ActiveCountExact, Lists
<1> QED
  BY <1>1, <1>2, <1>3, DllInductive, PTL DEF Spec

\* The pointer lists implement the abstract ones: every operation of dll.rs is
\* one move of one sector, or none.
THEOREM DllImplementsLists == Spec => ImplementsLists
<1> DEFINE Flagged == [s \in Sectors |-> FlaggedList(s)]
           Good == Inv /\ ActiveCountExact
<1>1. Inv => WalkedList = Flagged
  <2> SUFFICES ASSUME Inv, NEW s \in Sectors
               PROVE  WalkedList[s] = FlaggedList(s)
    BY DEF WalkedList
  <2>1. Walk(links, "Free") = FlaggedSet("Free")
    BY ChainWalk DEF Inv, Lists
  <2> QED
    BY <2>1, VaultListOfFlagged DEF WalkedList, FlaggedSet, FlaggedList
<1> HIDE DEF Flagged
<1>11. (Inv => WalkedList = Flagged)'
  BY <1>1, PTL
<1> USE DEF Flagged
<1>2. Inv => (links.head["Free"] = Null => FlaggedSet("Free") = {})
  <2> SUFFICES ASSUME Inv, links.head["Free"] = Null PROVE FlaggedSet("Free") = {}
    OBVIOUS
  <2>1. ClosedUnderNext(links, "Free", {})
    BY DEF ClosedUnderNext
  <2>2. Chain(links, "Free", FlaggedSet("Free"))
    BY DEF Inv, Lists
  <2> QED
    BY <2>1, <2>2 DEF Chain
<1>3. Sectors = Abstract!SectorIds
  BY DEF Sectors, Abstract!SectorIds
<1>4. Init => Abstract!ListsInit
  <2> SUFFICES ASSUME Init PROVE Abstract!ListsInit
    OBVIOUS
  <2>1. Flagged = [s \in Sectors |-> "Unallocated"]
    BY DEF Init, FlaggedList, Allocated, Sectors
  <2> QED
    BY <2>1, <1>1, <1>3, InitInv DEF Init, Abstract!ListsInit
<1>5. Good /\ Inv' /\ [Next]_vars => [Abstract!ListsNext]_Abstract!listVars
  <2> SUFFICES ASSUME Good, Inv', [Next]_vars
               PROVE  [Abstract!ListsNext]_Abstract!listVars
    OBVIOUS
  <2>1. WalkedList = Flagged /\ WalkedList' = Flagged'
    BY <1>1, <1>11
  <2>2. Abstract!OnListSet("Free") = FlaggedSet("Free")
    BY <2>1, <1>3 DEF Abstract!OnListSet, FlaggedSet
  <2>3. ASSUME NEW s \in Sectors, Flagged' = [Flagged EXCEPT ![s] = "Active"],
               active_count' = active_count + 1,
               IF FlaggedSet("Free") # {} THEN FlaggedList(s) = "Free"
               ELSE FlaggedList(s) = "Unallocated" /\ \A r \in 0 .. s - 1 : r \in Allocated
        PROVE  Abstract!Open(s)
    <3>1. \A r \in 0 .. s - 1 : r \in Sectors
      BY <2>3, DllAssumption DEF Sectors
    <3>2. \A r \in 0 .. s - 1 : r \in Allocated => Flagged[r] # "Unallocated"
      BY <3>1 DEF FlaggedList
    <3> QED
      BY <2>1, <2>2, <2>3, <3>1, <3>2 DEF Abstract!Open
  <2>4. CASE OpenReused
    <3>1. PICK s : s = links.head["Free"]
      OBVIOUS
    <3>2. s \in FlaggedSet("Free") /\ s \in Sectors /\ FlaggedList(s) = "Free"
      BY <3>1, <2>4 DEF OpenReused, Inv, Lists, Chain, ClosedUnderNext, FlaggedSet
    <3>3. /\ len' = len /\ active_count' = active_count + 1
          /\ occupied' = occupied \cup {s} /\ tombstoned' = tombstoned \ {s}
      BY <3>1, <2>4 DEF OpenReused, Activate
    <3>4. Flagged' = [Flagged EXCEPT ![s] = "Active"]
      BY <3>2, <3>3 DEF FlaggedList, Allocated
    <3> QED
      BY <3>2, <3>3, <3>4, <2>3, <1>3 DEF Abstract!ListsNext
  <2>5. CASE OpenGrown
    <3>1. PICK s : s = len
      OBVIOUS
    <3>2. s \in Sectors /\ FlaggedList(s) = "Unallocated" /\ \A r \in 0 .. s - 1 : r \in Allocated
      BY <3>1, <2>5, DllAssumption DEF OpenGrown, Inv, TypeOK, Sectors, Allocated, FlaggedList
    <3>3. /\ len' = s + 1 /\ active_count' = active_count + 1
          /\ occupied' = occupied \cup {s} /\ tombstoned' = tombstoned \ {s}
      BY <3>1, <2>5 DEF OpenGrown, Activate
    <3>4. Flagged' = [Flagged EXCEPT ![s] = "Active"]
      <4>1. \A x \in Sectors : x \in Allocated' <=> x \in Allocated \/ x = s
        BY <3>1, <3>3, DllAssumption DEF Allocated, Inv, TypeOK, Sectors
      <4>2. \A x \in Sectors : FlaggedList(x)' = IF x = s THEN "Active" ELSE FlaggedList(x)
        BY <3>2, <3>3, <4>1 DEF FlaggedList
      <4> QED
        BY <3>2, <4>2
    <3>5. FlaggedSet("Free") = {}
      BY <1>2, <2>5 DEF OpenGrown
    <3> QED
      BY <3>2, <3>3, <3>4, <3>5, <2>3, <1>3 DEF Abstract!ListsNext
  <2>6. \A s \in Allocated : s \in Sectors
    BY DllAssumption DEF Inv, TypeOK, Allocated, Sectors
  <2>7. active_count = Cardinality(FlaggedSet("Active"))
    BY ChainWalk DEF ActiveCountExact, Inv, Lists
  <2>8. ASSUME NEW s \in Sectors, FlaggedList(s) = "Active"
        PROVE  SaturatingDec(active_count) = active_count - 1
    <3>1. FlaggedSet("Active") # {}
      BY <2>8 DEF FlaggedSet
    <3>2. active_count # 0
      BY <3>1, <2>7, FlaggedFinite, FS_EmptySet
    <3> QED
      BY <3>2 DEF SaturatingDec
  <2>9. ASSUME NEW s \in Allocated, Tombstone(s)
        PROVE  Abstract!Retire(s)
    <3>1. FlaggedList(s) = "Active"
      BY <2>6, <2>9, VaultListOfFlagged DEF Tombstone
    <3>2. Flagged' = [Flagged EXCEPT ![s] = "Tombstone"]
      BY <2>6, <2>9, <3>1 DEF Tombstone, FlaggedList, Allocated
    <3> QED
      BY <2>1, <2>6, <2>8, <2>9, <3>1, <3>2 DEF Abstract!Retire, Tombstone
  <2>10. ASSUME NEW s \in Allocated, Reclaim(s)
         PROVE  Abstract!Release(s)
    <3>1. FlaggedList(s) \in {"Active", "Tombstone"} /\ VaultListOf(links, s) = FlaggedList(s)
      BY <2>6, <2>10, VaultListOfFlagged DEF Reclaim
    <3>2. len' = len /\ occupied' = occupied \ {s} /\ tombstoned' = tombstoned
      BY <2>10 DEF Reclaim
    <3>3. Flagged' = [Flagged EXCEPT ![s] = "Free"]
      BY <2>6, <3>2 DEF FlaggedList, Allocated
    <3>4. active_count' = IF FlaggedList(s) = "Active" THEN active_count - 1 ELSE active_count
      BY <2>6, <2>8, <2>10, <3>1 DEF Reclaim
    <3> QED
      BY <2>1, <2>6, <3>1, <3>3, <3>4 DEF Abstract!Release
  <2>11. CASE UNCHANGED vars
    <3>1. Flagged' = Flagged
      BY <2>11 DEF vars, FlaggedList, Allocated
    <3> QED
      BY <2>1, <2>11, <3>1 DEF vars, Abstract!listVars
  <2> QED
    BY <1>3, <2>4, <2>5, <2>6, <2>9, <2>10, <2>11 DEF Next, Abstract!ListsNext
<1> QED
  BY <1>4, <1>5, DllInductive, DllActiveCountExact, PTL
  DEF Spec, ImplementsLists, Abstract!ListsSpec
=============================================================================
