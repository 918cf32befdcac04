------------------------------ MODULE Indexer ------------------------------
(***************************************************************************)
(* The indexer: a poll source that walks the program's signatures          *)
(* backwards and emits them oldest page first, a store sink that commits a *)
(* batch and then saves the feed's cursor, and an aggregator that folds    *)
(* the fill legs past its own watermark into takes.  The process may die   *)
(* between any two steps and starts again from the saved cursor.           *)
(*                                                                         *)
(* Transactions are numbered in the order of the ledger.  The endpoint     *)
(* keeps the whole history and serves finalized blocks, so a slot's        *)
(* transactions appear together.                                           *)
(***************************************************************************)
EXTENDS Naturals, FiniteSets, Sequences

CONSTANTS
    MaxTx,          \* bound on the transactions that land
    Slot,           \* the slot of each transaction
    LegCount,       \* its fill legs; 0 when it failed or filled nothing
    MaxLegs,        \* bound on them
    SigRank,        \* its signature's place in text order
    BatchLimit,     \* signatures per page, and legs per fold
    MaxPages,       \* pages one poll enumerates before it yields
    MaxFaults       \* bound on the crashes and failed walks

Txs == 1 .. MaxTx

ASSUME BoundsAssumption == MaxTx \in Nat /\ MaxLegs \in Nat
ASSUME LedgerAssumption ==
    /\ Slot \in [Txs -> Nat \ {0}] /\ \A t, u \in Txs : t <= u => Slot[t] <= Slot[u]
    /\ LegCount \in [Txs -> 0 .. MaxLegs]
    /\ SigRank \in [Txs -> Nat] /\ \A t, u \in Txs : SigRank[t] = SigRank[u] => t = u
ASSUME LimitAssumption ==
    BatchLimit \in Nat \ {0} /\ MaxPages \in Nat \ {0} /\ MaxFaults \in Nat

VARIABLES
    tip,             \* the newest transaction of the ledger
    last_signature,  \* RpcPollSource::last_signature, 0 when there is none
    walk_before,     \* RpcPollSource::walk_before
    pending,         \* Backfill::pending
    reached_bound,   \* Backfill::reached_bound
    segment,         \* enumerate_pages' locals, on top of the pager's keys
    pc,              \* where the run loop is
    batch,           \* the batch the sinks are handling
    rows,            \* the transactions whose events are in the raw tables
    saved,           \* the feed_cursors row, 0 when there is none
    watermark,       \* the indexer_cursor row
    takes,           \* the takes table: transaction -> leg_count, 0 for no row
    rollup,          \* the takes the market's stats were last computed from
    upserted,        \* run_once's progress through the takes it touches
    cut,             \* history: pushed off a tip page that grew
    faults           \* crashes and failed walks so far

sourceVars == <<last_signature, walk_before, pending, reached_bound, segment>>
foldVars == <<watermark, takes, rollup, upserted>>
indexerVars == <<tip, sourceVars, pc, batch, rows, saved, foldVars, cut, faults>>

Lesser(m, n) == IF m <= n THEN m ELSE n
Greater(m, n) == IF m >= n THEN m ELSE n

\* A `before` of None: the window is open at the tip.
AtTip == MaxTx + 1

PageKey == [before : 1 .. AtTip, newest : Txs]

\* The newest BatchLimit signatures below `before` and above the cursor.
Newest(before) == Lesser(tip, before - 1)
Oldest(before) == Greater(last_signature + 1, Newest(before) + 1 - Lesser(BatchLimit, Newest(before)))
Page(before) == Oldest(before) .. Newest(before)

NoSegment == [keys |-> <<>>, before |-> AtTip, calls |-> 0]
EmptyBatch == [records |-> {}, cursor |-> 0]

-----------------------------------------------------------------------------
(* The source *)

\* What a poll returns goes to the sinks.
Return(b) == batch' = b /\ pc' = "commit"

\* Backfill::step is Enumerate: the walk goes on from where it stopped.
BeginWalk ==
    /\ pc = "poll" /\ ~reached_bound
    /\ segment' = [keys |-> pending, before |-> walk_before, calls |-> 0]
    /\ pc' = "walk"
    /\ UNCHANGED <<tip, last_signature, walk_before, pending, reached_bound,
                   batch, rows, saved, foldVars, cut, faults>>

Extended(before) ==
    IF Page(before) = {} THEN segment.keys
    ELSE Append(segment.keys, [before |-> before, newest |-> Newest(before)])

IsShort(before) == Newest(before) + 1 < Oldest(before) + BatchLimit

NextBefore(before) == IF Page(before) = {} THEN before ELSE Oldest(before)

\* A full page, and the poll may ask for another.
WalkOn ==
    /\ pc = "walk" /\ ~IsShort(segment.before) /\ segment.calls + 1 < MaxPages
    /\ segment' = [keys |-> Extended(segment.before), before |-> NextBefore(segment.before),
                   calls |-> segment.calls + 1]
    /\ UNCHANGED <<tip, last_signature, walk_before, pending, reached_bound, pc,
                   batch, rows, saved, foldVars, cut, faults>>

Extend(bound) ==
    /\ pending' = Extended(segment.before)
    /\ walk_before' = NextBefore(segment.before)
    /\ reached_bound' = bound
    /\ segment' = NoSegment

\* Mutant: the page cap is taken for the bound.
WalkYieldsAtBound ==
    /\ pc = "walk" /\ ~IsShort(segment.before) /\ segment.calls + 1 >= MaxPages
    /\ Extend(TRUE)
    /\ Return(EmptyBatch)
    /\ UNCHANGED <<tip, last_signature, rows, saved, foldVars, cut, faults>>

\* A full page, and the poll has asked for its share: it reports a backlog.
WalkYields ==
    /\ pc = "walk" /\ ~IsShort(segment.before) /\ segment.calls + 1 >= MaxPages
    /\ Extend(FALSE)
    /\ Return(EmptyBatch)
    /\ UNCHANGED <<tip, last_signature, rows, saved, foldVars, cut, faults>>

\* A short page: the window down to the cursor is exhausted, the poll goes on
\* to emit.
WalkReaches ==
    /\ pc = "walk" /\ IsShort(segment.before)
    /\ Extend(TRUE)
    /\ pc' = "poll"
    /\ UNCHANGED <<tip, last_signature, batch, rows, saved, foldVars, cut, faults>>

\* The endpoint fails in the middle of a walk: the segment is dropped. (A
\* failure while a page is emitted changes nothing: the page stays queued.)
WalkFails ==
    /\ pc = "walk" /\ faults < MaxFaults
    /\ faults' = faults + 1
    /\ segment' = NoSegment
    /\ pc' = "poll"
    /\ UNCHANGED <<tip, last_signature, walk_before, pending, reached_bound,
                   batch, rows, saved, foldVars, cut>>

\* Mutant: the queued pages outlive the walk.
RestartWalkKeepingPages ==
    /\ reached_bound' = FALSE
    /\ walk_before' = AtTip
    /\ segment' = NoSegment
    /\ UNCHANGED pending

\* Mutant: the next walk goes on where the last one ended.
RestartWalkInPlace ==
    /\ pending' = <<>>
    /\ reached_bound' = FALSE
    /\ segment' = NoSegment
    /\ UNCHANGED walk_before

RestartWalk ==
    /\ pending' = <<>>
    /\ reached_bound' = FALSE
    /\ walk_before' = AtTip
    /\ segment' = NoSegment

OldestPage == pending[Len(pending)]

\* fetch_page finds the recorded newest in the page it re-requests.
Reproduced == OldestPage.newest \in Page(OldestPage.before)

\* The page is trimmed to what the walk saw, the pager forgets it, and the
\* cursor moves to its recorded newest.
Emit ==
    /\ pc = "poll" /\ reached_bound /\ pending # <<>> /\ Reproduced
    /\ LET key == OldestPage
           page == Page(key.before)
       IN /\ Return([records |-> {t \in page : t <= key.newest}, cursor |-> key.newest])
          /\ last_signature' = key.newest
          /\ cut' = IF key.before = AtTip
                    THEN cut \cup {t \in last_signature + 1 .. key.newest :
                                     t \notin page /\ key.newest < t + BatchLimit}
                    ELSE cut
    /\ pending' = SubSeq(pending, 1, Len(pending) - 1)
    /\ UNCHANGED <<tip, walk_before, reached_bound, segment, rows, saved, foldVars, faults>>

\* So much has landed that the recorded newest fell off the page: the walk is
\* dropped, the cursor stays.
EmitRestarts ==
    /\ pc = "poll" /\ reached_bound /\ pending # <<>> /\ ~Reproduced
    /\ RestartWalk
    /\ Return(EmptyBatch)
    /\ UNCHANGED <<tip, last_signature, rows, saved, foldVars, cut, faults>>

\* The backlog is drained: the next poll walks from the present.
Idle ==
    /\ pc = "poll" /\ reached_bound /\ pending = <<>>
    /\ RestartWalk
    /\ Return(EmptyBatch)
    /\ UNCHANGED <<tip, last_signature, rows, saved, foldVars, cut, faults>>

SourceNext == \/ BeginWalk \/ WalkOn \/ WalkYields \/ WalkReaches
              \/ Emit \/ EmitRestarts \/ Idle

-----------------------------------------------------------------------------
(* The store sink *)

\* One transaction for the batch; a row that is there already is left alone.
Commit ==
    /\ pc = "commit"
    /\ rows' = rows \cup batch.records
    /\ pc' = "save"
    /\ UNCHANGED <<tip, sourceVars, batch, saved, foldVars, cut, faults>>

SaveCursor ==
    /\ pc = "save"
    /\ saved' = IF batch.cursor = 0 THEN saved ELSE batch.cursor
    /\ batch' = EmptyBatch
    /\ pc' = "fold"
    /\ UNCHANGED <<tip, sourceVars, rows, foldVars, cut, faults>>

-----------------------------------------------------------------------------
(* The aggregator *)

LegsOf(txs) == {leg \in Txs \X (0 .. MaxLegs) : leg[1] \in txs /\ leg[2] < LegCount[leg[1]]}

\* (slot, txn_index, event_ordinal, signature); txn_index is always 0.
Key(leg) == [slot |-> Slot[leg[1]], ordinal |-> leg[2], sig |-> SigRank[leg[1]]]

Before(a, b) ==
    \/ a.slot < b.slot
    \/ a.slot = b.slot /\ a.ordinal < b.ordinal
    \/ a.slot = b.slot /\ a.ordinal = b.ordinal /\ a.sig < b.sig

FillsAfter == {leg \in LegsOf(rows) : Before(watermark, Key(leg))}

\* fills_after: the first BatchLimit of them in key order.
NewFills ==
    {leg \in FillsAfter :
       Cardinality({m \in FillsAfter : Before(Key(m), Key(leg))}) < BatchLimit}

Touched == {leg[1] : leg \in NewFills}

IsLast(leg) == \A m \in NewFills : ~Before(Key(leg), Key(m))

\* Mutant: the new legs are added to what the take shows.
UpsertTakeByIncrement(t) ==
    /\ pc = "fold" /\ t \in Touched \ upserted
    /\ takes' = [takes EXCEPT ![t] = @ + Cardinality({leg \in NewFills : leg[1] = t})]
    /\ upserted' = upserted \cup {t}
    /\ UNCHANGED <<tip, sourceVars, pc, batch, rows, saved, watermark, rollup, cut, faults>>

\* A take is computed again from all of its legs.
UpsertTake(t) ==
    /\ pc = "fold" /\ t \in Touched \ upserted
    /\ takes' = [takes EXCEPT ![t] = LegCount[t]]
    /\ upserted' = upserted \cup {t}
    /\ UNCHANGED <<tip, sourceVars, pc, batch, rows, saved, watermark, rollup, cut, faults>>

RecomputeStats ==
    /\ pc = "fold" /\ NewFills # {} /\ Touched \subseteq upserted
    /\ rollup' = takes
    /\ pc' = "mark"
    /\ UNCHANGED <<tip, sourceVars, batch, rows, saved, watermark, takes, upserted, cut, faults>>

SetWatermark ==
    /\ pc = "mark"
    /\ \E leg \in NewFills : IsLast(leg) /\ watermark' = Key(leg)
    /\ upserted' = {}
    /\ pc' = "poll"
    /\ UNCHANGED <<tip, sourceVars, batch, rows, saved, takes, rollup, cut, faults>>

NothingToFold ==
    /\ pc = "fold" /\ NewFills = {}
    /\ pc' = "poll"
    /\ UNCHANGED <<tip, sourceVars, batch, rows, saved, foldVars, cut, faults>>

SinkNext == \/ Commit \/ SaveCursor
            \/ (\E t \in Txs : UpsertTake(t)) \/ RecomputeStats \/ SetWatermark \/ NothingToFold

-----------------------------------------------------------------------------
(* The ledger, and the process *)

\* A block with transactions of the program is finalized.
Land ==
    /\ tip < MaxTx
    /\ \E t \in tip + 1 .. MaxTx :
          /\ Slot[t] = Slot[tip + 1]
          /\ \A u \in t + 1 .. MaxTx : Slot[u] # Slot[t]
          /\ tip' = t
    /\ UNCHANGED <<sourceVars, pc, batch, rows, saved, foldVars, cut, faults>>

\* The process dies, or a sink's error ends it; main resumes the source from
\* the saved cursor.
Crash ==
    /\ faults < MaxFaults
    /\ faults' = faults + 1
    /\ RestartWalk
    /\ last_signature' = saved
    /\ batch' = EmptyBatch
    /\ upserted' = {}
    /\ pc' = "poll"
    /\ UNCHANGED <<tip, rows, saved, watermark, takes, rollup, cut>>

Init ==
    /\ tip = 0
    /\ last_signature = 0 /\ walk_before = AtTip /\ pending = <<>> /\ reached_bound = FALSE
    /\ segment = NoSegment /\ pc = "poll" /\ batch = EmptyBatch
    /\ rows = {} /\ saved = 0
    /\ watermark = [slot |-> 0, ordinal |-> 0, sig |-> 0]
    /\ takes = [t \in Txs |-> 0] /\ rollup = [t \in Txs |-> 0] /\ upserted = {}
    /\ cut = {} /\ faults = 0

Next == SourceNext \/ SinkNext \/ WalkFails \/ Land \/ Crash

Spec == Init /\ [][Next]_indexerVars

\* The run loop polls again after every batch, and each statement it waits for
\* is answered.
Fairness == WF_indexerVars(SourceNext) /\ WF_indexerVars(SinkNext)

FairSpec == Spec /\ Fairness

-----------------------------------------------------------------------------
(* Properties *)

\* The queued pages are in walk order, above the cursor.
Queued(keys) ==
    /\ keys \in Seq(PageKey)
    /\ \A i \in 1 .. Len(keys) :
          last_signature < keys[i].newest /\ keys[i].newest <= tip /\ keys[i].newest < keys[i].before
    /\ \A i, j \in 1 .. Len(keys) : i < j => keys[j].newest < keys[i].newest

\* The types of the source, of the tables and of the loop.
TypeOK ==
    /\ tip \in 0 .. MaxTx
    /\ last_signature \in 0 .. tip /\ saved \in 0 .. last_signature
    /\ walk_before \in 1 .. AtTip /\ reached_bound \in BOOLEAN
    /\ Queued(pending) /\ Queued(segment.keys)
    /\ segment.before \in 1 .. AtTip /\ segment.calls \in 0 .. MaxPages - 1
    /\ pc \in {"poll", "walk", "commit", "save", "fold", "mark"}
    /\ batch.records \in SUBSET (1 .. tip) /\ batch.cursor \in 0 .. last_signature
    /\ rows \in SUBSET (1 .. tip) /\ cut \in SUBSET (1 .. tip)
    /\ watermark \in [slot : Nat, ordinal : Nat, sig : Nat]
    /\ takes \in [Txs -> Nat] /\ rollup \in [Txs -> Nat]
    /\ upserted \in SUBSET rows
    /\ faults \in 0 .. MaxFaults

\* RpcPollSource's doc: nothing is ever left behind the cursor.
NothingLeftBehind == 1 .. saved \subseteq rows

\* Whatever crashes, fails and lands in between, the only transactions left
\* behind the durable cursor are those a growing ledger pushed off a full tip
\* page.
LeftBehindOnlyAtTheTip == 1 .. saved \subseteq rows \cup cut

\* The transaction shares its slot with no other.
Alone(t) == \A u \in Txs : Slot[u] = Slot[t] => u = t

\* The leg is at or behind the watermark.
Passed(leg) == ~Before(watermark, Key(leg))

\* fills_after's comment: a strict `>` never skips a leg. Between two batches a
\* stored leg that the watermark has passed is in its take.
NoLegSkipped ==
    pc = "poll" =>
        \A leg \in LegsOf(rows) : Passed(leg) => takes[leg[1]] = LegCount[leg[1]]

\* A take never shows a part of its legs nor a leg twice, through replays,
\* limits and crashes between its upsert and the watermark; and in a slot with
\* no second transaction no leg is skipped.
TakesAreWhole ==
    /\ \A t \in Txs : takes[t] \in {0, LegCount[t]}
    /\ \A leg \in LegsOf(rows \ cut) :
          Alone(leg[1]) /\ Passed(leg) => takes[leg[1]] = LegCount[leg[1]]

\* A transaction that landed is in the raw tables, its take and the market's
\* stats show it.
Indexed(t) ==
    /\ t \in rows
    /\ Alone(t) => takes[t] = LegCount[t] /\ rollup[t] = LegCount[t]

\* Once the faults are over the feed catches up with the ledger, however the
\* landing of transactions interleaves with the walk.
EventuallyIndexed == \A t \in Txs : t <= tip ~> t \in cut \/ Indexed(t)
=============================================================================
