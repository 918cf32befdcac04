# Dropset in TLA+

Dropset is an on-chain exchange for Solana. A *leader* opens a *vault*, funds it and quotes a ladder
of levels relative to a reference price; other users deposit into the vault and own part of it; a
*taker* swaps against the levels of all the vaults of a market, best price first. Off chain, a
bot keeps a vault's quotes fresh, a library tells takers what a swap would pay, and an indexer follows
the program's transactions. This directory models the on-chain program and these three, checks the
models with TLC on small instances, and proves with TLAPS what matters most for every instance. Paths below start at the repository's root (`src/` here).

Contents: [the system](#1-the-system), [the modules](#2-the-modules), [the runs](#3-the-runs),
[the proofs](#4-the-proofs), [where code and comments disagree](#5-where-the-code-and-its-comments-disagree),
[abstractions](#6-abstractions), [the plan](#7-the-plan).

## 1. The system

### The on-chain program, `programs/dropset`

All state lives in accounts. An instruction locks the accounts it writes, runs alone on them, and
either succeeds or leaves no trace; two users' instructions land in any order. Concurrency is
therefore the interleaving of whole instructions, and the questions are about long sequences of legal
calls of several actors, about what is stale when an instruction lands, and about rounding.

| Part | State | Operations | What is hard, and what must hold |
|---|---|---|---|
| Vault slab and lists, `state/market/dll.rs`, `layout.rs` | the sectors' `(next, prev)`, three heads, `active_count` | allocate, link, unlink, tombstone, reclaim | three lists share one pair of pointers and the free list is popped without patching `prev`; each list must stay a chain over exactly the sectors its flags say, and the `CorruptVaultList` errors must be unreachable |
| Vault accounting, `create_vault`, `deposit*`, `withdraw*`, `force_withdraw`, `close_vault`, `state/market/{access,accrual,inventory}.rs` | a vault's atoms, shares, leader's shares, high-water mark; `VaultDepositor` accounts; the market's counters | open, seed, top up, withdraw, close, reclaim on the last share | who burns the last share reclaims the sector, and a depositor's address is derived from the reusable sector; shares must add up, nobody may be diluted, no position may outlive its vault |
| Performance fee and share arithmetic, `sdk/math-core/src/share.rs` | none | basket sizing, pro-rata slice, mark, fee shares, position profit | every division rounds; the fee must never be taken twice on one gain, and profit must equal cash flow |
| Governance, `set_*`, `override_vault_name`, `freeze_vault`, `retune` | a vault's leader, rate, floor, consent flags, name, frozen flag | one setter each | hand-over races deposits; an admin's transaction may land on a later vault of the sector it read |
| Treasuries and teardown, `sweep_residual`, `close_market` | two token accounts, accrued fees | sweep, close one treasury, close the market | the residual is a difference of totals that others move; teardown is leg by leg |
| Quotes, `state/market/{quote_write,reference_price,liquidity_profile}.rs`, `asm/entrypoint.s` | reference price with its date, ladder, flush flag | write a price, write a ladder | a write only arms a flush; the resting levels are stale until the next swap; two clocks, two deadlines per level |
| Swap engine, `instructions/swap.rs`, `sdk/math-core/src/{matching_math,clock,price}.rs` | `remaining` levels (own and flipped halves), inventories, nonce | collect, order, walk, fill, charge, revert softly | a swap under `min_out` returns `Ok` after it has mutated everything and must undo it; a leg cap; halves rounded separately |
| Positions, `state/vault_depositor.rs` | shares, basis, entry price, realized totals | record a deposit, realize on a withdrawal | three running totals clamped one by one |
| Registry and markets, `init`, `admin`, `create_market`, `registry_defaults`, `close_registry` | admin set, defaults, market count, fee vault | add/remove admins, create a market, change defaults, close | counts that gate closing; defaults copied at creation |

The parts meet in the market account: deposits and withdrawals rescale the levels a swap will hit, a
swap moves the inventories shares are priced on, a withdrawal pays from treasuries every vault of the
market shares, and governance writes fields the next deposit, withdrawal or swap reads. The slab's
lists decide who counts as quoting, whose name is taken, and when the market may be torn down.

### Off chain

| Part | State and operations | What is hard, and what must hold |
|---|---|---|
| Quoter, `sdk/interface/src/matching.rs` | none: repeats the swap on a snapshot of the account | must answer what the swap will pay, in the same order of flush, liveness and rounding |
| Maker bot, `bots/maker-bot` | per market: triggers and cadence, kill switches, the belief that the book is dark, a persisted age of the last live stamp; one transaction per pass | a crash leaves a live book; a send fails, or lands after it failed; standing down takes two writes; a remembered stamp may keep a vault dark |
| Feed framework, `feeds` | per feed a source, its pager and cursor; sinks; the saved cursor | a walk over a ledger that grows; a page is fetched twice; a batch commits before its cursor; a sink fails in the middle of a batch |
| Indexer, `indexer`, and `db-schema` | raw event rows, a watermark, folded takes, stats | rows behind the watermark; replays; a take folded in parts |
| Client SDKs, `sdk/rs`, `sdk/ts` | none: instruction builders, event decoding, routing | - |
| Taker bot, `bots/taker-bot` | a seeded random order flow | - |
| Market data, `market-data` | supervised feeds, the FX session fence | one feed's failure ends the process; a failed read keeps the span it had |
| Fair value, `fair-value` | EMAs, venue weights and the regime of each market | floating-point arithmetic |
| Operator TUI, `tui` | screens; an admin reads a vault's number, then signs | what was read may be gone when the transaction lands |
| Frontend, decks, infrastructure, `util` | presentation and deployment | - |

The bot writes the quotes that `Book` materializes and is the reason why a book goes dark; the quoter reads
the account the swap writes; the indexer reads the events of both. None of them shares memory with
the program: what links them is what is on the chain when a transaction lands.

`PROJECT.json` lists every part with the modules that model it and, under `hazards`, the places where
the code is hard to test, with the property aimed at each; a hazard without a property says why.

## 2. The modules

| Module | Models | State | Actions |
|---|---|---|---|
| `VaultLists` | what the slab promises: a sector is new, active, tombstoned or free | `listOf`, `active_count` | `Open`, `Retire`, `Release` |
| `VaultDll` | `dll.rs`, pointer by pointer | `links` (heads, `next`, `prev`), `len`, `active_count`, `occupied`, `tombstoned` | `OpenReused`, `OpenGrown`, `Tombstone`, `Reclaim` |
| `ShareMath` | the kernels of `share.rs`, as operators | - | - |
| `Market` | the instructions on one market's vaults, shares, treasuries and depositors | the slab, `depositors`, `shares`, the treasuries, `signed` | one per instruction |
| `Position` | one `VaultDepositor` account over its life | the account, plus what was put in, taken out and reported | `Deposit`, `Withdraw` |
| `Book` | quotes, lazily materialized levels, and the swap | vaults' quotes and inventories, `remaining`, nonce, treasuries, the clock, the last receipt | `SetReferencePrice`, `SetLiquidityProfile`, `Deposit`, `Withdraw`, `FreezeVault`, `CloseVault`, `Swap`, `Tick` |
| `Quoter` | `simulate_swap`, as an operator on `Book`'s state | - | - |
| `Registry` | the registry, its admins and defaults, market creation and closing, fee vaults and treasuries as accounts that anyone may open | `registry`, `markets`, `treasury`, `fee_vault`, `teardown` | one per instruction, and what strangers do |
| `Maker` | the maker bot's loop for one market, and what its writes do on chain | the process (`phase`, `write`, `on_chain`, `ctx`), the chain (`live`, `profile`, `frozen`), `record`, `in_flight` | `Start`, the startup pass, `Cycle`, the take-off, `LandSent`, `Confirm`, `SendFails`, `LandLate`, `Expire`, `Crash`, `FreezeVault`, time and the feeds |
| `Indexer` | the poll source and its pager, the store sink, the aggregator | the source's walk, `batch`, `rows`, `saved`, `watermark`, `takes`, `rollup` | one per step between two awaits, `Land`, `WalkFails`, `Crash` |

`MCMarket`, `MCBook`, `MCPosition`, `MCMaker` and `MCIndexer` give the symmetry, records and functions a `.cfg` cannot write;
every other constant is in the `.cfg`. The `...Proofs` modules hold the theorems.

How the modules fit together: `Market` extends `VaultLists` and conjoins its actions with its own
(`CreateVault` conjoins `Open`, `CloseVault` conjoins `Retire`, the last burn conjoins `Release`), and
`VaultDll` is shown to implement `VaultLists`, so the pointers need not be in `Market`. `Market` and
`Book` cut the market account along its two concerns: `Market` sees a swap as a fill that moves atoms
of one vault and one treasury, which is all its properties can tell (a swap over several vaults is
several such steps, and none of `Market`'s properties talks about a whole swap); `Book` sees a deposit
or a withdrawal by what it does to an inventory and to the resting levels. `Registry` sees a market by
its counts and its accounts, and has the one thing `Market` leaves out: a token account that is closed
can be opened again by anybody. `Quoter` extends `Book`: both walk the same state and a property
compares them. `Maker` sees a book as matchable or not, by the gate `Book` has in `Quoting` and the sizes of a profile.

### How state and actions correspond to the code

On chain:

* A *failed instruction* changes nothing, so a `require!` is a guard and an error a disabled action.
  The exception is a swap that does not reach `min_out`: it returns `Ok`, and `Book`'s `RevertSwap` says
  what it leaves behind, the materialized levels included.
* A *sector* is an element of `SectorIds` and is handed out by `Open`: a free one if there is any, else
  the slab grows by one. `Market`'s `WithdrawFrom` burns, takes the slice out and reclaims the sector
  when the vault's total reached zero, as `withdraw`, `withdraw_leader` and `force_withdraw` all do;
  `BurnPosition` closes the depositor's account with its last share.
* `Realized` is `realize_in_place`: each instruction that calls it before it reads shares does so here.
* `signed` is the one piece of state that is no account: the `<<sector, seq>>` an admin read and put
  into a transaction, which may land at any later time, or never, or more than once.
* `Rested` in `Book` is what a swap would find on a vault: the stored levels, or the ladder
  materialized afresh when a flush is armed. `Entries` is the collection pass, `Heap` the price-time
  order (price, then quote age, then slab order), `WalkEntry` one pop of the heap with its early
  exits and the leg cap, `Walked` the fold of them over the heap, `Swap` the rest of the handler: fee,
  platform fee, slippage check, commit or revert.
* `receipt` in `Book`, and `put_in`, `taken_out`, `reported` and `clipped` in `Position`, are history:
  they are written and never read by an action. So are `landed_age` and `strays` in `Maker`.
* `Registry`'s `teardown` marks the operators' decision to close everything; from then on they start nothing
  new and what strangers may still do is bounded by `MaxSquats`.

Off chain:

* `Quoter` is written from `matching.rs` alone and uses of `Book` what the code shares through
  `sdk/math-core`: the price of a level, deadlines, liveness, conversions. It keeps what it took from each
  vault instead of mutating levels, reads the profile when a flush is armed, and skips an overfull side.
* `Maker`'s `Cycle` is one pass of `quote_market_inner`: it decides at most one write. The transaction lands in one
  step (`LandSent`), and its sender hears of it in a later one (`Confirm`), or hears of an error (`SendFails`), or dies
  (`Crash`); a freeze or time may come in between. An error does not tell what becomes of the transaction
  (`chain.rs:379-404`): it has landed, never will, or still may (`in_flight`, `LandLate`), whatever it writes.
  `ctx` is the code's `Context`; `Noted` is what it records of a confirmed send (`send_kill_stamp` forgets the
  cadence, a stamp ends the dark episode). `record` is the persisted age, dated when the confirming call returned and so up to a
  send's length (`MaxSend`) younger than the stamp, and perhaps not written at all.
* `landed_age` is the age of the live stamp, which the bot does not see. `strays` says which half of the quote on
  chain, price or profile, was put there by a write that was reported failed to the process that runs: the properties about a dark or a
  live book name this case, and only this, as the one in which the bot may be wrong.
* An active maker reads ages and no `in_band`, a passive one the reverse, and the model keeps each where it is
  read: time passes in active mode only, `InBand` is false there.
* A signal is seen between two passes; `Shutdown`, `PullProfile` and `Exit` are the take-off, which
  sends what its belief of the chain says is needed, each send once; `failed` is its exit status.
* In `Indexer` transactions are numbered in ledger order. `segment` is `enumerate_pages` in progress;
  `pending` are the pager's recorded pages, newest first, each by its bounds; `Emit` fetches the
  oldest page *again*, from the ledger as it is then. `Commit` and `SaveCursor` are two steps, since
  the code awaits in between. `UpsertTake`, `RecomputeStats` and `SetWatermark` are the statements of
  one `run_once`.

## 3. The runs

| Run | Instance | What it shows |
|---|---|---|
| `vault_dll` | 4 sectors | any order of opening, closing, reclaiming: the lists agree with the flags (`WalksAgreeWithFlags`), and `VaultDll` implements `VaultLists`. Four is the least with a middle node that has neighbours on both sides and a sector elsewhere. |
| `custody` | 1 vault, two interchangeable users (a symmetry: no admin, and each may lead, deposit or quote), 4 atoms a leg, two fee rates, a floor, fills with fees and residues, teardown; `PPM = 4`, `Q32 = 2`, so that nearly every division has a remainder | `Solvent`: no treasury is ever short of its claims; `SharesAccounted`; `CloseStrandsNobody`; `NothingDiluted`, `MarkOnlyRises`, `RateNotRetroactive` |
| `identity` | 2 sectors, 2 users, two vaults in all, one name, late admin transactions | `NamesAndSeqsUnique`, `NoOrphanPosition`, `LeaderIsNoDepositor`, `OneQuotingVaultPerLeader`, `AdminActsOnTheVaultItRead`. The second vault may take the sector of the first, or live beside it. |
| `position` | prices 0 (sentinel), 1, 3 and infinity, lots of 1 and 2 shares | `PnlIsCashFlow` and `SplitAddsUp` over top-offs and partial withdrawals at other prices, saturations included |
| `book` | 1 vault, two levels on each side, two ladders, stocks 1 and 4, swaps of 4 with two limits and two floors, two clocks to 2, quotes dated a second ahead | `BookBacked`, `BookSolvent`, `TakerProtected`, `FillsAtCurrentQuote`, `RevertIsNeutral`, `PriceTimePriority`, and `QuoteIsWhatTheSwapPays`: the quoter answers what each of these swaps does. A swap of 4 spans both levels and meets the leg cap of 2; one ladder overfills its leg; a flipped half of the near level ties with the far level of the other side; quotes land before, at and after their date, and a deadline is cut at the end of time. Four quote writes and legs are enough for a fill, a new quote under an armed flush, and a fill again. (The order across vaults is theorem `BookPriceTimePriority`.) |
| `registry` | 2 mint pairs, 2 fee mints, 2 users, 2 vaults a market, 3 interferences during a teardown | `MarketsAreGoverned`, `FeeVaultOpenForLiveMarkets`, `TeardownCompletes` |
| `maker` | both modes; ticks that are heavy, drawn down or without a mid for an active maker, and calm, moving or stalled too for a passive one; ages to one past `stale_after` and a send; any one kind of write at a time that was given up and may still land | `FlagFailsOnlyIfRelit`, `RestartKeepsTheAge`, `CleanExitIsDark`, and under fairness `HaltGoesDark`, `StaleBookGoesDark`, `RearmsAfterOutage` |
| `indexer` | 6 transactions in 5 slots, pages of 2, two pages a poll, 2 crashes or failed walks | `LeftBehindOnlyAtTheTip`, `TakesAreWhole`, and under fairness `EventuallyIndexed`. Six transactions make a walk span two polls and leave room for the tip to grow under it; a fold of 2 legs cuts takes of 3. |
| `treasury_close`, `maker_flag`, `indexer_tip`, `indexer_split` | 1 vault and 1 user, teardown; as `maker`; as `indexer` | the four violations of [section 5](#5-where-the-code-and-its-comments-disagree) |

Each module's `TypeOK` is checked in one of its runs (`Position`'s is proved).

Bounds, each a constant: `MaxSectors`, `MaxSeq`, `MaxAtoms` (no atoms come into a leg above it), `U64Max`
(in `Market`, the shares that may exist), `MaxShares`, `MaxFlow`, `ClockMax`, `MaxNonce`, `MaxMarkets`,
`MaxVaults`, `MaxSquats`, `MaxSend`, `MaxLate`, `MaxTx`, `MaxFaults`. They cut
behaviours off, never values: a step that would pass a bound is disabled, except where the code itself
saturates (`Position`, deadlines) and in `Maker`, where ages are counted up to the first value beyond every
bound the code compares them with. The scales `PPM`, `BPS` and `Q32` (10^6, 10^4 and 2^32 in the code)
are constants so that rounding happens with one-digit numbers.

`CHECK_DEADLOCK FALSE` stands where the system really stops: the market or the registry is closed, a bounded counter
is used up, or every vault is closed. In `vault_dll`, `maker` and `indexer` deadlock is checked.

### Fairness

An on-chain program does nothing by itself and no user owes it a transaction, so `VaultDll`, `Market`,
`Position` and `Book` assume none. The others do, each for what really keeps running:

* `Maker`: time passes; the supervisor's loop and a pending send go on (weak). Of the writes other than the zero
  profile, one lands again and again if they are sent again and again, and one is confirmed (strong, and for all of them together: the code
  retries every pass, and any one send may fail). Of the zero profile nothing is assumed:
  `HaltGoesDark` holds although it may never land, because `stand_down` sends the kill stamp first. Nobody
  has to start or to stop the process, and the feeds may say anything. The liveness properties speak of behaviours
  in which the process ends up running over an unfrozen vault that no stray write keeps lit or dark, and
  `RearmsAfterOutage` of inputs that settle; see the note on flapping in section 5.
* `Indexer`: the run loop polls again after each batch, and an awaited statement is answered (weak).
  Faults are bounded by `MaxFaults`: under endless crashes nothing need ever be folded.
* `Registry`: once a teardown has begun, each step that it still needs is sent (weak, per market and leg). The
  fairness is about the operators, who keep sending; `MaxSquats` says that strangers tire.

### Mutants

Each property of a passing run has a *mutant*: a change of one definition, of the kind a slip in
the code would be, that makes the run fail (an unpatched `prev`, a flush not re-armed, rounding up in
place of down, the profile zeroed before the kill stamp, a walk that resumes where it ended, a
watermark that counts legs twice). The mutated forms are in the modules, marked
`Mutant`, each before the definition it stands for.

## 4. The proofs

What is proved holds for every value of the constants that satisfies the modules' named assumptions:
that bounds are naturals, that rates lie in their scale, that the default address is nobody's, that ledger slots
do not fall. Each of them holds of the code's own constants, and TLC evaluates them on every run.

**`VaultDllProofs`.** The flags alone do not say where pointers go, so `WalksAgreeWithFlags` is not
inductive. The invariant is

    Inv == /\ TypeOK
           /\ \A list \in Lists : Chain(links, list, FlaggedSet(list))
           /\ \A list \in {"Active", "Tombstone"} : BackLinked(links, list, FlaggedSet(list))

A `Chain` over a set says its head is in it, the set is closed under `next` and every closed set with the
head is all of it; so there is no garbage and no loop, without counting or induction. `Free` has no
back links: `prev` means nothing there. Lemmas say what linking, unlinking and popping do to the list
they touch (`LinkHeadChain`, `UnlinkChain`, `PopFreeChain`) and to the others (`...Other`); each action
combines two of them. From `DllInductive` follow `DllTypeCorrect`, `DllWalksAgreeWithFlags`,
`DllNeverCorrupt`, `DllActiveCountExact` (through cardinalities) and `DllImplementsLists`: every step
maps to a step of `VaultLists` or a stutter.

**`FoldFacts`.** Treasuries, shares and levels are summed with `SumFunction`, a fold over a function's domain. The
library's induction theorems take an operator as a parameter, which the provers at hand cannot
instantiate; `SubsetInduction` says the same of a *set* of subsets, which they can, and it follows from the library's
theorem that the finite subsets of a set are well-founded under strict inclusion. With it: the recursion the fold is defined by has a solution
(`FoldExists`), the order of the summands does not matter (`PartialSumRemove`), and then `SumType`,
`SumUpdate`, `SumCompare`, `SumOfNats` and `SumInProportion`, which is all the components' proofs use.

**`MarketProofs`.** Two inductive invariants. `MarketIInv` below is about identity, `CustodyInv` about money.

* `MarketIInv == IdentityInv /\ SignedSectors`, where `IdentityInv` is the slab's shape with
  `FlagsMatchLists`, `OneQuotingVaultPerLeader` and `NamesAndSeqsUnique`; none of the three is inductive
  alone (a new vault's number is fresh only because numbers are below `next_vault_seq`, a name is unique
  only because `Occupied` is what the lists say). Most instructions leave the identity of every vault
  alone: `KeepSector` and `LikeKeeps` prove that once for all of them.
* `CustodyInv == TypeOK /\ SectorsSound /\ PositionsCounted /\ LeaderIsNoDepositor /\ ActiveCounted /\ Solvent /\ ClosedTreasuriesEmpty`.
  `Solvent` alone is not inductive. A withdrawal pays a pro-rata slice, which is within the inventory only if the shares burnt
  are within the total: `SectorsSound` says that a sector's shares are its leader's and its depositors', that there is
  inventory exactly when there are shares, and that a reclaimed sector has neither. A sweep takes the difference of a treasury and
  a sum over all sectors, and a treasury closes on the word of the active count: `ActiveCounted`, `ClosedTreasuriesEmpty`.
  A hand-over moves a position into the leader's shares, which `PositionsCounted` and `LeaderIsNoDepositor` keep apart.
* `NothingDiluted` is the arithmetic of a slice rounded down and a basket rounded up, for any
  amounts. `MarkOnlyRises` and `RateNotRetroactive` need of the square root only that equal inventories have equal ones.
  `RateNotRetroactive` carries an exemption that proving it brought out: at the mark's ceiling `ratchet_hwm`
  (`sdk/math-core/src/share.rs:333`) clamps, the value per share stays above the mark, and the fee is realized again on the next
  call.

**`PositionProofs`.** `IInv == TypeOK /\ ClosedIsEmpty /\ PnlIsCashFlow /\ SplitAddsUp`. `ClosedIsEmpty` is needed
because a reopened account starts from its zeroes. The arithmetic lies in a few lemmas about rounded
division (`DivNat`, `ShareOfWhole`, `AverageBelow`); the released basis is never above the basis, so what
stays is a natural.

**`BookProofs`.** The swap is a fold of `WalkEntry` over a sorted set, so both have to be understood first.

* *The heap.* `InOrder` puts an element where the number of elements before it says. `SortedLists` shows, for any strict
  order on a finite set, that this lists every element once and in order; `PriceTimeIsStrict` that price, nonce,
  sector, level and half are such an order on the entries; `HeapLists` is the two together.
* *The walk.* `WalkTraced` unrolls the fold into the state after each entry. `WalkInv` is what holds after `k`
  of the `n` entries: the types; that a fill changes sizes and no terms; that a quoting vault shows no more than it
  holds (`FillCovers`) and another vault is not touched; that what the vaults lose the taker
  gains (`FillConserves`); that the entries ahead still have the sizes the collection found, because two entries never stand for the same
  half (`HalvesApart`); that every leg is within the limit; and that what was passed is not worth an atom and stays so, since
  a vault's stock on the side walked only falls (`WorthlessStays`). `WalkedInv` is the induction.
* *The invariant.* `BookIInv == TypeOK /\ BookBacked /\ BookSolvent /\ AtCurrentQuote /\ TakerProtected /\ FillsAtCurrentQuote`.
  `BookBacked` is needed to start a walk, the types to keep a treasury a natural, and `AtCurrentQuote` - a level
  that rests under no armed flush has the price and the deadlines its vault's quote gives now - to know where
  a fill comes from. A flush is backed because the sizes are shares in BPS of the leg that sum to at most the
  whole, and a deposit or withdrawal because it scales all levels of the leg by one factor and rounds down; both are
  `SumInProportion`.
* `PriceTimePriority` is read off the walk's end (`WalkEnds`). `BookRevertIsNeutral` needs no invariant: only a swap reports
  an amount, one that fills nothing did not commit, and one that reverts leaves what a flush would have left.
* *The quoter.* `QuoterForetellsSwaps` is in three parts. `EntryIsLevel` and `LevelIsEntry`: the levels the quoter
  computes are the swap's entries with the same price and size, since what the two leave out under an armed flush - a
  side that overfills, a half that had flipped - materializes with nothing on it. `SortedImage` and `LevelsMirrorHeap`:
  an order-preserving bijection carries one sorted list onto the other, place by place. `StepsInStep`: whatever level
  both stand at, `FillLevel` and `WalkEntry` both stop, both pass or both give the same, and what
  the quoter counts as taken out of a vault is what the swap has moved (`InStep`). What is left is the
  arithmetic of the fees (`SwapPaysTheQuote`). The theorem needs `BookIInv` for the types and for `WalkInv`; it holds
  for any platform fee, limit and floor the swap accepts.

**`RegistryProofs`.** `IInv == TypeOK /\ MarketsAreGoverned /\ FeeVaultOpenForLiveMarkets`. The second half needs the
first: a fee vault closes only when `market_count` is zero, and only because the count is exact does that
mean that no market names it. `OneMoreMarket` and `OneMarketLess` are the cardinality facts.

**`MakerProofs`.** `MakerInv` says, beside the types, what each thing the bot remembers is worth. `FlagFailsOnlyIfRelit`:
the flag; it needs to know when a write that is being sent has landed (`LandedInv`) and that in the startup pass the flag is
down (`StartupInv`). `RecordInv`: no record is younger than the live stamp by more than `MaxSend`, because a stamp that has landed and waits for its
confirmation is no older than its send. `ZeroInv` and `TakeOffInv`: a belief that the profile is zero is true but for a stray
profile write or one that just landed, and a take-off that failed nowhere has pulled what it still believed to be there;
`DownInv` that nothing is being sent or remembered while no process runs. There is no hypothesis on
which writes may land late, nor on how many.

**`IndexerProofs`.** `IInv == TypeOK /\ WalkCovers /\ PrefixStored /\ LeftBehindOnlyAtTheTip /\ FoldKeepsUp /\ TakesAreWhole`.
`WalkCovers` says that the recorded pages tile the window above the cursor, none longer than a page, and that
a finished walk reaches the cursor: hence re-fetching the oldest page yields all of it unless the page is
open at the tip, which is where `cut` comes in (`PageIsComplete`, `EmitStep`). `PrefixStored` says that the
tables are a prefix of the ledger but for the cut, and so a slot with one transaction is seen whole
before a later one; `FoldKeepsUp` that the watermark is a stored leg's and that the takes upserted so far are whole, over a
crash between the upserts and the watermark.

### Only model-checked

* The liveness properties (`HaltGoesDark`, `StaleBookGoesDark`, `RearmsAfterOutage`,
  `TeardownCompletes`, `EventuallyIndexed`): liveness under fairness and `ENABLED` are out of the prover's reach.

Every safety invariant and every action property that a passing run checks is a theorem.

## 5. Where the code and its comments disagree

Four runs are expected to fail, each on what a comment says.

* **`treasury_close`.** `programs/dropset/src/instructions/close_market.rs:139-141`: "An empty active list
  is the witness that every sector has been reclaimed". `close_vault` moves a vault that still has shares to the
  tombstone list, so the active list may be empty while a vault is not. If swaps have bought such a vault out
  of one leg, that leg's treasury is empty and can be closed. The vault's withdrawals require both
  treasuries, so its holders are stuck as long as the account is gone. (Anyone may create it again at the
  same address; `Registry` models that, and its `TeardownCompletes` needs the operators to do so.)
* **`maker_flag`.** `bots/maker-bot/src/tasks.rs:1716-1718`: `reference_invalidated` only saves deciding again what the next read
  would show, since the kill was confirmed. The kill's confirmation says nothing of an earlier reference whose send
  returned an error. The run: that reference lands on top of the kill; the next halting pass reads a live price,
  turns back at the flag and sends the zero profile in place of a kill. On a halt the book is dark once that is down; on the pause
  path, which sends nothing else, the stale price stays matchable until a mid returns or something halts. `FlagFailsOnlyIfRelit`,
  checked and proved, is what holds. (In the same way a late kill or zero profile may leave a book dark under a bot that
  believes it quotes, `Darkened` in the model.)
* **`indexer_tip`.** `RpcPollSource`'s documentation says that nothing is ever left behind the cursor. A
  page at the tip is recorded by its newest signature and fetched again later; when it was full and
  another transaction has landed since, the endpoint's newest page no longer holds its oldest
  transaction, and the cursor moves past it. `LeftBehindOnlyAtTheTip`, checked and proved, says that this
  is the only hole.
* **`indexer_split`.** `indexer/queries/fills_after.sql:1-3`: a strict `>` on the tuple "never skips a leg when two
  takes share" a slot. A page boundary inside a slot stores its first transaction, which is folded and becomes
  the watermark; the second, stored later, may sort before it. In the run no fault is needed, each of the two has one
  leg, and the loop is back at its poll with the second's leg behind the watermark, so no take ever has it. `TakesAreWhole` is what holds: no partial and no
  double take anywhere, and no leg skipped in a slot with one transaction.

Noted while reading, with no run of their own:

* **Maker.** A store that has been silent too long is a halt in `evaluate`, but when there is no mid either the pause path
  runs instead (`tasks.rs:1343-1350`): the book then ages to `stale_after` before it is killed.
* **Maker.** The comment at `stand_down` says that zeroing the profile does nothing about resting levels; any
  profile write arms a flush (`Book`'s `QuoteWrite`), and the next swap finds nothing.
* **Maker.** Fills are drained before the vault is read, while comments there call a fill the fresher of the two.
* **Maker.** An inventory that flaps across `reshape` makes every pass a profile write, which returns before the
  reference heartbeat (`config.rs:607`); hence `Settled` in `RearmsAfterOutage`.
* **Registry.** `close_registry.rs:11-12` says that the program then holds no on-chain state; a fee vault that was not closed, or that was
  opened again, stays behind.
* **Market teardown.** `close_market.rs:14-16` says that each step's precondition is satisfied by the prior one. A vault
  created between the two treasury closings blocks the second and, because `force_withdraw_leader` needs both
  treasuries, itself, until somebody opens the closed one again; and `close_market` does not look at vaults at all.
* **Positions.** `vault_depositor.rs:56-58` gives `realized_yield + realized_price == realized_pnl` as an invariant. The three are clamped to
  `i64` one by one and no longer add up after one of them saturated; `SplitAddsUp`, checked and proved, is what holds.
* **Feeds.** `RpcPollSource::new` is documented to start from the present; without a cursor its first walk goes down
  the whole history.
* `docs/architecture.md:1695-1697` says the mark is zero at `CreateVault`; `create_vault.rs:224` sets `Q32_32_ONE`.
* `vault_depositor.rs:22-24` says that reusing a sector derives a fresh depositor address; the address is
  derived from the sector, so it is the same one. `NoOrphanPosition` is why that does no harm.
* `docs/architecture.md:661-664` says that the quote authority defaults to the leader; `create_vault.rs:120-123`
  refuses a zero one.

## 6. Abstractions

* **Prices** are quote atoms per `PriceScale` base atoms, with a `0` and an `Infinity` sentinel and the
  code's roundings down; significand and exponent are not modelled, nor bit patterns that encode no
  price. In `Market` a price matters only by being matchable or not.
* **Amounts** are small naturals. The widths that matter (the clamps of a position, the deadlines) are
  constants; `u64` sums that would overflow are errors in the code and disabled here.
* **Left out because nothing reads it back or no property tells it apart**: events and error codes,
  rent, creation fees, `entry_vps` and `opened_at`, a depositor's maximum amounts (failing one changes nothing),
  transfer fees of token extensions.
* **Token extensions** whose authority moves tokens out of a treasury by itself (a permanent delegate,
  `sweep_residual.rs:129-137`) are outside: `Solvent` is about what the program does.
* **Left out, with a hazard or a note of its own**: two quote writes in flight that land out of order
  (nothing in the code compares their dates, so the later to land wins by design).
* **Constants in place of setters**: the market-wide taker fee and the creation fee; in `Book` also the platform fee's
  ceiling, which `Registry` has. The per-swap fee still ranges over a set in `Market` (`TakerFees`).
* `isqrt_u128` and `mul_div_floor` are their results.
* **Maker**: prices, skew and their consensus are the tick's input, with the triggers they raise; fills and the
  inventory they imply are an imbalance in it; the daily re-arming of an unchanged profile, the launch-TVL baseline and
  telemetry are left out. One market of the process: the others share only its loop.
* **Indexer**: an endpoint that keeps the whole history and serves finalized blocks, so a slot appears at once; only
  fills among the events; one market's stats. The database is the sets of rows that its statements leave.

### Not modelled

* *Assembly entrypoint*: the quote writes in BPF assembly; a test compares them with the Rust kernels byte for byte, and what
  it could do wrong is in offsets and registers, below any state a model would have.
* *Fair value* and the strategy's prices: floating-point filters. Their control (regimes, weights) is driven by
  magnitudes that an abstraction to integers would have to invent.
* *Market data services*, the other venues' sources, stream, best-effort and damped sinks: mostly input and output; the run
  loop and the sink protocol they share is in `Indexer`.
* *Client SDKs*, *taker bot*, *TUI*, *frontend*, *decks*, infrastructure: stateless builders, a random
  order flow, presentation. The TUI is here by its one hazard: an admin reads a vault, then signs (`signed`).

These parts are most of the repository's lines (the TUI, fair value, telemetry, market data and the vendors'
parsers), and none of them holds protocol state; so the share of all lines that the modules stand for
stays small, while every instruction of the program and the off-chain state machines that act on
or follow the chain are covered.

## 7. The plan

Done: the slab, accounting, lifecycle, governance and teardown on top of it, positions,
the book, the swap and the quoter, the registry, the maker bot, the feed and the indexer, and the proofs of section 4.
Next, in this order:

* a second vault in the `book` run, as far as its state space allows (today the order across vaults is proved and not run);
* the daily re-arming of an unchanged profile and the fills' inventory in `Maker`, with the hazard below;
* the market-data supervisor and its session fence on top of the run loop of `Indexer`.

The hazard without a property: a maker cycle that trusts the drained fill over the vault it read.
