------------------------------- MODULE Maker -------------------------------
(***************************************************************************)
(* The maker bot (bots/maker-bot): one market's quoting loop against the   *)
(* chain, over process crashes, restarts, refused, ambiguous and late      *)
(* transactions, and missing prices.                                       *)
(*                                                                         *)
(* A cycle reads the vault, decides from the vault, the tick's prices and  *)
(* its own Context, and sends at most one transaction. The transaction     *)
(* lands in a step of its own, and the process hears of it in another, or  *)
(* of an error that does not tell whether it landed, or still will; so a   *)
(* crash, a freeze or time may come in between.                            *)
(* On the chain a vault can be matched when it is not frozen, its          *)
(* reference price is not zero and its profile offers some size: module    *)
(* Book shows why both quote writes take effect at the next swap.          *)
(*                                                                         *)
(* Left out: prices and skew (whether a trigger fires is part of the       *)
(* input), the daily re-arming of an unchanged profile, telemetry, fees,   *)
(* and the other markets of the process.                                   *)
(***************************************************************************)
EXTENDS Naturals, FiniteSets

CONSTANTS
    Modes,            \* the StrategyModes to consider: "active", "passive"
    Inputs,           \* for each, what the feeds and the inventory may say in a tick
    Heartbeat,        \* ref_heartbeat, in units of the model's clock
    StaleAfter,       \* invalidate.stale_after
    MaxSend,          \* the longest a send may take
    ReshapePct, FreezeSidePct, HaltPct, TvlFloorPct,
    MaxLate           \* kinds of given-up writes that may be in flight at once

ASSUME MakerAssumption ==
    /\ Heartbeat \in Nat /\ StaleAfter \in Nat /\ MaxSend \in Nat \ {0} /\ MaxLate \in Nat
    /\ Heartbeat <= StaleAfter
    /\ Modes \subseteq {"active", "passive"}
    /\ {ReshapePct, FreezeSidePct, HaltPct, TvlFloorPct} \subseteq 0..100
    /\ DOMAIN Inputs = Modes
    /\ \A m \in Modes : Inputs[m] \subseteq
            [price : {"stalled", "unfenced", "absent", "fair"},
             silent : BOOLEAN, alarm : BOOLEAN, degraded : BOOLEAN, moved : BOOLEAN,
             tvl : 0..100, imbalance : 0..100, accumulating : {"bid", "ask"}]

VARIABLES
    mode,       \* StrategyMode, fixed for a behaviour
    input,      \* what this tick's feeds and inventory say
    live,       \* the reference price on chain passes the matching gate
    landed_age, \* how long ago a live price landed
    profile,    \* the shape of the LiquidityProfile on chain
    frozen,     \* the admin froze the vault
    in_flight,  \* writes given up by their sender that may still land
    phase,      \* "down", "startup", "loop", "pull_kill", "pull_zero"
    write,      \* the transaction being sent, or "none"
    on_chain,   \* it has landed, and its sender does not know yet
    ctx,        \* the Context of the running process
    record,     \* age of the persisted quote state, or NoRecord
    failed      \* a send of the take-off failed

\* History, for the properties: which part of the quote on chain, "price" or
\* "profile", was put there by a write the running process was told had failed.
VARIABLE strays

chain == <<live, landed_age, profile, frozen>>
vars == <<mode, input, chain, in_flight, phase, write, on_chain, ctx, record, failed, strays>>

Sides == {"bid", "ask"}
Reshaped == [side \in Sides |-> IF side = "bid" THEN "bids shrunk" ELSE "asks shrunk"]
FrozenSide == [side \in Sides |-> IF side = "bid" THEN "no bids" ELSE "no asks"]
Shapes == {"standard", "zero"} \cup {Reshaped[s] : s \in Sides} \cup {FrozenSide[s] : s \in Sides}
Writes == Shapes \cup {"kill", "reference"}

PartOf(w) == IF w \in Shapes THEN "profile" ELSE "price"

\* Ages are counted up to the first value beyond every bound.
Horizon == StaleAfter + MaxSend + 1
Ages == 0..Horizon
Older(age) == IF age < Horizon THEN age + 1 ELSE age
NoRecord == Horizon + 1

Matchable == live /\ profile # "zero" /\ ~frozen

----------------------------------------------------------------------------
(***************************************************************************)
(* The decisions: pure functions of the tick.                              *)
(***************************************************************************)

\* A degraded composition halves every bound and the permitted drawdown.
Exceeds(x, pct) == (IF x.degraded THEN 2 * x.imbalance ELSE x.imbalance) > pct
TvlAtFloor(x) ==
    IF x.degraded THEN 2 * (100 - x.tvl) >= 100 - TvlFloorPct ELSE x.tvl <= TvlFloorPct

\* killswitch::evaluate. The lighter side accumulates the heavy leg.
Evaluate(x) ==
    CASE x.silent \/ x.alarm \/ TvlAtFloor(x) \/ Exceeds(x, HaltPct) -> "halt"
      [] Exceeds(x, FreezeSidePct) -> FrozenSide[x.accumulating]
      [] Exceeds(x, ReshapePct) -> Reshaped[x.accumulating]
      [] OTHER -> "standard"

\* triggers::cold_decision: a passive maker answers an imbalance with its reference.
\* An active one never reads in_band, which stays FALSE here.
InBand(x) == mode = "passive" /\ Evaluate(x) \notin {"halt", "standard"}
ColdAction(x) == IF InBand(x) THEN "standard" ELSE Evaluate(x)
Entered(x) == InBand(x) /\ ~ctx.in_band

HaltBeforePause(x) == x.price \in {"stalled", "unfenced"}
Halting(x) == HaltBeforePause(x) \/ (x.price = "fair" /\ Evaluate(x) = "halt")

NoAge == NoRecord
ShouldInvalidate(age) == live /\ (age = NoAge \/ age > StaleAfter)

\* invalidate_resting_book: once per episode.
KillDue(age) == ~ctx.invalidated /\ ShouldInvalidate(age)

\* The profile write this tick's cold path sends, if any.
ColdWrite(x) == IF ctx.kind = ColdAction(x) THEN "none" ELSE ColdAction(x)

\* should_set_reference; moved: the price or the skew left the last stamp's band.
ShouldSetReference(x) ==
    \/ ~ctx.last_set
    \/ x.moved
    \/ mode = "active" /\ ctx.since_set >= Heartbeat
    \/ mode = "passive" /\ (Entered(x) \/ ctx.recenter)

\* Mutant: the profile first.
StandDownProfileFirst ==
    CASE ctx.kind # "zero" -> "zero"
      [] ctx.kind = "zero" /\ KillDue(NoAge) -> "kill"
      [] OTHER -> "none"

\* stand_down: the kill stamp first, the zeroed profile once the stamp is down.
StandDown ==
    CASE KillDue(NoAge) -> "kill"
      [] ~KillDue(NoAge) /\ ctx.kind # "zero" -> "zero"
      [] OTHER -> "none"

\* Mutant: no bound on how long a price is held.
PauseHolds == "none"

\* Without a mid the reference is held until it is stale, for ever if passive.
Pause == IF mode = "active" /\ KillDue(ctx.since_set) THEN "kill" ELSE "none"

\* quote_market_inner: the transaction of one cycle.
Decision(x) ==
    CASE frozen -> "none"
      [] ~frozen /\ HaltBeforePause(x) -> StandDown
      [] ~frozen /\ x.price = "absent" -> Pause
      [] ~frozen /\ x.price = "fair" ->
            IF ColdAction(x) = "halt" THEN StandDown
            ELSE IF ColdWrite(x) # "none" THEN ColdWrite(x)
            ELSE IF ShouldSetReference(x) THEN "reference" ELSE "none"

----------------------------------------------------------------------------
(***************************************************************************)
(* The process.                                                            *)
(***************************************************************************)

NoContext == [last_set |-> FALSE, since_set |-> 0, invalidated |-> FALSE, kind |-> "unknown",
              in_band |-> FALSE, recenter |-> FALSE, elapsed |-> 0]

Init ==
    /\ mode \in Modes
    /\ input \in Inputs[mode]
    /\ live = FALSE /\ landed_age = 0 /\ profile = "zero" /\ frozen = FALSE
    /\ in_flight = {}
    /\ phase = "down" /\ write = "none" /\ on_chain = FALSE /\ ctx = NoContext
    /\ record = NoRecord
    /\ failed = FALSE
    /\ strays = {}

\* Mutant: a missing record is taken for an age.
StartUnchecked(recenter) ==
    /\ phase = "down"
    /\ mode = "active" => ~recenter
    /\ phase' = "startup"
    /\ ctx' = [NoContext EXCEPT !.since_set = record, !.recenter = recenter]
    /\ UNCHANGED <<mode, input, chain, in_flight, on_chain, write, record, failed, strays>>

\* Context::new: the age of the last stamp survives in the persisted record.
\* --recenter is read from the command line and has no effect in active mode.
Start(recenter) ==
    /\ phase = "down"
    /\ mode = "active" => ~recenter
    /\ phase' = "startup"
    /\ ctx' = [NoContext EXCEPT !.since_set = IF record = NoRecord THEN 0 ELSE record,
                                !.recenter = recenter]
    /\ UNCHANGED <<mode, input, chain, in_flight, on_chain, write, record, failed, strays>>

\* invalidate_stale_quotes: the read may fail, and a frozen vault is skipped.
SkipStartup ==
    /\ phase = "startup" /\ write = "none"
    /\ phase' = "loop"
    /\ UNCHANGED <<mode, input, chain, in_flight, on_chain, write, ctx, record, failed, strays>>

\* adopt_passive_book.
AdoptPassiveBook ==
    /\ phase = "startup" /\ write = "none" /\ mode = "passive" /\ ~frozen
    /\ phase' = "loop"
    /\ ctx' = [ctx EXCEPT !.last_set = live,
                          !.kind = IF profile = "standard" THEN "standard" ELSE @]
    /\ UNCHANGED <<mode, input, chain, in_flight, on_chain, write, record, failed, strays>>

CheckRestingBook ==
    /\ phase = "startup" /\ write = "none" /\ mode = "active" /\ ~frozen
    /\ phase' = "loop"
    /\ write' = IF KillDue(record) THEN "kill" ELSE "none"
    /\ UNCHANGED <<mode, input, chain, in_flight, on_chain, ctx, record, failed, strays>>

\* Mutant: the stamp is recorded before it is sent.
CycleRecordsFirst ==
    /\ phase = "loop" /\ write = "none"
    /\ write' = Decision(input)
    /\ record' = IF write' = "reference" THEN 0 ELSE record
    /\ UNCHANGED <<mode, input, chain, in_flight, on_chain, phase, ctx, failed, strays>>

\* One pass of the loop. A vault that cannot be read ends the pass at once.
Cycle ==
    /\ phase = "loop" /\ write = "none"
    /\ write' = Decision(input)
    /\ ctx' = IF ~frozen /\ input.price = "fair" /\ ~InBand(input)
              THEN [ctx EXCEPT !.in_band = FALSE] ELSE ctx
    /\ UNCHANGED <<mode, input, chain, in_flight, on_chain, phase, record, failed, strays>>

\* SIGINT or SIGTERM, seen between two passes: take_off, in one go.
Shutdown ==
    /\ phase = "loop" /\ write = "none"
    /\ phase' = "pull_kill"
    /\ write' = IF ctx.invalidated THEN "none" ELSE "kill"
    /\ UNCHANGED <<mode, input, chain, in_flight, on_chain, ctx, record, failed, strays>>

PullProfile ==
    /\ phase = "pull_kill" /\ write = "none"
    /\ phase' = "pull_zero"
    /\ write' = IF ctx.kind = "zero" THEN "none" ELSE "zero"
    /\ UNCHANGED <<mode, input, chain, in_flight, on_chain, ctx, record, failed, strays>>

Exit ==
    /\ phase = "pull_zero" /\ write = "none"
    /\ phase' = "down"
    /\ ctx' = NoContext
    /\ failed' = FALSE
    /\ strays' = {}
    /\ UNCHANGED <<mode, input, chain, in_flight, on_chain, write, record>>

----------------------------------------------------------------------------
(***************************************************************************)
(* A send.                                                                 *)
(***************************************************************************)

\* What a transaction does when it lands.
Landed(w) ==
    /\ live' = (w = "reference" \/ (live /\ w # "kill"))
    /\ landed_age' = IF w \in {"reference", "kill"} THEN 0 ELSE landed_age
    /\ profile' = IF w \in Shapes THEN w ELSE profile
    /\ UNCHANGED frozen

LandSent(w) ==
    /\ write = w /\ ~on_chain
    /\ Landed(w)
    /\ on_chain' = TRUE
    /\ strays' = strays \ {PartOf(w)}
    /\ UNCHANGED <<mode, input, in_flight, phase, write, ctx, record, failed>>

\* Mutant: the last stamp is still remembered.
KilledOnly == [ctx EXCEPT !.invalidated = TRUE, !.elapsed = 0]

\* send_kill_stamp clears the cadence state, so that the next mid re-arms at once.
Killed == [ctx EXCEPT !.invalidated = TRUE, !.last_set = FALSE, !.elapsed = 0]

\* Mutant: the dark episode is never over.
StampedStillDark ==
    [ctx EXCEPT !.last_set = TRUE, !.since_set = ctx.elapsed, !.recenter = FALSE,
                !.in_band = InBand(input), !.elapsed = 0]

\* A stamp consumes the triggers and ends a dark episode.
Stamped ==
    [ctx EXCEPT !.last_set = TRUE, !.since_set = ctx.elapsed, !.invalidated = FALSE,
                !.recenter = FALSE, !.in_band = InBand(input), !.elapsed = 0]

\* What the process notes once a send is confirmed.
Noted(w) ==
    CASE w = "kill" -> Killed
      [] w = "reference" -> Stamped
      [] w \in Shapes -> [ctx EXCEPT !.kind = w, !.elapsed = 0]

\* Only a live stamp is recorded, dated when the send returned; a record that
\* cannot be written is left as it was.
Recorded(w, r) == r = record \/ (w = "reference" /\ r = 0)

\* send_and_confirm_transaction returns.
Confirm(w) ==
    /\ write = w /\ on_chain
    /\ ctx' = Noted(w)
    /\ \E r \in {record, 0} : Recorded(w, r) /\ record' = r
    /\ write' = "none" /\ on_chain' = FALSE
    /\ UNCHANGED <<mode, input, chain, in_flight, phase, failed, strays>>

\* What becomes of a write whose sender no longer waits for it: it has landed,
\* never will, or still may. Bound: MaxLate kinds of write that still may.
GivenUp(w) ==
    \/ UNCHANGED in_flight
    \/ /\ ~on_chain /\ Cardinality(in_flight) < MaxLate
       /\ in_flight' = in_flight \cup {w}

\* Mutant: a take-off that could not send is not counted as failed.
SendFailsUncounted(w) ==
    /\ write = w
    /\ GivenUp(w)
    /\ strays' = IF on_chain THEN strays \cup {PartOf(w)} ELSE strays
    /\ write' = "none" /\ on_chain' = FALSE
    /\ ctx' = [ctx EXCEPT !.elapsed = 0]
    /\ UNCHANGED <<mode, input, chain, phase, record, failed>>

\* The send reports an error, whatever becomes of the transaction.
SendFails(w) ==
    /\ write = w
    /\ GivenUp(w)
    /\ strays' = IF on_chain THEN strays \cup {PartOf(w)} ELSE strays
    /\ write' = "none" /\ on_chain' = FALSE
    /\ failed' = (failed \/ phase \in {"pull_kill", "pull_zero"})
    /\ ctx' = [ctx EXCEPT !.elapsed = 0]
    /\ UNCHANGED <<mode, input, chain, phase, record>>

\* A process that has yet to read the chain is not misled by what it finds there.
LandLate(w) ==
    /\ w \in in_flight
    /\ Landed(w)
    /\ in_flight' = in_flight \ {w}
    /\ strays' = IF phase \in {"down", "startup"} THEN strays ELSE strays \cup {PartOf(w)}
    /\ UNCHANGED <<mode, input, phase, write, on_chain, ctx, record, failed>>

\* The blockhash of the transaction is too old.
Expire(w) ==
    /\ w \in in_flight
    /\ in_flight' = in_flight \ {w}
    /\ UNCHANGED <<mode, input, chain, phase, write, on_chain, ctx, record, failed, strays>>

\* The process dies, perhaps while it sends.
Crash ==
    /\ phase # "down"
    /\ phase' = "down"
    /\ IF write = "none" THEN UNCHANGED in_flight ELSE GivenUp(write)
    /\ write' = "none" /\ on_chain' = FALSE
    /\ ctx' = NoContext
    /\ failed' = FALSE
    /\ strays' = {}
    /\ UNCHANGED <<mode, input, chain, record>>

----------------------------------------------------------------------------
(***************************************************************************)
(* The rest of the world.                                                  *)
(***************************************************************************)

\* Bound: a send takes at most MaxSend units. Time is told to active makers only:
\* a passive one has no heartbeat and holds its price for ever, so it reads no age.
Tick ==
    /\ mode = "active" /\ ctx.elapsed < MaxSend
    /\ landed_age' = IF live THEN Older(landed_age) ELSE 0
    /\ record' = IF record = NoRecord THEN record ELSE Older(record)
    /\ ctx' = IF phase = "down" THEN ctx
              ELSE [ctx EXCEPT !.since_set = Older(@),
                               !.elapsed = IF write = "none" THEN 0 ELSE Older(@)]
    /\ UNCHANGED <<mode, input, live, profile, frozen, in_flight, phase, write, on_chain, failed,
                   strays>>

\* The record is deleted, corrupted, or dated in the future by a clock set back.
LoseRecord ==
    /\ record' = NoRecord
    /\ UNCHANGED <<mode, input, chain, in_flight, phase, write, on_chain, ctx, failed, strays>>

\* The feeds are drained once, at the top of a pass.
FeedsChange(x) ==
    /\ write = "none"
    /\ input' = x
    /\ UNCHANGED <<mode, chain, in_flight, phase, write, on_chain, ctx, record, failed, strays>>

FreezeVault ==
    /\ ~frozen
    /\ frozen' = TRUE
    /\ UNCHANGED <<mode, input, live, landed_age, profile, in_flight, phase, write, on_chain, ctx,
                   record, failed, strays>>

Send == \E w \in Writes : LandSent(w) \/ Confirm(w) \/ SendFails(w)

Next ==
    \/ \E recenter \in BOOLEAN : Start(recenter)
    \/ SkipStartup \/ AdoptPassiveBook \/ CheckRestingBook
    \/ Cycle
    \/ Shutdown \/ PullProfile \/ Exit
    \/ Send
    \/ \E w \in Writes : LandLate(w) \/ Expire(w)
    \/ Crash
    \/ Tick \/ LoseRecord
    \/ \E x \in Inputs[mode] : FeedsChange(x)
    \/ FreezeVault

Spec == Init /\ [][Next]_vars

(***************************************************************************)
(* Fairness: time passes, the loop and a send always go on, and a write    *)
(* that is tried again and again gets through at last, or another does in  *)
(* its place. Of the zeroed profile nothing is assumed. Nobody has to      *)
(* start or stop the process, and the feeds may say anything for ever.     *)
(***************************************************************************)
Fairness ==
    /\ WF_vars(Tick)
    /\ WF_vars(SkipStartup \/ AdoptPassiveBook \/ CheckRestingBook)
    /\ WF_vars(Cycle)
    /\ WF_vars(Send)
    /\ SF_vars(\E w \in Writes \ {"zero"} : LandSent(w))
    /\ SF_vars(\E w \in Writes \ {"zero"} : Confirm(w))

FairSpec == Spec /\ Fairness

----------------------------------------------------------------------------
Contexts ==
    [last_set : BOOLEAN, since_set : Ages, invalidated : BOOLEAN,
     kind : Shapes \cup {"unknown"}, in_band : BOOLEAN, recenter : BOOLEAN, elapsed : Ages]

TypeOK ==
    /\ mode \in Modes /\ input \in Inputs[mode]
    /\ live \in BOOLEAN /\ landed_age \in Ages /\ profile \in Shapes /\ frozen \in BOOLEAN
    /\ in_flight \subseteq Writes
    /\ phase \in {"down", "startup", "loop", "pull_kill", "pull_zero"}
    /\ write \in Writes \cup {"none"} /\ on_chain \in BOOLEAN
    /\ ctx \in Contexts
    /\ record \in Ages \cup {NoRecord}
    /\ failed \in BOOLEAN
    /\ strays \subseteq {"price", "profile"}

\* A reference stamp reported as failed is what makes the book live.
Relit == live /\ "price" \in strays

\* A kill stamp or a zeroed profile reported as failed is what keeps it dark.
Darkened == (~live /\ "price" \in strays) \/ (profile = "zero" /\ "profile" \in strays)

(***************************************************************************)
(* The comment at invalidate_resting_book: the kill was confirmed, so the  *)
(* next read would show a dark price, and the flag only saves deciding it  *)
(* again. A pass that turns back at the flag would not kill without it.    *)
(***************************************************************************)
Consulted(x) ==
    CASE Halting(x) -> {NoAge}
      [] ~Halting(x) /\ x.price = "absent" /\ mode = "active" -> {ctx.since_set}
      [] OTHER -> {}
FlagMeansDark ==
    [][Cycle /\ ~frozen /\ ctx.invalidated =>
          \A age \in Consulted(input) : ~ShouldInvalidate(age)]_vars

(***************************************************************************)
(* What holds of the flag, through crashes, errors and late transactions:  *)
(* a killed book is live again under it only while the stamp that re-arms  *)
(* it waits for its confirmation, or by a stamp that was reported failed.  *)
(***************************************************************************)
FlagFailsOnlyIfRelit ==
    ctx.invalidated /\ live => Relit \/ (write = "reference" /\ on_chain)

(***************************************************************************)
(* A restart neither forgets nor renews the age of a book it finds: the    *)
(* startup pass of an active maker kills what has been live for longer     *)
(* than the bound, and what it leaves goes on ageing from its stamp, also  *)
(* when the pass could not read the vault. The record is dated when the    *)
(* send returned, so the bound is missed by no more than a send may take.  *)
(***************************************************************************)
RestartKeepsTheAge ==
    [][phase = "startup" /\ phase' = "loop" /\ mode = "active" /\ live /\ ~frozen =>
          /\ CheckRestingBook => write' = "kill" \/ landed_age <= StaleAfter + MaxSend
          /\ record # NoRecord => ctx'.since_set + MaxSend >= landed_age]_vars

(***************************************************************************)
(* A process that exits without reporting a failure has pulled its         *)
(* liquidity, whatever it believed of the book when the signal came, and   *)
(* although earlier writes may still land: it pulls the price and the      *)
(* profile, and it takes a stray write to each of them to undo both.       *)
(***************************************************************************)
CleanExitIsDark ==
    [][Exit /\ ~failed /\ Matchable' => Relit /\ "profile" \in strays]_vars

Running == phase = "loop" /\ ~frozen

(***************************************************************************)
(* A halt takes the book dark for good, although no profile write may ever *)
(* get through: stand_down sends the kill stamp first. Only a stamp that   *)
(* was reported failed may undo it.                                        *)
(***************************************************************************)
HaltGoesDark == <>[](Running /\ Halting(input) /\ ~Relit) => <>[]~Matchable

(***************************************************************************)
(* An active maker that has no price does not leave its last one matchable *)
(* for ever: the pause path takes the book dark once it is stale, unless a *)
(* stamp that was reported failed has lit it.                              *)
(***************************************************************************)
StaleBookGoesDark ==
    <>[](Running /\ mode = "active" /\ input.price = "absent" /\ ~Relit) => <>[]~Matchable

(***************************************************************************)
(* Once prices are back, nothing is alarming and the verdict on the        *)
(* inventory no longer changes, the market quotes again and goes on doing  *)
(* so, in either mode and after any dark episode: no memory of the stamps  *)
(* before it keeps the vault dark, only a write that was reported failed.  *)
(***************************************************************************)
Quoting(x) == x.price = "fair" /\ Evaluate(x) # "halt"
Settled == <>[][input' = input]_vars
RearmsAfterOutage ==
    Settled /\ <>[](Running /\ Quoting(input) /\ ~Darkened) => <>[]Matchable
=============================================================================
