---------------------------- MODULE MakerProofs ----------------------------
(***************************************************************************)
(* Proofs about Maker, for every set of inputs, every bound, both modes,   *)
(* and any number of transactions whose sender gave up and that may still  *)
(* land, whatever they write.                                              *)
(***************************************************************************)
EXTENDS Maker, TLAPS

LEMMA AgeFacts ==
    /\ Horizon \in Nat /\ NoRecord \in Nat /\ NoRecord \notin Ages /\ 0 \in Ages
    /\ MaxSend \in Nat /\ StaleAfter \in Nat /\ StaleAfter + MaxSend < Horizon
    /\ \A a \in Ages : Older(a) \in Ages /\ Older(a) <= a + 1
    /\ \A a, b \in Ages : a + MaxSend >= b => Older(a) + MaxSend >= Older(b)
    /\ \A a, b \in Ages : a < MaxSend /\ b <= a => Older(b) <= Older(a) /\ Older(a) <= MaxSend
    BY MakerAssumption DEF Horizon, NoRecord, Ages, Older

LEMMA WriteFacts ==
    /\ "none" \notin Writes /\ "unknown" \notin Shapes /\ {"zero", "standard"} \subseteq Shapes
    /\ Writes = Shapes \cup {"kill", "reference"}
    /\ "kill" \notin Shapes /\ "reference" \notin Shapes
    BY DEF Writes, Shapes, Reshaped, FrozenSide, Sides

\* The decisions are writes.
LEMMA EvaluateType ==
    ASSUME NEW m \in Modes, NEW x \in Inputs[m]
    PROVE  Evaluate(x) \in Shapes \cup {"halt"}
<1>1. x.accumulating \in Sides
    BY MakerAssumption DEF Sides
<1> QED
    BY <1>1 DEF Evaluate, Shapes, Reshaped, FrozenSide, Sides

LEMMA DecisionType ==
    ASSUME NEW m \in Modes, NEW x \in Inputs[m], frozen \in BOOLEAN
    PROVE  Decision(x) \in Writes \cup {"none"}
<1>1. ColdAction(x) \in Shapes \cup {"halt"}
    BY EvaluateType DEF ColdAction, Shapes
<1>2. StandDown \in Writes \cup {"none"} /\ Pause \in Writes \cup {"none"}
    BY WriteFacts DEF StandDown, Pause
<1>3. x.price \in {"stalled", "unfenced", "absent", "fair"}
    BY MakerAssumption
<1> QED
    BY <1>1, <1>2, <1>3, WriteFacts DEF Decision, ColdWrite, HaltBeforePause

\* What a landed write and a confirmed one leave.
LEMMA LandedType ==
    ASSUME TypeOK, NEW w \in Writes, Landed(w)
    PROVE  /\ live' \in BOOLEAN /\ landed_age' \in Ages /\ profile' \in Shapes
           /\ frozen' \in BOOLEAN
    BY AgeFacts DEF TypeOK, Landed

LEMMA NotedType ==
    ASSUME TypeOK, NEW w \in Writes
    PROVE  /\ Noted(w) \in Contexts
           /\ Noted(w).invalidated = (w = "kill" \/ (w # "reference" /\ ctx.invalidated))
           /\ Noted(w).kind = IF w \in Shapes THEN w ELSE ctx.kind
           /\ Noted(w).elapsed = 0
<1>1. CASE w = "kill"
    <2>1. Noted(w) = Killed
        BY WriteFacts, <1>1 DEF Noted
    <2> QED
        BY <2>1, <1>1, AgeFacts, WriteFacts DEF Killed, TypeOK, Contexts
<1>2. CASE w = "reference"
    <2>1. Noted(w) = Stamped
        BY WriteFacts, <1>2 DEF Noted
    <2>2. InBand(input) \in BOOLEAN
        BY DEF InBand
    <2> QED
        BY <2>1, <2>2, <1>2, AgeFacts, WriteFacts DEF Stamped, TypeOK, Contexts
<1>3. CASE w \in Shapes
    <2>1. Noted(w) = [ctx EXCEPT !.kind = w, !.elapsed = 0]
        BY WriteFacts, <1>3 DEF Noted
    <2> QED
        BY <2>1, <1>3, AgeFacts, WriteFacts DEF TypeOK, Contexts
<1> QED
    BY <1>1, <1>2, <1>3, WriteFacts

LEMMA NoContextType ==
    /\ NoContext \in Contexts
    /\ ~NoContext.invalidated /\ NoContext.kind = "unknown" /\ NoContext.elapsed = 0
    BY AgeFacts DEF NoContext, Contexts

(***************************************************************************)
(* What no step breaks. The record, and during the startup pass the clock  *)
(* seeded from it, are younger than the price on chain by no more than a   *)
(* send takes, because a stamp that has landed is never older than its     *)
(* send. What the process believes of the book, and what it is about to    *)
(* hear, is true of the chain but for the writes that were reported        *)
(* failed. And a take-off with no failure has got as far as its phase says.*)
(***************************************************************************)
RecordInv ==
    /\ live /\ record # NoRecord => record + MaxSend >= landed_age
    /\ ctx.elapsed <= MaxSend
    /\ on_chain /\ write = "reference" => landed_age <= ctx.elapsed

LandedInv ==
    on_chain =>
        /\ write # "none"
        /\ write = "kill" /\ live => "price" \in strays
        /\ write = "zero" /\ profile # "zero" => "profile" \in strays

ZeroInv ==
    ctx.kind = "zero" /\ profile # "zero" =>
        "profile" \in strays \/ (on_chain /\ write \in Shapes)

DownInv == phase = "down" => write = "none" /\ ctx = NoContext

StartupInv ==
    phase = "startup" =>
        /\ write = "none"
        /\ ~ctx.invalidated /\ ctx.kind = "unknown"
        /\ live /\ record # NoRecord => ctx.since_set + MaxSend >= landed_age

TakeOffInv ==
    /\ phase = "pull_kill" =>
          write \in {"none", "kill"} /\ (write = "none" /\ ~failed => ctx.invalidated)
    /\ phase = "pull_zero" =>
          /\ write \in {"none", "zero"}
          /\ ~failed => ctx.invalidated
          /\ write = "none" /\ ~failed => ctx.kind = "zero"

MakerInv ==
    /\ TypeOK
    /\ FlagFailsOnlyIfRelit
    /\ RecordInv
    /\ LandedInv
    /\ ZeroInv
    /\ DownInv
    /\ StartupInv
    /\ TakeOffInv

LEMMA MakerInit == Init => MakerInv
<1> SUFFICES ASSUME Init PROVE MakerInv
    OBVIOUS
<1>1. TypeOK
    BY AgeFacts, WriteFacts, NoContextType DEF Init, TypeOK
<1> QED
    BY <1>1, AgeFacts, NoContextType
    DEF Init, MakerInv, FlagFailsOnlyIfRelit, RecordInv, LandedInv, ZeroInv, DownInv, StartupInv,
        TakeOffInv

LEMMA LandSentKeeps ==
    ASSUME MakerInv, NEW w \in Writes, LandSent(w)
    PROVE  MakerInv'
<1>1. /\ write = w /\ ~on_chain /\ on_chain' = TRUE /\ strays' = strays \ {PartOf(w)}
      /\ live' = (w = "reference" \/ (live /\ w # "kill"))
      /\ landed_age' = (IF w \in {"reference", "kill"} THEN 0 ELSE landed_age)
      /\ profile' = (IF w \in Shapes THEN w ELSE profile)
      /\ UNCHANGED <<mode, input, in_flight, phase, write, ctx, record, failed>>
    BY DEF LandSent, Landed
<1>2. TypeOK'
    BY <1>1, LandedType DEF LandSent, MakerInv, TypeOK
<1>3. w # "none" /\ phase # "down" /\ phase # "startup"
    BY <1>1, WriteFacts DEF MakerInv, DownInv, StartupInv
<1>4. FlagFailsOnlyIfRelit'
    BY <1>1, WriteFacts DEF MakerInv, FlagFailsOnlyIfRelit, Relit, PartOf
<1>5. RecordInv'
    <2>1. ctx.elapsed \in Nat /\ (record # NoRecord => record \in Nat)
        BY AgeFacts DEF MakerInv, TypeOK, Contexts, Ages
    <2>2. landed_age' = 0 \/ (landed_age' = landed_age /\ (live' => live))
        BY <1>1
    <2>3. live' /\ record # NoRecord => record + MaxSend >= landed_age'
        BY <2>1, <2>2, AgeFacts DEF MakerInv, RecordInv
    <2>4. write = "reference" => landed_age' <= ctx.elapsed
        BY <1>1, <2>1
    <2> QED
        BY <1>1, <2>3, <2>4 DEF MakerInv, RecordInv
<1>6. LandedInv' /\ ZeroInv'
    BY <1>1, <1>3, WriteFacts DEF MakerInv, LandedInv, ZeroInv, PartOf
<1> QED
    BY <1>1, <1>2, <1>3, <1>4, <1>5, <1>6 DEF MakerInv, DownInv, StartupInv, TakeOffInv

LEMMA ConfirmKeeps ==
    ASSUME MakerInv, NEW w \in Writes, Confirm(w)
    PROVE  MakerInv'
<1> DEFINE noted == Noted(w)
<1>1. /\ ctx' = noted /\ write = w /\ on_chain /\ write' = "none" /\ on_chain' = FALSE
      /\ record' = record \/ (w = "reference" /\ record' = 0)
      /\ UNCHANGED <<mode, input, live, landed_age, profile, frozen, in_flight, phase, failed,
                     strays>>
    BY DEF Confirm, Recorded, chain
<1>2. /\ noted \in Contexts /\ noted.elapsed = 0
      /\ noted.invalidated = (w = "kill" \/ (w # "reference" /\ ctx.invalidated))
      /\ noted.kind = IF w \in Shapes THEN w ELSE ctx.kind
    BY NotedType DEF MakerInv
<1> HIDE DEF noted
<1>3. TypeOK'
    BY <1>1, <1>2, AgeFacts DEF MakerInv, TypeOK
<1>4. w # "none" /\ phase # "down" /\ phase # "startup"
    BY <1>1, WriteFacts DEF MakerInv, DownInv, StartupInv
<1>5. FlagFailsOnlyIfRelit'
    BY <1>1, <1>2 DEF MakerInv, FlagFailsOnlyIfRelit, Relit, LandedInv
<1>6. RecordInv'
    <2>1. w = "reference" => landed_age <= MaxSend
        BY <1>1, AgeFacts DEF MakerInv, RecordInv, TypeOK, Contexts, Ages
    <2> QED
        BY <1>1, <1>2, <2>1, AgeFacts DEF MakerInv, RecordInv
<1>7. ZeroInv'
    BY <1>1, <1>2, WriteFacts DEF MakerInv, ZeroInv, LandedInv
<1>8. TakeOffInv'
    BY <1>1, <1>2, <1>4, WriteFacts DEF MakerInv, TakeOffInv
<1> QED
    BY <1>1, <1>3, <1>4, <1>5, <1>6, <1>7, <1>8 DEF MakerInv, LandedInv, DownInv, StartupInv

LEMMA SendFailsKeeps ==
    ASSUME MakerInv, NEW w \in Writes, SendFails(w)
    PROVE  MakerInv'
<1>1. /\ ctx' = [ctx EXCEPT !.elapsed = 0] /\ write = w /\ write' = "none" /\ on_chain' = FALSE
      /\ failed' = (failed \/ phase \in {"pull_kill", "pull_zero"})
      /\ strays' = (IF on_chain THEN strays \cup {PartOf(w)} ELSE strays)
      /\ UNCHANGED <<mode, input, live, landed_age, profile, frozen, phase, record>>
    BY DEF SendFails, chain
<1>2. in_flight' \subseteq Writes
    BY DEF SendFails, GivenUp, MakerInv, TypeOK
<1>3. /\ ctx' \in Contexts /\ ctx'.elapsed = 0
      /\ ctx'.invalidated = ctx.invalidated /\ ctx'.kind = ctx.kind
    BY <1>1, AgeFacts DEF MakerInv, TypeOK, Contexts
<1>4. w # "none" /\ phase # "down" /\ phase # "startup"
    BY <1>1, WriteFacts DEF MakerInv, DownInv, StartupInv
<1>5. PartOf(w) \in {"price", "profile"}
    BY DEF PartOf
<1>6. TypeOK'
    BY <1>1, <1>2, <1>3, <1>5 DEF MakerInv, TypeOK
<1>7. FlagFailsOnlyIfRelit'
    BY <1>1, <1>3, WriteFacts DEF MakerInv, FlagFailsOnlyIfRelit, Relit, PartOf
<1>8. RecordInv'
    BY <1>1, <1>3, AgeFacts DEF MakerInv, RecordInv
<1>9. ZeroInv'
    BY <1>1, <1>3, WriteFacts DEF MakerInv, ZeroInv, PartOf
<1>10. TakeOffInv'
    BY <1>1, <1>3, <1>4 DEF MakerInv, TakeOffInv
<1> QED
    BY <1>1, <1>4, <1>6, <1>7, <1>8, <1>9, <1>10 DEF MakerInv, LandedInv, DownInv, StartupInv

LEMMA LandLateKeeps ==
    ASSUME MakerInv, NEW w \in Writes, LandLate(w)
    PROVE  MakerInv'
<1> DEFINE early == phase \in {"down", "startup"}
<1>1. /\ strays' = (IF early THEN strays ELSE strays \cup {PartOf(w)})
      /\ in_flight' = in_flight \ {w}
      /\ live' = (w = "reference" \/ (live /\ w # "kill"))
      /\ landed_age' = (IF w \in {"reference", "kill"} THEN 0 ELSE landed_age)
      /\ profile' = (IF w \in Shapes THEN w ELSE profile)
      /\ UNCHANGED <<mode, input, phase, write, on_chain, ctx, record, failed>>
    BY DEF LandLate, Landed
<1>2. PartOf(w) \in {"price", "profile"}
    BY DEF PartOf
<1>3. TypeOK'
    BY <1>1, <1>2, LandedType DEF LandLate, MakerInv, TypeOK
<1>4. early => ~ctx.invalidated /\ ctx.kind = "unknown" /\ write = "none" /\ ~on_chain
    BY NoContextType DEF MakerInv, DownInv, StartupInv, LandedInv
<1>5. FlagFailsOnlyIfRelit'
    BY <1>1, <1>4, WriteFacts DEF MakerInv, FlagFailsOnlyIfRelit, Relit, PartOf
<1>6. RecordInv' /\ StartupInv'
    <2>1. /\ ctx.elapsed \in Nat /\ ctx.since_set \in Nat
          /\ record # NoRecord => record \in Nat
        BY AgeFacts DEF MakerInv, TypeOK, Contexts, Ages
    <2>2. landed_age' = 0 \/ (landed_age' = landed_age /\ (live' => live))
        BY <1>1
    <2>3. live' /\ record # NoRecord => record + MaxSend >= landed_age'
        BY <2>1, <2>2, AgeFacts DEF MakerInv, RecordInv
    <2>4. on_chain /\ write = "reference" => landed_age' <= ctx.elapsed
        BY <2>1, <2>2 DEF MakerInv, RecordInv
    <2>5. phase = "startup" /\ live' /\ record # NoRecord
              => ctx.since_set + MaxSend >= landed_age'
        BY <2>1, <2>2, AgeFacts DEF MakerInv, StartupInv
    <2> QED
        BY <1>1, <2>3, <2>4, <2>5 DEF MakerInv, RecordInv, StartupInv
<1>7. LandedInv'
    BY <1>1, <1>4, WriteFacts DEF MakerInv, LandedInv, PartOf
<1>8. ZeroInv'
    BY <1>1, <1>4, WriteFacts DEF MakerInv, ZeroInv, PartOf
<1> QED
    BY <1>1, <1>3, <1>5, <1>6, <1>7, <1>8 DEF MakerInv, DownInv, TakeOffInv

LEMMA CrashKeeps ==
    ASSUME MakerInv, Crash
    PROVE  MakerInv'
<1>1. /\ ctx' = NoContext /\ phase' = "down" /\ write' = "none" /\ on_chain' = FALSE
      /\ failed' = FALSE /\ strays' = {}
      /\ UNCHANGED <<mode, input, live, landed_age, profile, frozen, record>>
    BY DEF Crash, chain
<1>2. in_flight' \subseteq Writes
    BY DEF Crash, GivenUp, MakerInv, TypeOK
<1>3. TypeOK'
    BY <1>1, <1>2, NoContextType DEF MakerInv, TypeOK
<1> QED
    BY <1>1, <1>3, NoContextType, AgeFacts
    DEF MakerInv, FlagFailsOnlyIfRelit, RecordInv, LandedInv, ZeroInv, DownInv, StartupInv,
        TakeOffInv

LEMMA TickKeeps ==
    ASSUME MakerInv, Tick
    PROVE  MakerInv'
<1> DEFINE since == ctx.since_set
           sent == ctx.elapsed
<1>1. /\ landed_age' = (IF live THEN Older(landed_age) ELSE 0)
      /\ record' = (IF record = NoRecord THEN record ELSE Older(record))
      /\ ctx' = (IF phase = "down" THEN ctx
                 ELSE [ctx EXCEPT !.since_set = Older(since),
                                  !.elapsed = IF write = "none" THEN 0 ELSE Older(sent)])
      /\ sent < MaxSend
      /\ UNCHANGED <<mode, input, live, profile, frozen, in_flight, phase, write, on_chain, failed,
                     strays>>
    BY DEF Tick
<1>2. /\ landed_age \in Ages /\ since \in Ages /\ sent \in Ages
      /\ record # NoRecord => record \in Ages
    BY DEF MakerInv, TypeOK, Contexts
<1>3. /\ ctx' \in Contexts
      /\ ctx'.invalidated = ctx.invalidated /\ ctx'.kind = ctx.kind
      /\ phase # "down" => /\ ctx'.since_set = Older(since)
                           /\ ctx'.elapsed = IF write = "none" THEN 0 ELSE Older(sent)
    BY <1>1, <1>2, AgeFacts DEF MakerInv, TypeOK, Contexts
<1>4. phase = "down" => ctx' = NoContext /\ sent = 0
    BY <1>1, NoContextType DEF MakerInv, DownInv
<1> HIDE DEF since, sent
<1>5. TypeOK'
    BY <1>1, <1>2, <1>3, AgeFacts DEF MakerInv, TypeOK
<1>6. landed_age' \in {0, Older(landed_age)} /\ (live => landed_age' = Older(landed_age))
    BY <1>1
<1>7. RecordInv'
    <2>1. live /\ record' # NoRecord => record' + MaxSend >= landed_age'
        BY <1>1, <1>2, <1>6, AgeFacts DEF MakerInv, RecordInv
    <2>2. ctx'.elapsed <= MaxSend
        BY <1>1, <1>2, <1>3, <1>4, NoContextType, AgeFacts DEF Ages
    <2>3. on_chain /\ write = "reference" => landed_age' <= ctx'.elapsed
        <3> SUFFICES ASSUME on_chain, write = "reference" PROVE landed_age' <= ctx'.elapsed
            OBVIOUS
        <3>1. landed_age <= sent
            BY DEF MakerInv, RecordInv, sent
        <3>2. ctx'.elapsed = Older(sent)
            BY <1>3 DEF MakerInv, DownInv
        <3>3. Older(landed_age) <= Older(sent) /\ Older(sent) \in Nat
            BY <1>1, <1>2, <3>1, AgeFacts DEF Ages
        <3> QED
            BY <1>6, <3>2, <3>3
    <2> QED
        BY <1>1, <2>1, <2>2, <2>3 DEF RecordInv
<1>8. StartupInv'
    <2>1. phase = "startup" /\ live /\ record # NoRecord => since + MaxSend >= landed_age
        BY DEF MakerInv, StartupInv, since
    <2>2. phase = "startup" /\ live /\ record # NoRecord
              => Older(since) + MaxSend >= Older(landed_age)
        BY <1>2, <2>1, AgeFacts
    <2>3. record' # NoRecord => record # NoRecord
        BY <1>1
    <2> QED
        BY <1>1, <1>3, <1>6, <2>2, <2>3 DEF MakerInv, StartupInv
<1>9. FlagFailsOnlyIfRelit' /\ LandedInv' /\ ZeroInv' /\ TakeOffInv'
    BY <1>1, <1>3 DEF MakerInv, FlagFailsOnlyIfRelit, Relit, LandedInv, ZeroInv, TakeOffInv
<1> QED
    BY <1>1, <1>4, <1>5, <1>7, <1>8, <1>9 DEF MakerInv, DownInv

LEMMA StartKeeps ==
    ASSUME MakerInv, NEW recenter \in BOOLEAN, Start(recenter)
    PROVE  MakerInv'
<1> DEFINE since == IF record = NoRecord THEN 0 ELSE record
<1>1. /\ ctx' = [NoContext EXCEPT !.since_set = since, !.recenter = recenter]
      /\ phase = "down" /\ phase' = "startup"
      /\ UNCHANGED <<mode, input, live, landed_age, profile, frozen, in_flight, write, on_chain,
                     record, failed, strays>>
    BY DEF Start, chain
<1>2. since \in Ages
    BY AgeFacts DEF MakerInv, TypeOK
<1>3. /\ ctx' \in Contexts /\ ~ctx'.invalidated /\ ctx'.kind = "unknown"
      /\ ctx'.elapsed = 0 /\ ctx'.since_set = since
    BY <1>1, <1>2, NoContextType, AgeFacts DEF NoContext, Contexts
<1>4. TypeOK'
    BY <1>1, <1>3 DEF MakerInv, TypeOK
<1>5. write = "none" /\ ~on_chain
    BY <1>1 DEF MakerInv, DownInv, LandedInv
<1>6. RecordInv'
    BY <1>1, <1>3, <1>5, AgeFacts DEF MakerInv, RecordInv
<1>7. StartupInv'
    BY <1>1, <1>3, <1>5 DEF MakerInv, RecordInv, StartupInv
<1> QED
    BY <1>1, <1>3, <1>4, <1>5, <1>6, <1>7
    DEF MakerInv, FlagFailsOnlyIfRelit, LandedInv, ZeroInv, DownInv, TakeOffInv

\* The steps of the loop itself, which only choose what to send next.
LEMMA StepKeeps ==
    ASSUME MakerInv,
           SkipStartup \/ AdoptPassiveBook \/ CheckRestingBook \/ Cycle \/ Shutdown
               \/ PullProfile \/ Exit
    PROVE  MakerInv'
<1>1. /\ UNCHANGED <<mode, input, live, landed_age, profile, frozen, in_flight, on_chain, record>>
      /\ write = "none"
    BY DEF SkipStartup, AdoptPassiveBook, CheckRestingBook, Cycle, Shutdown, PullProfile, Exit, chain
<1>2. ~on_chain
    BY <1>1 DEF MakerInv, LandedInv
<1>3. write' \in Writes \cup {"none"}
    <2>1. {"kill", "zero", "none"} \subseteq Writes \cup {"none"}
        BY WriteFacts
    <2>2. Decision(input) \in Writes \cup {"none"}
        BY DecisionType DEF MakerInv, TypeOK
    <2> QED
        BY <1>1, <2>1, <2>2
        DEF SkipStartup, AdoptPassiveBook, CheckRestingBook, Cycle, Shutdown, PullProfile, Exit
<1>4. /\ ctx' \in Contexts
      /\ ctx' = NoContext \/ /\ ctx'.elapsed = ctx.elapsed
                             /\ ctx'.invalidated = ctx.invalidated
                             /\ ctx'.kind = "zero" => ctx.kind = "zero"
    <2>1. CASE UNCHANGED ctx
        BY <2>1 DEF MakerInv, TypeOK
    <2>2. CASE ctx' = NoContext
        BY <2>2, NoContextType
    <2>3. CASE AdoptPassiveBook
        BY <2>3, WriteFacts DEF AdoptPassiveBook, MakerInv, TypeOK, Contexts
    <2>4. CASE Cycle
        BY <2>4 DEF Cycle, MakerInv, TypeOK, Contexts
    <2> QED
        BY <2>1, <2>2, <2>3, <2>4
        DEF SkipStartup, CheckRestingBook, Shutdown, PullProfile, Exit
<1>5. strays' = strays \/ (Exit /\ strays' = {} /\ ctx' = NoContext)
    BY DEF SkipStartup, AdoptPassiveBook, CheckRestingBook, Cycle, Shutdown, PullProfile, Exit
<1>6. TypeOK'
    BY <1>1, <1>3, <1>4, <1>5
    DEF MakerInv, TypeOK, SkipStartup, AdoptPassiveBook, CheckRestingBook, Cycle, Shutdown,
        PullProfile, Exit
<1>7. phase' # "startup" /\ DownInv'
    BY <1>1
    DEF SkipStartup, AdoptPassiveBook, CheckRestingBook, Cycle, Shutdown, PullProfile, Exit, DownInv
<1>8. TakeOffInv'
    BY <1>1
    DEF MakerInv, TakeOffInv, SkipStartup, AdoptPassiveBook, CheckRestingBook, Cycle, Shutdown,
        PullProfile, Exit
<1>9. FlagFailsOnlyIfRelit' /\ LandedInv' /\ ZeroInv' /\ RecordInv'
    BY <1>1, <1>2, <1>4, <1>5, NoContextType, AgeFacts
    DEF MakerInv, FlagFailsOnlyIfRelit, Relit, LandedInv, ZeroInv, RecordInv
<1> QED
    BY <1>6, <1>7, <1>8, <1>9 DEF MakerInv, StartupInv

LEMMA WorldKeeps ==
    ASSUME MakerInv,
           LoseRecord \/ FreezeVault \/ (\E x \in Inputs[mode] : FeedsChange(x))
               \/ (\E w \in Writes : Expire(w)) \/ UNCHANGED vars
    PROVE  MakerInv'
<1>1. /\ UNCHANGED <<mode, live, landed_age, profile, phase, write, on_chain, ctx, failed, strays>>
      /\ record' = record \/ record' = NoRecord
      /\ input' \in Inputs[mode] /\ frozen' \in BOOLEAN /\ in_flight' \subseteq in_flight
    BY DEF LoseRecord, FreezeVault, FeedsChange, Expire, vars, chain, MakerInv, TypeOK
<1> QED
    BY <1>1
    DEF MakerInv, TypeOK, FlagFailsOnlyIfRelit, Relit, RecordInv, LandedInv, ZeroInv, DownInv,
        StartupInv, TakeOffInv

LEMMA MakerStep ==
    ASSUME MakerInv, [Next]_vars
    PROVE  MakerInv'
<1>1. ASSUME NEW recenter \in BOOLEAN, Start(recenter) PROVE MakerInv'
    BY <1>1, StartKeeps
<1>2. CASE SkipStartup \/ AdoptPassiveBook \/ CheckRestingBook \/ Cycle \/ Shutdown
               \/ PullProfile \/ Exit
    BY <1>2, StepKeeps
<1>3. ASSUME NEW w \in Writes, LandSent(w) PROVE MakerInv'
    BY <1>3, LandSentKeeps
<1>4. ASSUME NEW w \in Writes, Confirm(w) PROVE MakerInv'
    BY <1>4, ConfirmKeeps
<1>5. ASSUME NEW w \in Writes, SendFails(w) PROVE MakerInv'
    BY <1>5, SendFailsKeeps
<1>6. ASSUME NEW w \in Writes, LandLate(w) PROVE MakerInv'
    BY <1>6, LandLateKeeps
<1>7. CASE Crash
    BY <1>7, CrashKeeps
<1>8. CASE Tick
    BY <1>8, TickKeeps
<1>9. CASE LoseRecord \/ FreezeVault \/ (\E x \in Inputs[mode] : FeedsChange(x))
               \/ (\E w \in Writes : Expire(w)) \/ UNCHANGED vars
    BY <1>9, WorldKeeps
<1> QED
    BY <1>1, <1>2, <1>3, <1>4, <1>5, <1>6, <1>7, <1>8, <1>9 DEF Next, Send

(***************************************************************************)
(* The inductive invariant of the maker, for any inputs and bounds and     *)
(* however many transactions, of whatever kind, land late.                 *)
(***************************************************************************)
THEOREM MakerInductive == Spec => []MakerInv
<1>1. Init => MakerInv
    BY MakerInit
<1>2. MakerInv /\ [Next]_vars => MakerInv'
    BY MakerStep
<1> QED
    BY <1>1, <1>2, PTL DEF Spec

\* No field of the process or the chain leaves its type.
THEOREM MakerTypeCorrect == Spec => []TypeOK
<1>1. MakerInv => TypeOK
    BY DEF MakerInv
<1> QED
    BY <1>1, MakerInductive, PTL

(***************************************************************************)
(* The flag that stops the bot from killing a book twice is up over a live *)
(* price only until a landed stamp is confirmed, or because of a stamp     *)
(* that was reported failed.                                               *)
(***************************************************************************)
THEOREM MakerFlagFailsOnlyIfRelit == Spec => []FlagFailsOnlyIfRelit
<1>1. MakerInv => FlagFailsOnlyIfRelit
    BY DEF MakerInv
<1> QED
    BY <1>1, MakerInductive, PTL

(***************************************************************************)
(* However often the process crashes and whatever of the record is lost, a *)
(* startup pass that can read the vault leaves no book that has been live  *)
(* for longer than the bound and a send, and one that cannot goes on       *)
(* counting from the book's last recorded stamp.                           *)
(***************************************************************************)
THEOREM MakerRestartKeepsTheAge == Spec => RestartKeepsTheAge
<1> DEFINE step == phase = "startup" /\ phase' = "loop" /\ mode = "active" /\ live /\ ~frozen =>
                     /\ CheckRestingBook => write' = "kill" \/ landed_age <= StaleAfter + MaxSend
                     /\ record # NoRecord => ctx'.since_set + MaxSend >= landed_age
<1>1. MakerInv /\ [Next]_vars => [step]_vars
    <2> SUFFICES ASSUME MakerInv, Next, phase = "startup", phase' = "loop", mode = "active", live
                 PROVE  /\ CheckRestingBook => write' = "kill" \/ landed_age <= StaleAfter + MaxSend
                        /\ record # NoRecord => ctx'.since_set + MaxSend >= landed_age
        OBVIOUS
    <2>1. write = "none" /\ ~ctx.invalidated
        BY DEF MakerInv, StartupInv
    <2>2. SkipStartup \/ CheckRestingBook
        BY <2>1
        DEF Next, Start, AdoptPassiveBook, Cycle, Shutdown, PullProfile, Exit, Send, LandSent,
            Confirm, SendFails, LandLate, Expire, Crash, Tick, LoseRecord, FeedsChange, FreezeVault
    <2>3. ctx' = ctx
        BY <2>2 DEF SkipStartup, CheckRestingBook
    <2>4. ASSUME CheckRestingBook, landed_age > StaleAfter + MaxSend PROVE write' = "kill"
        <3>1. record = NoAge \/ record > StaleAfter
            BY <2>4, AgeFacts DEF MakerInv, RecordInv, NoAge, TypeOK, Ages
        <3> QED
            BY <2>1, <2>4, <3>1 DEF CheckRestingBook, KillDue, ShouldInvalidate
    <2>5. landed_age > StaleAfter + MaxSend \/ landed_age <= StaleAfter + MaxSend
        BY AgeFacts DEF MakerInv, TypeOK, Ages
    <2> QED
        BY <2>3, <2>4, <2>5 DEF MakerInv, StartupInv
<1> QED
    BY <1>1, MakerInductive, PTL DEF Spec, RestartKeepsTheAge

(***************************************************************************)
(* A process that exits without reporting a failure has left a dark book,  *)
(* unless writes reported failed have put back both its price and sizes.   *)
(***************************************************************************)
THEOREM MakerCleanExitIsDark == Spec => CleanExitIsDark
<1>1. ASSUME MakerInv, Exit, ~failed, Matchable'
      PROVE  Relit /\ "profile" \in strays
    <2>1. ctx.invalidated /\ ctx.kind = "zero" /\ write = "none"
        BY <1>1 DEF Exit, MakerInv, TakeOffInv
    <2>2. live /\ profile # "zero" /\ ~on_chain
        BY <1>1, <2>1 DEF Exit, Matchable, chain, MakerInv, LandedInv
    <2> QED
        BY <1>1, <2>1, <2>2 DEF MakerInv, FlagFailsOnlyIfRelit, ZeroInv
<1>2. MakerInv /\ [Next]_vars
          => [Exit /\ ~failed /\ Matchable' => Relit /\ "profile" \in strays]_vars
    BY <1>1
<1> QED
    BY <1>2, MakerInductive, PTL DEF Spec, CleanExitIsDark
=============================================================================
