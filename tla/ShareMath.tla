----------------------------- MODULE ShareMath -----------------------------
(***************************************************************************)
(* The pure share arithmetic of sdk/math-core/src/share.rs: what a deposit *)
(* mints, what a withdrawal pays, and the performance fee.  A basket maps  *)
(* each leg to its atoms.                                                  *)
(*                                                                         *)
(* The code's scales are parameters, so that rounding shows on amounts a   *)
(* model checker can enumerate.                                            *)
(***************************************************************************)
EXTENDS Integers

CONSTANTS
    PPM,               \* the code's parts per million: a rate r stands for r / PPM
    Q32,               \* the code's 2^32: the scale of the high-water mark
    U64Max             \* the largest share count (u64::MAX)

ASSUME ShareMathAssumption ==
    PPM \in Nat \ {0} /\ Q32 \in Nat \ {0} /\ U64Max \in Nat \ {0}

Legs == {"base", "quote"}

OtherLeg(leg) == IF leg = "base" THEN "quote" ELSE "base"

Lesser(a, b) == IF a <= b THEN a ELSE b
Greater(a, b) == IF a >= b THEN a ELSE b

CeilDiv(a, b) == (a + b - 1) \div b

\* The integer square root, by its result; the code descends to it by Newton's
\* iteration.
Isqrt(n) == CHOOSE r \in 0 .. n : r * r <= n /\ n < (r + 1) * (r + 1)

Liquidity(atoms) == Isqrt(atoms["base"] * atoms["quote"])

\* The shares a deposit of `in` atoms on one leg buys; zero is the ZeroShares
\* error, an empty leg the EmptyLeg error.
BasketShares(total, atoms, leg, in) ==
    IF atoms[leg] = 0 THEN 0 ELSE (in * total) \div atoms[leg]

\* Mutant: rounded down.
BasketInFloor(total, atoms, shares) == [leg \in Legs |-> (shares * atoms[leg]) \div total]

\* What the depositor pays on each leg for those shares: rounded up.
BasketIn(total, atoms, shares) == [leg \in Legs |-> CeilDiv(shares * atoms[leg], total)]

\* What burning shares pays out on each leg: rounded down.
ProRataSlice(shares_in, total, atoms) ==
    [leg \in Legs |-> IF total = 0 THEN 0 ELSE (shares_in * atoms[leg]) \div total]

MinLeaderShareOk(leader_after, total_after, min_leader_share) ==
    leader_after * PPM >= min_leader_share * total_after

\* The mark never moves down, and saturates.
RatchetHwm(vps, hwm) == Greater(Lesser(vps, U64Max), hwm)

\* The performance fee: shares minted to the leader for the value per share
\* above the high-water mark, and the mark after.
RealizePerfFee(atoms, total, leader, hwm, rate) ==
    LET l == Liquidity(atoms)
        f == Lesser(rate, PPM)
        vps == (l * Q32) \div total
        hwm_s == (hwm * total) \div Q32
        denom == (PPM - f) * l + f * hwm_s
        headroom == Lesser(U64Max - total, U64Max - leader)
        minted == IF l <= hwm_s \/ denom = 0 THEN 0
                  ELSE Lesser((f * total * (l - hwm_s)) \div denom, headroom)
    IN IF total = 0 \/ l = 0 \/ vps <= hwm
       THEN [minted |-> 0, hwm |-> hwm]
       ELSE IF minted = 0
       THEN [minted |-> 0, hwm |-> RatchetHwm(vps, hwm)]
       ELSE [minted |-> minted, hwm |-> RatchetHwm((l * Q32) \div (total + minted), hwm)]
=============================================================================
