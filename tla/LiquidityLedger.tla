--------------------------- MODULE LiquidityLedger ---------------------------
(***************************************************************************)
(* What a concentrated-liquidity pool promises about liquidity, without    *)
(* ticks, fees or a swap loop: positions hold liquidity over ranges, the   *)
(* pool is at a tick, and the liquidity in force is, after every           *)
(* transaction, that of the positions whose range holds the tick.          *)
(***************************************************************************)
EXTENDS Integers

CONSTANTS
    Position,
    Tick,           \* where the pool can be
    Sum(_)          \* the sum of an integer function on Position

VARIABLES
    range,          \* of each position, <<lower, upper>>; meaningless without liquidity
    liquidity,      \* of each position
    tick,
    active          \* the liquidity in force

ledger == <<range, liquidity, tick, active>>

\* The liquidity around a tick.
Covering(r, l, t) ==
    Sum([p \in Position |-> IF r[p][1] <= t /\ t < r[p][2] THEN l[p] ELSE 0])

Init ==
    /\ range = [p \in Position |-> <<0, 0>>]
    /\ liquidity = [p \in Position |-> 0]
    /\ tick \in Tick
    /\ active = 0

\* A position without liquidity is given a range, or loses it.
SetRange ==
    /\ \E p \in Position :
          /\ liquidity[p] = 0
          /\ \A q \in Position \ {p} : range'[q] = range[q]
    /\ DOMAIN range' = Position
    /\ UNCHANGED <<liquidity, tick, active>>

\* Liquidity joins or leaves one position, to the benefit of the pool if it is
\* at work.
Modify ==
    /\ \E p \in Position :
          /\ liquidity'[p] >= 0
          /\ \A q \in Position \ {p} : liquidity'[q] = liquidity[q]
    /\ DOMAIN liquidity' = Position
    /\ active' = Covering(range, liquidity', tick)
    /\ UNCHANGED <<range, tick>>

\* Trading moves the pool to any tick.
Trade ==
    /\ tick' \in Tick
    /\ active' = Covering(range, liquidity, tick')
    /\ UNCHANGED <<range, liquidity>>

Next == SetRange \/ Modify \/ Trade

Spec == Init /\ [][Next]_ledger

=============================================================================
