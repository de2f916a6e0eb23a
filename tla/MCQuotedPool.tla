---------------------------- MODULE MCQuotedPool ----------------------------
(***************************************************************************)
(* The pool of MCClmmPool with a client of the SDK, at prices further      *)
(* apart.  The liquidity of both positions, 256, is worth 44 b from 152 to *)
(* tick 2, at 196, with no fraction, and that of one, 128, is worth half   *)
(* of one b from the initial price, 147, to tick 0, at 148: the two cases  *)
(* in which the SDK rounds b differently.                                  *)
(***************************************************************************)
EXTENDS MCClmmPool, QuotedPool

QuotedSqrt == <<96, 112, 128, 148, 168, 196, 224>>
QuotedSqrtPrice == [t \in -3 .. 3 |-> QuotedSqrt[t + 4]]
BelowTickZero == {147}

QuotedRanges == {<<-2, 2>>, <<0, 2>>}

\* Others take the price up to 152, which is within the slippage, or down to the end of the
\* range of prices.
OthersSwaps == {Args(FALSE, TRUE, 40, 152, 0, <<0>>), LeftOut(200, 96)}

QuotedBudgets ==
    {[array |-> 2, open |-> 2, liquidity |-> 2, swap |-> 2, collect |-> 0,
      fee_rate |-> 0, reward |-> 0, time |-> 0]}

Percent(n) == [numerator |-> n, denominator |-> 100]
MCSlippages == {Percent(0), Percent(10)}

=============================================================================
