---------------------------- MODULE MCTwoHopSwap ----------------------------
(***************************************************************************)
(* Two pools that share the mint "m": x/m and m/y, each with a position    *)
(* around the price that both begin with, and trades from x to y and back. *)
(* Prices and ticks are those of MCClmmPool.                               *)
(***************************************************************************)
EXTENDS TwoHopSwap

Sqrt == <<221, 232, 244, 256, 269, 282, 296>>
MCSqrtPrice == [t \in -3 .. 3 |-> Sqrt[t + 4]]
MCMinTick == -3

NoRewards == <<>>

ChainMints == [p \in Pool |-> IF p = 1 THEN [a |-> "x", b |-> "m"] ELSE [a |-> "m", b |-> "y"]]
Ranges == [p \in Pool |-> <<-2, 2>>]

Left(p, limit) ==
    [pool |-> p, a_to_b |-> TRUE, sqrt_price_limit |-> limit, arrays |-> <<0, -4>>]
Right(p, limit) ==
    [pool |-> p, a_to_b |-> FALSE, sqrt_price_limit |-> limit, arrays |-> <<0>>]
FromFarLeft(p, limit) == [Right(p, limit) EXCEPT !.arrays = <<-4, 0>>]

In(version, amount, threshold, hops) ==
    [version |-> version, hops |-> hops, amount |-> amount,
     amount_specified_is_input |-> TRUE, other_amount_threshold |-> threshold]
Out(version, amount, threshold, hops) ==
    [version |-> version, hops |-> hops, amount |-> amount,
     amount_specified_is_input |-> FALSE, other_amount_threshold |-> threshold]

\* From x to y and back, one hop or two; to the ends of the price range and to
\* limits that the first hop or the second meets; with thresholds that only some
\* meet; twice in the same pool, and over mints that do not fit.
TradesV2 ==
    {In(2, 30, 0, <<Left(1, 221)>>), Out(2, 9, 255, <<FromFarLeft(1, 296)>>),
     In(2, 12, 6, <<Left(1, 221), Left(2, 221)>>),
     In(2, 12, 0, <<Right(2, 296), Right(1, 260)>>),
     In(2, 20, 1, <<Right(2, 262), Right(1, 296)>>),
     Out(2, 8, 255, <<Left(1, 244), Left(2, 221)>>),
     Out(2, 12, 255, <<Left(1, 221), Left(2, 250)>>),
     Out(2, 6, 12, <<Right(2, 296), Right(1, 296)>>),
     In(2, 9, 0, <<Left(1, 221), Right(1, 296)>>),
     In(2, 9, 0, <<Left(1, 221), Right(2, 296)>>)}

TradesV1 ==
    {In(1, 12, 6, <<Left(1, 221), Left(2, 221)>>),
     In(1, 12, 0, <<Right(2, 296), Right(1, 260)>>),
     In(1, 20, 1, <<Right(2, 262), Right(1, 296)>>),
     Out(1, 8, 255, <<Left(1, 244), Left(2, 221)>>),
     Out(1, 20, 255, <<Left(1, 244), Left(2, 240)>>),
     Out(1, 12, 255, <<Left(1, 221), Left(2, 250)>>),
     Out(1, 6, 12, <<Right(2, 296), Right(1, 296)>>),
     In(1, 9, 0, <<Left(1, 221), Right(1, 296)>>)}

MCTrades == TradesV2 \cup TradesV1

MCToken2022Sets == {{}, {"m", "y"}}

Fee(basisPoints, maximum) ==
    [transfer_fee_basis_points |-> basisPoints, maximum_fee |-> maximum]

MCFees == {Fee(3, 127), Fee(10, 1)}

MCBudget == [liquidity |-> 3, trade |-> 2, collect |-> 1, transfer_fee |-> 2]

=============================================================================
