------------------------------ MODULE SdkTicks ------------------------------
(***************************************************************************)
(* Ticks and tick arrays as the SDK sees them: which arrays a swap will be *)
(* given, and the search of the SDK's own sequence of fetched arrays.  The *)
(* program keeps an index of the array it is in; the SDK computes it from  *)
(* the tick.  Names are those of the SDK.                                  *)
(*                                                                         *)
(* Math.floor of a quotient and the % after it are the floored division    *)
(* and modulus of TLA+, except where the SDK uses % alone: JsRem rounds    *)
(* towards zero.  The address of an array is its start tick.               *)
(***************************************************************************)
EXTENDS SwapTickSequence, SequencesExt

MAX_SWAP_TICK_ARRAYS == 3

JsRem(n, d) == IF n >= 0 THEN n % d ELSE -((-n) % d)

----------------------------------------------------------------------------
(* quotes/swap/tick-array-index.ts: a tick by its array and its place.     *)

fromTickIndex(index) ==
    [arrayIndex |-> (index \div TickSpacing) \div TICK_ARRAY_SIZE,
     offsetIndex |-> (index % TicksInArray) \div TickSpacing]

toTickIndex(i) == i.arrayIndex * TicksInArray + i.offsetIndex * TickSpacing

toNextInitializableTickIndex(i) == fromTickIndex(toTickIndex(i) + TickSpacing)
toPrevInitializableTickIndex(i) == fromTickIndex(toTickIndex(i) - TickSpacing)

----------------------------------------------------------------------------
(* utils/public/tick-utils.ts                                              *)

\* The start of the array that is offset arrays from the tick's; it throws when
\* that is not the start of any array of the range.
getStartTickIndex(tick, offset) == (tick \div TicksInArray + offset) * TicksInArray

HasStartTickIndex(tick, offset) ==
    getStartTickIndex(tick, offset) \in MinArrayStart .. MAX_TICK_INDEX

getInitializableTickIndex(tick) == tick - JsRem(tick, TickSpacing)
getNextInitializableTickIndex(tick) == getInitializableTickIndex(tick) + TickSpacing
getPrevInitializableTickIndex(tick) == getInitializableTickIndex(tick) - TickSpacing

isTickInitializable(tick) == JsRem(tick, TickSpacing) = 0
checkTickInBounds(tick) == tick <= MAX_TICK_INDEX /\ tick >= MIN_TICK_INDEX

getFullRangeTickIndex ==
    <<-((-MIN_TICK_INDEX) \div TickSpacing) * TickSpacing,
      (MAX_TICK_INDEX \div TickSpacing) * TickSpacing>>

isFullRange(lower, upper) == <<lower, upper>> = getFullRangeTickIndex

\* The ticks of a fetched array by their place in it; those beyond the range are
\* never initialized.
InitializedAt(ticks, start, inner) ==
    LET t == start + inner * TickSpacing
    IN  t \in UsableTick /\ ticks[t].initialized

NoTick == "null"

\* The nearest initialized tick of one array: to the right without the present
\* tick, to the left with it.
findInitializedTick(ticks, start, tick, increment) ==
    LET current == (tick - start) \div TickSpacing
        walk[i \in -1 .. TICK_ARRAY_SIZE] ==
            IF i \notin 0 .. TICK_ARRAY_SIZE - 1 THEN NoTick
            ELSE IF InitializedAt(ticks, start, i) THEN start + i * TickSpacing
            ELSE walk[i + increment]
        first == IF increment = 1 THEN current + 1 ELSE current
    IN  IF first \in DOMAIN walk THEN walk[first] ELSE NoTick

\* utils/public/price-math.ts: it throws outside of the range of prices.
HasTickIndex(price) == price \in MIN_SQRT_PRICE_X64 .. MAX_SQRT_PRICE_X64
sqrtPriceX64ToTickIndex(price) == TickIndexFromSqrtPrice(price)

\* getUninitializedArraysPDAs: the arrays of some ticks that are yet to be made.
getUninitializedArrays(someTicks, arrays) ==
    {getStartTickIndex(t, 0) : t \in someTicks} \ arrays

----------------------------------------------------------------------------
(* utils/public/swap-utils.ts: the arrays fetched for a swap, up to the    *)
(* first that lies beyond the range of ticks.                              *)

getTickArrayPublicKeys(tickCurrentIndex, aToB) ==
    LET first == IF aToB THEN tickCurrentIndex ELSE tickCurrentIndex + TickSpacing
        offset(i) == IF aToB THEN 1 - i ELSE i - 1
        n == Max({k \in 0 .. MAX_SWAP_TICK_ARRAYS :
                     \A i \in 1 .. k : HasStartTickIndex(first, offset(i))})
    IN  [i \in 1 .. n |-> getStartTickIndex(first, offset(i))]

----------------------------------------------------------------------------
(* quotes/swap/tick-array-sequence.ts.  The sequence is what comes before  *)
(* the first array that does not exist.  (The first form, for a mutant,    *)
(* takes it to exist.)                                                     *)

tickArraySequenceOnTrust(addresses, arrays) == addresses

tickArraySequence(addresses, arrays) ==
    SubSeq(addresses, 1, Max({n \in 0 .. Len(addresses) :
                                 \A i \in 1 .. n : addresses[i] \in arrays}))

\* checkIfIndexIsInTickArrayRange, for the first array of the search.
isValidTickArray0(sequence, tickCurrentIndex, aToB) ==
    LET index == IF aToB THEN tickCurrentIndex ELSE tickCurrentIndex + TickSpacing
    IN  sequence[1] <= index /\ index < sequence[1] + TicksInArray

\* Counted from one.
getLocalArrayIndex(sequence, arrayIndex, aToB) ==
    LET startArrayIndex == fromTickIndex(sequence[1]).arrayIndex
    IN  1 + (IF aToB THEN startArrayIndex - arrayIndex ELSE arrayIndex - startArrayIndex)

isArrayIndexInBounds(sequence, index, aToB) ==
    getLocalArrayIndex(sequence, index.arrayIndex, aToB) \in DOMAIN sequence

\* getTick: whether it returns, and the array it touches (also when it throws).
TouchedBy(sequence, tick, aToB) ==
    getLocalArrayIndex(sequence, fromTickIndex(tick).arrayIndex, aToB)

CanGetTick(sequence, tick, aToB) ==
    /\ isArrayIndexInBounds(sequence, fromTickIndex(tick), aToB)
    /\ InArray(sequence[TouchedBy(sequence, tick, aToB)], tick)

\* The search: whether it returns, the tick, and the arrays it touched.  (The
\* first form, for a mutant, searches from the present tick to the right too.)
searchFromCurrent(currIndex, aToB) == fromTickIndex(currIndex)

searchFrom(currIndex, aToB) ==
    fromTickIndex(IF aToB THEN currIndex ELSE currIndex + TickSpacing)

findNextInitializedTickIndex(sequence, ticks, currIndex, aToB) ==
    LET from == toTickIndex(searchFrom(currIndex, aToB))
        step == IF aToB THEN -TickSpacing ELSE TickSpacing
        visited(n) == {from + k * step : k \in 0 .. n}
        inBounds(n) == isArrayIndexInBounds(sequence, fromTickIndex(from + n * step), aToB)
        steps == 0 .. Len(sequence) * TICK_ARRAY_SIZE
        \* the number of steps to where the walk ends, in bounds or just beyond
        last == Min({n \in steps :
                        \/ ~inBounds(n)
                        \/ from + n * step \in UsableTick
                           /\ ticks[from + n * step].initialized})
        seen == IF inBounds(last) THEN visited(last) ELSE visited(last - 1)
        edge == IF aToB THEN from + last * step + TickSpacing ELSE from + last * step - 1
    IN  IF ~inBounds(0) \/ \E t \in seen : ~CanGetTick(sequence, t, aToB)
        THEN [ok |-> FALSE]
        ELSE [ok |-> TRUE,
              nextIndex |-> IF inBounds(last) THEN from + last * step
                            ELSE Greater(Lesser(edge, MAX_TICK_INDEX), MIN_TICK_INDEX),
              touched |-> {TouchedBy(sequence, t, aToB) : t \in seen}]

\* In the order of the sequence, the last as often as it takes to have three.
getTouchedArrays(sequence, touched) ==
    LET inOrder == SetToSortSeq(touched, LAMBDA i, j : i < j)
    IN  [i \in 1 .. Greater(Len(inOrder), IF inOrder = <<>> THEN 0 ELSE MAX_SWAP_TICK_ARRAYS) |->
            sequence[inOrder[Lesser(i, Len(inOrder))]]]

=============================================================================
