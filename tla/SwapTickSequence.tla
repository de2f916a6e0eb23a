-------------------------- MODULE SwapTickSequence --------------------------
(***************************************************************************)
(* Ticks live in tick arrays of TICK_ARRAY_SIZE ticks, TickSpacing apart.  *)
(* A swap is given up to three arrays, in the order its price will meet    *)
(* them, and asks the sequence for the next initialized tick.  When the    *)
(* arrays hold no further initialized tick the answer is a tick to stop    *)
(* at: the end of the tick range, or the last tick of the last array.      *)
(*                                                                         *)
(* An array is named by its start tick.  The loops of the code over the    *)
(* arrays and over the ticks of one are the least array that stops the     *)
(* search and the nearest initialized tick.                                *)
(***************************************************************************)
EXTENDS ClmmManagers

CONSTANTS
    TickSpacing,
    TICK_ARRAY_SIZE     \* ticks in an array (88 in the code)

TicksInArray == TICK_ARRAY_SIZE * TickSpacing

ASSUME TickAssumption ==
    /\ TickSpacing \in Nat \ {0}
    /\ TICK_ARRAY_SIZE \in Nat \ {0}

\* check_is_usable_tick
UsableTick == {t \in TickIndex : t % TickSpacing = 0}

\* check_is_valid_start_tick: the leftmost array may start below the range.
MinArrayStart == MIN_TICK_INDEX + ((-MIN_TICK_INDEX) % TicksInArray) - TicksInArray
IsValidStartTick(start) ==
    IF start \in TickIndex THEN start % TicksInArray = 0
    ELSE start <= MIN_TICK_INDEX /\ start = MinArrayStart

\* The arrays a pool can have, and the array of a tick (check_in_array_bounds).
ArrayStart == {s \in MinArrayStart .. MAX_TICK_INDEX : IsValidStartTick(s)}
InArray(start, tick) == start <= tick /\ tick < start + TicksInArray
TicksOf(start) == {t \in UsableTick : InArray(start, t)}

IsMinTickArray(start) == start <= MIN_TICK_INDEX
IsMaxTickArray(start) == start + TicksInArray > MAX_TICK_INDEX

\* tick_offset (floored)
TickOffset(start, tick) == (tick - start) \div TickSpacing

----------------------------------------------------------------------------
\* in_search_range: one spacing earlier for a search to the right.
InSearchRange(start, tick, aToB) ==
    InArray(start, IF aToB THEN tick ELSE tick + TickSpacing)

\* The initialized ticks of one array that lie ahead: to the left including
\* the present tick, to the right excluding it.
InitializedAhead(ticks, start, from, aToB) ==
    {t \in TicksOf(start) :
        ticks[t].initialized /\ (IF aToB THEN t <= from ELSE t > from)}

Nearest(S, aToB) ==
    CHOOSE t \in S : \A u \in S : IF aToB THEN u <= t ELSE t <= u

\* Where the search of the j-th array starts, when it began with the k-th.
SearchIndex(arrays, j, k, tick, aToB) ==
    IF j = k THEN tick
    ELSE IF aToB THEN arrays[j - 1] - 1
    ELSE arrays[j - 1] + TicksInArray - 1

Ahead(ticks, arrays, j, k, tick, aToB) ==
    InitializedAhead(ticks, arrays[j], SearchIndex(arrays, j, k, tick, aToB), aToB)

IsEdgeArray(start, aToB) == IF aToB THEN IsMinTickArray(start) ELSE IsMaxTickArray(start)

\* The array at which a search that began with the k-th array ends.
StopArray(ticks, arrays, k, tick, aToB) ==
    CHOOSE j \in k .. Len(arrays) :
        /\ \/ Ahead(ticks, arrays, j, k, tick, aToB) # {}
           \/ IsEdgeArray(arrays[j], aToB)
           \/ j = Len(arrays)
        /\ \A i \in k .. j - 1 : /\ Ahead(ticks, arrays, i, k, tick, aToB) = {}
                                 /\ ~IsEdgeArray(arrays[i], aToB)

\* get_next_initialized_tick_index succeeds: no array on the way is missing or
\* out of order.
SearchOk(ticks, arrays, k, tick, aToB) ==
    /\ k <= Len(arrays)
    /\ \A i \in k .. StopArray(ticks, arrays, k, tick, aToB) :
          InSearchRange(arrays[i], SearchIndex(arrays, i, k, tick, aToB), aToB)

\* The tick it returns in array j, initialized or not.
NextTickIndex(ticks, arrays, j, k, tick, aToB) ==
    LET ahead == Ahead(ticks, arrays, j, k, tick, aToB)
    IN  IF ahead # {} THEN Nearest(ahead, aToB)
        ELSE IF aToB THEN IF IsMinTickArray(arrays[j]) THEN MIN_TICK_INDEX ELSE arrays[j]
        ELSE IF IsMaxTickArray(arrays[j]) THEN MAX_TICK_INDEX
        ELSE arrays[j] + TicksInArray - 1

\* get_tick, then whether that tick is initialized (false when it has no place
\* in the array).
IsInitializedTick(ticks, start, tick) ==
    tick \in TicksOf(start) /\ ticks[tick].initialized

=============================================================================
