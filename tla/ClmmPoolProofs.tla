--------------------------- MODULE ClmmPoolProofs ---------------------------
(***************************************************************************)
(* The search for the next tick and the invariants of ClmmPool.            *)
(*                                                                         *)
(* The search of SwapTickSequence comes first, for every geometry of the   *)
(* arrays and whatever arrays the caller passes: when it returns a tick at *)
(* all, the tick is in the tick range and lies ahead of where the search   *)
(* began, and no initialized tick of an array lies between; and the place  *)
(* of a price among the ticks is well defined.                             *)
(*                                                                         *)
(* Then the invariants: the types, the agreement of tick and price, the    *)
(* limit of a swap, and the ticks out of use.  The first three are proved  *)
(* together (IInv), as none is inductive by itself.                        *)
(*                                                                         *)
(* Last, where the liquidity is: the gross and net of every tick are those *)
(* of the positions that end on it, the liquidity in force is that of the  *)
(* positions around the price, and the pool implements LiquidityLedger.    *)
(* A sum over the positions is taken apart by its partial sums; where an   *)
(* induction would be needed, the least counterexample is refuted.  That a *)
(* swap keeps the liquidity in force rests on SearchSkipsNothing: between  *)
(* two iterations no initialized tick is passed over.                      *)
(***************************************************************************)
EXTENDS ClmmPool, ClmmMathProofs, FiniteSetTheorems

----------------------------------------------------------------------------
(* Least and greatest elements of bounded sets of integers.                *)

\* A nonempty set of integers with a lower bound has a least element.
LEMMA HasLeast ==
    ASSUME NEW lo \in Int, NEW hi \in Int, NEW S \in SUBSET (lo .. hi), S # {}
    PROVE  \E m \in S : \A k \in S : m <= k
<1> DEFINE UpTo(x) == {k \in S : k <= x}
           T == {UpTo(x) : x \in S}
           R == StrictSubsetOrdering(lo .. hi)
<1>1. IsWellFoundedOn(R, SUBSET (lo .. hi))
  <2>1. IsFiniteSet(lo .. hi)
    BY FS_Interval
  <2>2. FiniteSubsetsOf(lo .. hi) = SUBSET (lo .. hi)
    BY <2>1, FS_FiniteSubsetsOfFinite
  <2>3. IsWellFoundedOn(R, FiniteSubsetsOf(lo .. hi))
    BY FS_StrictSubsetOrderingWellFounded
  <2> QED BY <2>2, <2>3
<1>2. T \subseteq SUBSET (lo .. hi) /\ T # {}
  OBVIOUS
<1>3. PICK U \in T : \A V \in T : ~(<<V, U>> \in R)
  <2> HIDE DEF T, R
  <2> QED BY <1>1, <1>2, WFMin
<1>4. PICK m \in S : U = UpTo(m)
  BY <1>3
<1>5. ASSUME NEW k \in S, ~(m <= k) PROVE FALSE
  <2>0. S \subseteq Int /\ k < m
    BY <1>5
  <2>1. UpTo(k) \subseteq UpTo(m) /\ m \in UpTo(m) /\ m \notin UpTo(k)
    <3>1. ASSUME NEW x \in S, x <= k PROVE x <= m
      BY <2>0, <3>1
    <3>2. k \in Int /\ m \in Int
      BY <2>0
    <3>3. m <= m /\ ~(m <= k)
      BY <2>0, <3>2
    <3> QED BY <3>1, <3>3
  <2>2. UpTo(k) \in T /\ UpTo(k) \in SUBSET (lo .. hi) /\ UpTo(m) \in SUBSET (lo .. hi)
    OBVIOUS
  <2>3. <<UpTo(k), UpTo(m)>> \in R
    BY <2>1, <2>2 DEF StrictSubsetOrdering
  <2> QED BY <1>3, <1>4, <2>2, <2>3
<1> QED BY <1>4, <1>5

\* One with an upper bound has a greatest element.
LEMMA HasGreatest ==
    ASSUME NEW lo \in Int, NEW hi \in Int, NEW S \in SUBSET (lo .. hi), S # {}
    PROVE  \E m \in S : \A k \in S : k <= m
<1> DEFINE N == {0 - k : k \in S}
<1>1. N \in SUBSET ((0 - hi) .. (0 - lo)) /\ N # {} /\ 0 - hi \in Int /\ 0 - lo \in Int
  <2>1. ASSUME NEW k \in S PROVE 0 - k \in (0 - hi) .. (0 - lo)
    <3>1. k \in Int /\ lo <= k /\ k <= hi
      OBVIOUS
    <3> QED BY <3>1
  <2>2. N # {}
    OBVIOUS
  <2>3. \A x \in N : \E k \in S : x = 0 - k
    OBVIOUS
  <2> HIDE DEF N
  <2>4. N \in SUBSET ((0 - hi) .. (0 - lo))
    BY <2>1, <2>3
  <2> QED BY <2>2, <2>4
<1>2. PICK n \in N : \A k \in N : n <= k
  <2> HIDE DEF N
  <2> QED BY <1>1, HasLeast
<1>3. PICK m \in S : n = 0 - m
  BY <1>2
<1>4. \A k \in S : 0 - m <= 0 - k
  BY <1>2, <1>3
<1> QED BY <1>4

----------------------------------------------------------------------------
(* The tick of a price.                                                    *)

\* The price of a tick is a positive number.
LEMMA SqrtPriceType ==
    /\ \A t \in TickIndex : SqrtPrice[t] \in U128 \ {0} /\ SqrtPrice[t] \in Nat \ {0}
    /\ \A t, u \in TickIndex : t <= u => SqrtPrice[t] <= SqrtPrice[u]
    /\ MIN_TICK_INDEX \in TickIndex /\ MAX_TICK_INDEX \in TickIndex
BY MathAssumption DEF TickIndex, U128

\* tick_index_from_sqrt_price finds the tick of a price in range.
LEMMA TickOfPrice ==
    ASSUME NEW price \in MIN_SQRT_PRICE_X64 .. MAX_SQRT_PRICE_X64
    PROVE  LET t == TickIndexFromSqrtPrice(price)
           IN  /\ t \in TickIndex
               /\ SqrtPrice[t] <= price
               /\ t = MAX_TICK_INDEX \/ price < SqrtPrice[t + 1]
<1> DEFINE S == {t \in TickIndex : SqrtPrice[t] <= price}
<1>1. MIN_TICK_INDEX \in S
  BY SqrtPriceType DEF MIN_SQRT_PRICE_X64
<1>2. PICK m \in S : \A k \in S : k <= m
  <2>1. S \in SUBSET (MIN_TICK_INDEX .. MAX_TICK_INDEX)
    BY DEF TickIndex
  <2> QED BY <1>1, <2>1, HasGreatest, MathAssumption
<1>3. m = MAX_TICK_INDEX \/ price < SqrtPrice[m + 1]
  <2>1. SUFFICES ASSUME m # MAX_TICK_INDEX PROVE price < SqrtPrice[m + 1]
    OBVIOUS
  <2>2. m + 1 \in TickIndex /\ m + 1 \notin S
    BY <1>2, <2>1, MathAssumption DEF TickIndex
  <2>3. SqrtPrice[m + 1] \in Int /\ price \in Int
    BY <2>2, SqrtPriceType
  <2> QED BY <2>2, <2>3
<1>4. \E t \in TickIndex :
        /\ SqrtPrice[t] <= price
        /\ t = MAX_TICK_INDEX \/ price < SqrtPrice[t + 1]
  BY <1>2, <1>3
<1> QED BY <1>4 DEF TickIndexFromSqrtPrice

----------------------------------------------------------------------------
(* The search.                                                             *)

\* A search ends at one of the arrays it was given.
LEMMA StopArrayType ==
    ASSUME NEW table, NEW passed \in Seq(Int), NEW k \in 1 .. Len(passed), NEW tick \in Int,
           NEW aToB \in BOOLEAN
    PROVE  LET j == StopArray(table, passed, k, tick, aToB)
           IN  /\ j \in k .. Len(passed)
               /\ \/ Ahead(table, passed, j, k, tick, aToB) # {}
                  \/ IsEdgeArray(passed[j], aToB)
                  \/ j = Len(passed)
               /\ \A i \in k .. j - 1 : /\ Ahead(table, passed, i, k, tick, aToB) = {}
                                        /\ ~IsEdgeArray(passed[i], aToB)
<1> DEFINE Stops(j) == \/ Ahead(table, passed, j, k, tick, aToB) # {}
                       \/ IsEdgeArray(passed[j], aToB)
                       \/ j = Len(passed)
           S == {j \in k .. Len(passed) : Stops(j)}
<1>1. k \in Int /\ Len(passed) \in Int
  OBVIOUS
<1>2. S \in SUBSET (k .. Len(passed))
  OBVIOUS
<1>3. Len(passed) \in S
  BY <1>1
<1> HIDE DEF Stops
<1>4. PICK m \in S : \A j \in S : m <= j
  <2> HIDE DEF S
  <2> QED BY <1>1, <1>2, <1>3, HasLeast
<1>5. ASSUME NEW i \in k .. m - 1 PROVE ~Stops(i)
  <2>1. i \in k .. Len(passed) /\ i < m
    BY <1>1, <1>4
  <2> QED BY <1>4, <2>1
<1>6. m \in k .. Len(passed) /\ Stops(m)
  BY <1>4
<1>7. \E j \in k .. Len(passed) :
        /\ \/ Ahead(table, passed, j, k, tick, aToB) # {}
           \/ IsEdgeArray(passed[j], aToB)
           \/ j = Len(passed)
        /\ \A i \in k .. j - 1 : /\ Ahead(table, passed, i, k, tick, aToB) = {}
                                 /\ ~IsEdgeArray(passed[i], aToB)
  <2>1. \A i \in k .. m - 1 : /\ Ahead(table, passed, i, k, tick, aToB) = {}
                              /\ ~IsEdgeArray(passed[i], aToB)
    BY <1>5 DEF Stops
  <2> QED BY <1>6, <2>1 DEF Stops
<1> QED BY <1>7 DEF StopArray

\* The nearest tick of a bounded, nonempty set is one of it.
LEMMA NearestType ==
    ASSUME NEW S \in SUBSET TickIndex, S # {}, NEW aToB \in BOOLEAN
    PROVE  Nearest(S, aToB) \in S
<1>1. S \in SUBSET (MIN_TICK_INDEX .. MAX_TICK_INDEX)
  BY DEF TickIndex
<1>2. CASE aToB
  <2>1. \E m \in S : \A u \in S : u <= m
    BY <1>1, HasGreatest, MathAssumption
  <2> QED BY <1>2, <2>1 DEF Nearest
<1>3. CASE ~aToB
  <2>1. \E m \in S : \A u \in S : m <= u
    BY <1>1, HasLeast, MathAssumption
  <2> QED BY <1>3, <2>1 DEF Nearest
<1> QED BY <1>2, <1>3

\* An array spans at least one tick.
LEMMA TicksInArrayType ==
    /\ TickSpacing \in Nat \ {0}
    /\ TicksInArray \in Nat \ {0}
BY TickAssumption, MulPos DEF TicksInArray

(***************************************************************************)
(* From one array to the next the search only moves away.                  *)
(***************************************************************************)
LEMMA SearchMovesAway ==
    ASSUME NEW passed \in Seq(Int), NEW k \in 1 .. Len(passed), NEW tick \in Int,
           NEW aToB \in BOOLEAN, NEW j \in k .. Len(passed), Len(passed) <= 3,
           \A i \in k .. j : InSearchRange(passed[i], SearchIndex(passed, i, k, tick, aToB), aToB)
    PROVE  LET from == SearchIndex(passed, j, k, tick, aToB)
           IN  /\ from \in Int
               /\ IF aToB THEN from <= tick ELSE tick <= from
               /\ IF aToB THEN passed[j] <= from ELSE from < passed[j] + TicksInArray - TickSpacing
<1> DEFINE from(i) == SearchIndex(passed, i, k, tick, aToB)
           Away(i) == /\ from(i) \in Int
                      /\ IF aToB THEN from(i) <= tick ELSE tick <= from(i)
                      /\ IF aToB THEN passed[i] <= from(i)
                         ELSE from(i) < passed[i] + TicksInArray - TickSpacing
<1>1. \A i \in k .. j : passed[i] \in Int
  OBVIOUS
<1>2. ASSUME NEW i \in k .. j, from(i) \in Int
      PROVE  IF aToB THEN passed[i] <= from(i)
             ELSE from(i) < passed[i] + TicksInArray - TickSpacing
  <2>1. InSearchRange(passed[i], from(i), aToB)
    OBVIOUS
  <2> HIDE DEF from
  <2> QED BY <1>1, <1>2, <2>1, TicksInArrayType, SMTT(30) DEF InSearchRange, InArray
<1>3. Away(k)
  <2>1. from(k) = tick
    BY DEF SearchIndex
  <2> HIDE DEF from
  <2> QED BY <1>2, <2>1
<1>4. ASSUME NEW i \in k .. j, i + 1 \in k .. j, Away(i) PROVE Away(i + 1)
  <2>1. from(i + 1) = IF aToB THEN passed[i] - 1 ELSE passed[i] + TicksInArray - 1
    <3>1. (i + 1) - 1 = i /\ i + 1 # k
      OBVIOUS
    <3> QED BY <3>1 DEF SearchIndex
  <2> HIDE DEF from
  <2>2. from(i + 1) \in Int /\ IF aToB THEN from(i + 1) <= tick ELSE tick <= from(i + 1)
    BY <1>1, <1>4, <2>1, TicksInArrayType, SMTT(30)
  <2> QED BY <1>2, <1>4, <2>2
<1> HIDE DEF Away
<1>5. j = k \/ j = k + 1 \/ j = k + 2
  OBVIOUS
<1>6. Away(j)
  <2>1. k \in k .. j /\ k \in Int /\ (k + 1) + 1 = k + 2
    OBVIOUS
  <2>2. CASE j = k
    BY <1>3, <2>2
  <2>3. CASE j = k + 1
    BY <1>3, <1>4, <2>1, <2>3
  <2>4. CASE j = k + 2
    <3>1. k + 1 \in k .. j /\ (k + 1) + 1 \in k .. j
      BY <2>4
    <3>2. Away(k + 1)
      BY <1>3, <1>4, <2>1, <3>1
    <3>3. Away((k + 1) + 1)
      BY <1>4, <3>1, <3>2
    <3> QED BY <2>1, <2>4, <3>3
  <2> QED BY <1>5, <2>2, <2>3, <2>4
<1> QED BY <1>6 DEF Away

(***************************************************************************)
(* The tick a successful search returns is in the tick range, and it lies  *)
(* ahead: at or before the present tick to the left, after it to the       *)
(* right.  (get_next_initialized_tick_index)                               *)
(***************************************************************************)
THEOREM NextTickIsAhead ==
    ASSUME NEW table, NEW passed \in Seq(Int), Len(passed) <= 3,
           NEW k \in Nat \ {0}, NEW tick \in MIN_TICK_INDEX - 1 .. MAX_TICK_INDEX,
           NEW aToB \in BOOLEAN,
           IF aToB THEN MIN_TICK_INDEX <= tick ELSE tick < MAX_TICK_INDEX,
           SearchOk(table, passed, k, tick, aToB)
    PROVE  LET j == StopArray(table, passed, k, tick, aToB)
               t == NextTickIndex(table, passed, j, k, tick, aToB)
           IN  /\ j \in k .. Len(passed)
               /\ t \in TickIndex
               /\ IF aToB THEN t <= tick ELSE tick < t
<1> DEFINE j == StopArray(table, passed, k, tick, aToB)
           from == SearchIndex(passed, j, k, tick, aToB)
           ahead == Ahead(table, passed, j, k, tick, aToB)
           t == NextTickIndex(table, passed, j, k, tick, aToB)
<1>1. k \in 1 .. Len(passed) /\ tick \in Int
  BY MathAssumption DEF SearchOk
<1>2. /\ j \in k .. Len(passed)
      /\ ahead # {} \/ IsEdgeArray(passed[j], aToB) \/ j = Len(passed)
  <2>1. \A kk \in 1 .. Len(passed) : LET jj == StopArray(table, passed, kk, tick, aToB)
           IN  /\ jj \in kk .. Len(passed)
               /\ \/ Ahead(table, passed, jj, kk, tick, aToB) # {}
                  \/ IsEdgeArray(passed[jj], aToB)
                  \/ jj = Len(passed)
    BY <1>1, StopArrayType
  <2> QED BY <1>1, <2>1
<1>3. \A i \in k .. j : InSearchRange(passed[i], SearchIndex(passed, i, k, tick, aToB), aToB)
  BY DEF SearchOk
<1>4. /\ from \in Int
      /\ IF aToB THEN from <= tick ELSE tick <= from
      /\ IF aToB THEN passed[j] <= from ELSE from < passed[j] + TicksInArray - TickSpacing
  BY <1>1, <1>2, <1>3, SearchMovesAway
<1>5. passed[j] \in Int
  BY <1>1, <1>2
<1>6. CASE ahead # {}
  <2>1. ahead \in SUBSET TickIndex
    BY DEF Ahead, InitializedAhead, TicksOf, UsableTick
  <2>2. t = Nearest(ahead, aToB)
    BY <1>6 DEF NextTickIndex
  <2>3. t \in ahead /\ t \in TickIndex
    BY <1>6, <2>1, <2>2, NearestType
  <2>4. IF aToB THEN t <= from ELSE t > from
    BY <2>3 DEF Ahead, InitializedAhead
  <2>5. t \in Int
    BY <2>3, MathAssumption DEF TickIndex
  <2> HIDE DEF t, from, j, ahead
  <2>6. IF aToB THEN t <= tick ELSE tick < t
    BY <1>1, <1>4, <2>4, <2>5
  <2> QED BY <1>2, <2>3, <2>6 DEF t, j
<1>7. CASE ahead = {} /\ aToB
  <2>1. t = IF IsMinTickArray(passed[j]) THEN MIN_TICK_INDEX ELSE passed[j]
    BY <1>7 DEF NextTickIndex
  <2> HIDE DEF t, from, j, ahead
  <2>2. t \in TickIndex /\ t <= tick
    BY <1>1, <1>4, <1>5, <1>7, <2>1, MathAssumption DEF IsMinTickArray, TickIndex
  <2> QED BY <1>2, <1>7, <2>2 DEF t, j
<1>8. CASE ahead = {} /\ ~aToB
  <2>1. t = IF IsMaxTickArray(passed[j]) THEN MAX_TICK_INDEX
            ELSE passed[j] + TicksInArray - 1
    BY <1>8 DEF NextTickIndex
  <2> HIDE DEF t, from, j, ahead
  <2>2. t \in TickIndex /\ tick < t
    <3>1. CASE IsMaxTickArray(passed[j])
      BY <1>8, <2>1, <3>1, SqrtPriceType
    <3>2. CASE ~IsMaxTickArray(passed[j])
      <4> DEFINE last == passed[j] + TicksInArray - 1
      <4>1. t = last
        BY <2>1, <3>2
      <4>2. last \in Int /\ tick < last
        BY <1>1, <1>4, <1>5, <1>8, TicksInArrayType
      <4>3. last < MAX_TICK_INDEX
        BY <1>5, <3>2, TicksInArrayType, MathAssumption DEF IsMaxTickArray
      <4> HIDE DEF last
      <4>4. last \in TickIndex
        BY <4>2, <4>3, MathAssumption DEF TickIndex
      <4> QED BY <4>1, <4>2, <4>4
    <3> QED BY <3>1, <3>2
  <2> QED BY <1>2, <1>8, <2>2 DEF t, j
<1> QED BY <1>6, <1>7, <1>8

----------------------------------------------------------------------------
(* Every tick in use and every array's start is a multiple of the spacing. *)

\* Division with a remainder.
LEMMA DivMod ==
    ASSUME NEW x \in Int, NEW n \in Nat \ {0}
    PROVE  /\ x \div n \in Int
           /\ x % n \in 0 .. n - 1
           /\ x = n * (x \div n) + (x % n)
OBVIOUS

\* A multiple of the spacing.
IsMultiple(x) == \E m \in Int : x = TickSpacing * m

\* Multiples less than a spacing apart are in order.
LEMMA MultiplesApart ==
    ASSUME NEW x, NEW y, IsMultiple(x), IsMultiple(y), x < y + TickSpacing
    PROVE  x <= y
<1>1. PICK m \in Int : x = TickSpacing * m
  BY DEF IsMultiple
<1>2. PICK n \in Int : y = TickSpacing * n
  BY DEF IsMultiple
<1>3. TickSpacing \in Nat /\ TickSpacing \in Nat \ {0}
  BY TicksInArrayType
<1>4. TickSpacing * n + TickSpacing = TickSpacing * (n + 1)
  BY <1>3
<1>5. TickSpacing * m < TickSpacing * (n + 1) /\ n + 1 \in Int
  BY <1>1, <1>2, <1>4
<1>6. m < n + 1
  BY <1>3, <1>5, MulCancel
<1>7. TickSpacing * m <= TickSpacing * n
  BY <1>3, <1>6, MulMono
<1> QED BY <1>1, <1>2, <1>7

\* A multiple of what an array spans is one of the spacing.
LEMMA ArrayMultiple ==
    ASSUME NEW q \in Int
    PROVE  IsMultiple(TicksInArray * q)
<1>1. TickSpacing \in Int /\ TICK_ARRAY_SIZE \in Int
  BY TickAssumption
<1>2. \A a, b, c \in Int : (a * b) * c = b * (a * c) /\ a * c \in Int
  OBVIOUS
<1>3. TicksInArray * q = TickSpacing * (TICK_ARRAY_SIZE * q) /\ TICK_ARRAY_SIZE * q \in Int
  BY <1>1, <1>2 DEF TicksInArray
<1> QED BY <1>3 DEF IsMultiple

\* A usable tick is a multiple of the spacing.
LEMMA UsableIsMultiple ==
    ASSUME NEW u \in UsableTick
    PROVE  IsMultiple(u)
<1>1. u \in Int /\ u % TickSpacing = 0
  BY MathAssumption DEF UsableTick, TickIndex
<1>2. u = TickSpacing * (u \div TickSpacing) + (u % TickSpacing) /\ u \div TickSpacing \in Int
  BY <1>1, DivMod, TicksInArrayType
<1>3. TickSpacing * (u \div TickSpacing) \in Int
  BY <1>2, TicksInArrayType
<1>4. u = TickSpacing * (u \div TickSpacing)
  BY <1>1, <1>2, <1>3
<1> QED BY <1>2, <1>4 DEF IsMultiple

\* An array starts on a multiple of the ticks it holds.
LEMMA StartIsMultiple ==
    ASSUME NEW start \in Int, IsValidStartTick(start)
    PROVE  IsMultiple(start)
<1> DEFINE n == TicksInArray
<1>0. n \in Nat \ {0} /\ MIN_TICK_INDEX \in Int
  BY TicksInArrayType, MathAssumption
<1>1. CASE start \in TickIndex
  <2>1. start % n = 0
    BY <1>1 DEF IsValidStartTick
  <2>2. start = n * (start \div n) + (start % n) /\ start \div n \in Int
    BY <1>0, DivMod
  <2>3. n * (start \div n) \in Int
    BY <1>0, <2>2
  <2>4. start = n * (start \div n)
    BY <2>1, <2>2, <2>3
  <2> QED BY <2>2, <2>4, ArrayMultiple
<1>2. CASE start \notin TickIndex
  <2> DEFINE x == -MIN_TICK_INDEX
             q == x \div n
  <2>1. start = MIN_TICK_INDEX + (x % n) - n
    BY <1>2 DEF IsValidStartTick, MinArrayStart
  <2>2. x \in Int /\ x = n * q + (x % n) /\ q \in Int /\ x % n \in Int
    <3>1. x \in Int
      BY <1>0
    <3> HIDE DEF x
    <3> QED BY <1>0, <3>1, DivMod
  <2>3. n * q \in Int /\ 0 - q - 1 \in Int /\ n * (0 - q - 1) = 0 - (n * q) - n
    <3> HIDE DEF q, n
    <3> QED BY <1>0, <2>2
  <2>4. MIN_TICK_INDEX = 0 - x
    BY <1>0
  <2>5. start = n * (0 - q - 1)
    <3> HIDE DEF x, q, n
    <3> QED BY <1>0, <2>1, <2>2, <2>3, <2>4
  <2> QED BY <2>3, <2>5, ArrayMultiple
<1> QED BY <1>1, <1>2

\* Nothing of a bounded set is nearer than the nearest.
LEMMA NearestBounds ==
    ASSUME NEW S \in SUBSET TickIndex, NEW u \in S, NEW aToB \in BOOLEAN
    PROVE  IF aToB THEN u <= Nearest(S, aToB) ELSE Nearest(S, aToB) <= u
<1>1. S \in SUBSET (MIN_TICK_INDEX .. MAX_TICK_INDEX) /\ S # {}
  BY DEF TickIndex
<1>2. CASE aToB
  <2>1. \E m \in S : \A k \in S : k <= m
    BY <1>1, HasGreatest, MathAssumption
  <2> QED BY <1>2, <2>1 DEF Nearest
<1>3. CASE ~aToB
  <2>1. \E m \in S : \A k \in S : m <= k
    BY <1>1, HasLeast, MathAssumption
  <2> QED BY <1>3, <2>1 DEF Nearest
<1> QED BY <1>2, <1>3

\* A tick past where the search of an array starts is in that array, or past
\* where the search of the next one starts.
LEMMA AheadOfSearch ==
    ASSUME NEW start \in Int, IsValidStartTick(start), NEW from \in Int, NEW aToB \in BOOLEAN,
           InSearchRange(start, from, aToB), NEW u \in UsableTick,
           IF aToB THEN u <= from ELSE from < u
    PROVE  \/ u \in TicksOf(start)
           \/ IF aToB THEN u <= start - 1 ELSE start + TicksInArray - 1 < u
<1>1. u \in Int /\ TicksInArray \in Int /\ TickSpacing \in Int
  BY MathAssumption, TicksInArrayType DEF UsableTick, TickIndex
<1>2. CASE aToB
  BY <1>1, <1>2 DEF InSearchRange, InArray, TicksOf
<1>3. CASE ~aToB
  <2>1. start < u + TickSpacing
    BY <1>1, <1>3 DEF InSearchRange, InArray
  <2>2. start <= u
    BY <2>1, MultiplesApart, StartIsMultiple, UsableIsMultiple
  <2> QED BY <1>1, <1>3, <2>2 DEF InArray, TicksOf
<1> QED BY <1>2, <1>3

(***************************************************************************)
(* The search passes over no initialized tick, in whatever array: one that *)
(* lies ahead, and not beyond the tick the search returns, is that tick,   *)
(* and the array the search ended at holds it.                             *)
(* (get_next_initialized_tick_index)                                       *)
(***************************************************************************)
THEOREM SearchSkipsNothing ==
    ASSUME NEW table, NEW passed \in Seq(Int), Len(passed) <= 3,
           \A i \in 1 .. Len(passed) : IsValidStartTick(passed[i]),
           NEW k \in Nat \ {0}, NEW tick \in MIN_TICK_INDEX - 1 .. MAX_TICK_INDEX,
           NEW aToB \in BOOLEAN,
           SearchOk(table, passed, k, tick, aToB),
           NEW j, j = StopArray(table, passed, k, tick, aToB),
           NEW t, t = NextTickIndex(table, passed, j, k, tick, aToB),
           NEW u \in UsableTick, table[u].initialized,
           IF aToB THEN t <= u /\ u <= tick ELSE tick < u /\ u <= t
    PROVE  u = t /\ u \in TicksOf(passed[j])
<1> DEFINE from(i) == SearchIndex(passed, i, k, tick, aToB)
           ahead(i) == Ahead(table, passed, i, k, tick, aToB)
           Beyond(i) == IF aToB THEN u <= from(i) ELSE from(i) < u
<1>1. k \in 1 .. Len(passed) /\ tick \in Int /\ Len(passed) \in Nat
  BY MathAssumption DEF SearchOk
<1>2. /\ j \in k .. Len(passed)
      /\ \A i \in k .. j - 1 : ahead(i) = {}
  <2>1. \A kk \in 1 .. Len(passed) : LET jj == StopArray(table, passed, kk, tick, aToB)
           IN  /\ jj \in kk .. Len(passed)
               /\ \A i \in kk .. jj - 1 : Ahead(table, passed, i, kk, tick, aToB) = {}
    BY <1>1, StopArrayType
  <2> QED BY <1>1, <2>1
<1>3. \A i \in k .. j : InSearchRange(passed[i], from(i), aToB)
  BY DEF SearchOk
<1>4. \A i \in k .. j : passed[i] \in Int /\ IsValidStartTick(passed[i])
  BY <1>1, <1>2
<1>5. TicksInArray \in Int /\ u \in Int
  BY TicksInArrayType, MathAssumption DEF UsableTick, TickIndex
<1>6. \A i \in k .. j : from(i) \in Int
  <2>1. TAKE i \in k .. j
  <2>2. CASE i = k
    BY <1>1, <2>2 DEF SearchIndex
  <2>3. CASE i # k
    <3>1. i - 1 \in k .. j
      BY <1>1, <1>2, <2>3
    <3> QED BY <1>4, <1>5, <2>3, <3>1 DEF SearchIndex
  <2> QED BY <2>2, <2>3
<1>7. \A i \in k .. j : u \in TicksOf(passed[i]) /\ Beyond(i) => u \in ahead(i)
  BY DEF Ahead, InitializedAhead
<1>8. Beyond(k)
  BY DEF SearchIndex
<1>9. ASSUME NEW i \in k .. j, i + 1 \in k .. j, Beyond(i) PROVE Beyond(i + 1)
  <2>1. i \in k .. j - 1 /\ (i + 1) - 1 = i /\ i + 1 # k
    BY <1>1, <1>2, <1>9
  <2>2. u \notin TicksOf(passed[i])
    BY <1>2, <1>7, <1>9, <2>1
  <2>3. from(i + 1) = IF aToB THEN passed[i] - 1 ELSE passed[i] + TicksInArray - 1
    BY <2>1 DEF SearchIndex
  <2> HIDE DEF from
  <2>4. IF aToB THEN u <= passed[i] - 1 ELSE passed[i] + TicksInArray - 1 < u
    BY <1>3, <1>4, <1>6, <1>9, <2>2, AheadOfSearch
  <2> QED BY <2>3, <2>4
<1> HIDE DEF from, ahead
<1>10. Beyond(j)
  <2>1. j = k \/ j = k + 1 \/ j = (k + 1) + 1
    BY <1>1, <1>2
  <2>2. CASE j = k
    BY <1>8, <2>2
  <2>3. CASE j = k + 1
    BY <1>1, <1>8, <1>9, <2>3, k \in k .. j, k + 1 \in k .. j
  <2>4. CASE j = (k + 1) + 1
    <3>1. k \in k .. j /\ k + 1 \in k .. j /\ (k + 1) + 1 \in k .. j
      BY <1>1, <2>4
    <3>2. Beyond(k + 1)
      BY <1>8, <1>9, <3>1
    <3> HIDE DEF Beyond
    <3> QED BY <1>9, <2>4, <3>1, <3>2
  <2> HIDE DEF Beyond
  <2> QED BY <2>1, <2>2, <2>3, <2>4
<1>11. passed[j] \in Int /\ IsValidStartTick(passed[j]) /\ j \in k .. j /\ from(j) \in Int
       /\ InSearchRange(passed[j], from(j), aToB)
  BY <1>1, <1>2, <1>3, <1>4, <1>6
<1>12. ahead(j) \in SUBSET TickIndex /\ ahead(j) \subseteq TicksOf(passed[j])
  BY DEF ahead, Ahead, InitializedAhead, TicksOf, UsableTick
<1>13. /\ ahead(j) # {} => t = Nearest(ahead(j), aToB)
       /\ ahead(j) = {} => t = IF aToB THEN IF IsMinTickArray(passed[j]) THEN MIN_TICK_INDEX
                                            ELSE passed[j]
                               ELSE IF IsMaxTickArray(passed[j]) THEN MAX_TICK_INDEX
                               ELSE passed[j] + TicksInArray - 1
  BY DEF NextTickIndex, ahead
<1>14. t \in Int /\ IF aToB THEN passed[j] <= t ELSE t < passed[j] + TicksInArray
  <2>1. CASE ahead(j) # {}
    <3>1. t \in ahead(j)
      BY <1>12, <1>13, <2>1, NearestType
    <3>2. t \in TicksOf(passed[j]) /\ t \in TickIndex
      BY <1>12, <3>1
    <3> QED BY <3>2, MathAssumption DEF TicksOf, InArray, TickIndex
  <2>2. CASE ahead(j) = {}
    BY <1>5, <1>11, <1>13, <2>2, MathAssumption, SMTT(30) DEF IsMinTickArray, IsMaxTickArray
  <2> QED BY <2>1, <2>2
<1>15. u \in TicksOf(passed[j])
  <2>1. \/ u \in TicksOf(passed[j])
        \/ IF aToB THEN u <= passed[j] - 1 ELSE passed[j] + TicksInArray - 1 < u
    BY <1>10, <1>11, AheadOfSearch
  <2> QED BY <1>5, <1>11, <1>14, <2>1
<1>16. u \in ahead(j)
  BY <1>7, <1>10, <1>11, <1>15
<1>17. t = Nearest(ahead(j), aToB) /\ IF aToB THEN u <= t ELSE t <= u
  BY <1>12, <1>13, <1>16, NearestBounds
<1> QED BY <1>5, <1>14, <1>15, <1>17

----------------------------------------------------------------------------
(* The types of the pure updates.                                          *)

\* The widths are nonempty ranges of numbers.
LEMMA Widths ==
    /\ Q64 \in Nat \ {0}
    /\ Q64 * Q64 \in Nat \ {0}
    /\ 0 \in U64 /\ 0 \in U128 /\ 0 \in I128
    /\ U64 \subseteq Nat /\ U128 \subseteq Nat /\ I128 \subseteq Int
<1>1. /\ Q64 \in Nat \ {0}
      /\ Q64 * Q64 \in Nat \ {0}
      /\ 0 \in U64 /\ 0 \in U128
      /\ U64 \subseteq Nat /\ U128 \subseteq Nat
  BY MathAssumption, MulPos DEF U64, U128
<1> DEFINE square == Q64 * Q64
           half == square \div 2
<1>2. square >= 4
  <2>1. Q64 \in Nat /\ 2 <= Q64
    BY MathAssumption
  <2>2. Q64 * 2 <= Q64 * Q64
    BY <2>1, MulMono
  <2> QED BY <2>1, <2>2
<1>3. half \in Nat \ {0}
  <2> HIDE DEF square
  <2>1. square \in Nat
    BY <1>1 DEF square
  <2>2. half \in Nat /\ square < 2 * (half + 1)
    BY <2>1, DivType
  <2> QED BY <1>2, <2>1, <2>2
<1>4. I128 = -half .. half - 1
  BY DEF I128
<1>5. 0 \in I128 /\ I128 \subseteq Int
  <2> HIDE DEF half
  <2> QED BY <1>3, <1>4
<1> QED BY <1>1, <1>5

\* Their members are numbers.
LEMMA WidthsAreNumbers ==
    /\ \A x \in U64 : x \in Nat /\ x \in Int
    /\ \A x \in U128 : x \in Nat /\ x \in Int
    /\ \A x \in I128 : x \in Int
<1>1. \A x \in U64 \cup U128 : x \in Nat
  BY Widths
<1>2. \A x \in Nat : x \in Int
  OBVIOUS
<1> QED BY <1>1, <1>2, Widths

\* Wrapping arithmetic stays within its width.
LEMMA WrappingType ==
    ASSUME NEW x \in Int, NEW y \in Int
    PROVE  /\ WrappingAdd(x, y) \in U128
           /\ WrappingSub(x, y) \in U128
           /\ WrappingAdd64(x, y) \in U64
<1>1. x + y \in Int /\ x - y \in Int
  OBVIOUS
<1> QED BY <1>1, Widths, ModType DEF WrappingAdd, WrappingSub, WrappingAdd64, U64, U128

\* next_pool_reward_infos returns reward infos.
LEMMA RewardInfosType ==
    ASSUME NEW p \in PoolType, NEW t \in Nat
    PROVE  NextPoolRewardInfos(p, t) \in RewardInfos
<1> DEFINE elapsed == t - p.reward_last_updated_timestamp
           emission(r) == elapsed * p.reward_infos[r].emissions
           delta(r) == IF emission(r) \in U128 THEN emission(r) \div p.liquidity ELSE 0
<1>1. p.liquidity \in Nat /\ p.reward_infos \in RewardInfos
  BY Widths DEF PoolType
<1>2. ASSUME NEW r \in Reward, p.liquidity # 0 PROVE delta(r) \in Int
  <2>1. emission(r) \in U128 => emission(r) \div p.liquidity \in Nat
    <3>1. ASSUME NEW e \in U128, NEW n \in Nat, n # 0 PROVE e \div n \in Nat
      BY <3>1, Widths, DivType, n \in Nat \ {0}
    <3> HIDE DEF emission
    <3> QED BY <1>1, <1>2, <3>1
  <2> QED BY <2>1
<1>3. ASSUME NEW r \in Reward, p.liquidity # 0
      PROVE  WrappingAdd(p.reward_infos[r].growth_global, delta(r)) \in U128
  <2>1. p.reward_infos[r].growth_global \in Int
    <3>1. p.reward_infos[r].growth_global \in U128
      BY <1>1 DEF RewardInfos
    <3> QED BY <3>1, WidthsAreNumbers
  <2> HIDE DEF delta
  <2> QED BY <1>2, <1>3, <2>1, WrappingType
<1>4. NextPoolRewardInfos(p, t) =
        IF p.liquidity = 0 \/ elapsed = 0 THEN p.reward_infos
        ELSE [r \in Reward |->
                IF p.reward_infos[r].initialized
                THEN [p.reward_infos[r] EXCEPT !.growth_global = WrappingAdd(@, delta(r))]
                ELSE p.reward_infos[r]]
  BY DEF NextPoolRewardInfos
<1> HIDE DEF delta, elapsed
<1>5. CASE p.liquidity = 0 \/ elapsed = 0
  BY <1>1, <1>4, <1>5
<1>6. CASE ~(p.liquidity = 0 \/ elapsed = 0)
  BY <1>1, <1>3, <1>4, <1>6 DEF RewardInfos
<1> QED BY <1>5, <1>6

\* A tick whose liquidity changes without an error is a tick.
LEMMA TickModifyType ==
    ASSUME NEW p \in PoolType, NEW tick \in TickType, NEW t \in Int,
           NEW infos \in RewardInfos, NEW delta \in Int, NEW upper \in BOOLEAN,
           TickCanModifyLiquidity(tick, delta, upper)
    PROVE  NextTickModifyLiquidityUpdate(tick, t, p, infos, delta, upper) \in TickType
<1> DEFINE gross == AddLiquidityDelta(tick.liquidity_gross, delta)
           outside(recorded, global) ==
             IF tick.liquidity_gross # 0 THEN recorded
             ELSE [k \in DOMAIN recorded |->
                     IF p.tick_current_index >= t THEN global[k] ELSE 0]
           net == NextLiquidityNet(tick, delta, upper)
           next == NextTickModifyLiquidityUpdate(tick, t, p, infos, delta, upper)
<1>1. next = IF delta = 0 THEN tick
             ELSE IF gross = 0 THEN DefaultTick
             ELSE [initialized |-> TRUE, liquidity_net |-> net, liquidity_gross |-> gross,
                   fee_growth_outside |-> outside(tick.fee_growth_outside, p.fee_growth_global),
                   reward_growths_outside |->
                     outside(tick.reward_growths_outside, RewardGrowths(infos))]
  BY DEF NextTickModifyLiquidityUpdate
<1>2. DefaultTick \in TickType
  BY Widths DEF DefaultTick, TickType
<1> HIDE DEF outside, net, gross
<1>3. gross # 0 => gross \in U128 /\ net \in I128
  <2>1. gross # 0 => gross # Err /\ net \in I128
    BY DEF TickCanModifyLiquidity, gross, net
  <2>2. gross # Err => gross \in U128
    BY DEF AddLiquidityDelta, Checked, gross
  <2> QED BY <2>1, <2>2
<1>4. outside(tick.fee_growth_outside, p.fee_growth_global) \in [Token -> U128]
  BY Widths DEF outside, TickType, PoolType
<1>5. outside(tick.reward_growths_outside, RewardGrowths(infos)) \in [Reward -> U128]
  BY Widths DEF outside, TickType, RewardGrowths, RewardInfos
<1> HIDE DEF next
<1>6. next \in TickType
  <2>1. CASE delta = 0
    BY <1>1, <2>1
  <2>2. CASE delta # 0 /\ gross = 0
    BY <1>1, <1>2, <2>2
  <2>3. CASE delta # 0 /\ gross # 0
    BY <1>1, <1>3, <1>4, <1>5, <2>3 DEF TickType
  <2> QED BY <2>1, <2>2, <2>3
<1> QED BY <1>6 DEF next

\* A crossed tick is a tick, and is as much in use as before.
LEMMA TickCrossType ==
    ASSUME NEW tick \in TickType, NEW growth \in [Token -> U128], NEW infos \in RewardInfos
    PROVE  /\ NextTickCrossUpdate(tick, growth, infos) \in TickType
           /\ NextTickCrossUpdate(tick, growth, infos).initialized = tick.initialized
           /\ NextTickCrossUpdate(tick, growth, infos).liquidity_gross = tick.liquidity_gross
<1> DEFINE fees == [k \in Token |-> WrappingSub(growth[k], tick.fee_growth_outside[k])]
           rewards == [r \in Reward |->
                         IF infos[r].initialized
                         THEN WrappingSub(infos[r].growth_global, tick.reward_growths_outside[r])
                         ELSE tick.reward_growths_outside[r]]
<1>1. NextTickCrossUpdate(tick, growth, infos) =
        [tick EXCEPT !.fee_growth_outside = fees, !.reward_growths_outside = rewards]
  BY DEF NextTickCrossUpdate, TickType
<1>2. fees \in [Token -> U128]
  <2>1. ASSUME NEW k \in Token
        PROVE  WrappingSub(growth[k], tick.fee_growth_outside[k]) \in U128
    <3>1. growth[k] \in U128 /\ tick.fee_growth_outside[k] \in U128
      BY DEF TickType
    <3> QED BY <3>1, WidthsAreNumbers, WrappingType
  <2> QED BY <2>1
<1>3. rewards \in [Reward -> U128]
  <2>1. ASSUME NEW r \in Reward
        PROVE  /\ WrappingSub(infos[r].growth_global, tick.reward_growths_outside[r]) \in U128
               /\ tick.reward_growths_outside[r] \in U128
    <3>1. infos[r].growth_global \in U128 /\ tick.reward_growths_outside[r] \in U128
      BY DEF TickType, RewardInfos
    <3> QED BY <3>1, WidthsAreNumbers, WrappingType
  <2> QED BY <2>1
<1> HIDE DEF fees, rewards
<1> QED BY <1>1, <1>2, <1>3 DEF TickType

\* Growth inside a range is a u128, whatever wrapped.
LEMMA GrowthInsideType ==
    ASSUME NEW current, NEW global \in U128, NEW lowerIndex, NEW lowerInit \in BOOLEAN,
           NEW lowerOutside \in U128, NEW upperIndex, NEW upperInit \in BOOLEAN,
           NEW upperOutside \in U128
    PROVE  GrowthInside(current, global, lowerIndex, lowerInit, lowerOutside,
                        upperIndex, upperInit, upperOutside) \in U128
<1> DEFINE below == IF ~lowerInit THEN global
                    ELSE IF current < lowerIndex THEN WrappingSub(global, lowerOutside)
                    ELSE lowerOutside
           above == IF ~upperInit THEN 0
                    ELSE IF current < upperIndex THEN upperOutside
                    ELSE WrappingSub(global, upperOutside)
<1>1. /\ WrappingSub(global, lowerOutside) \in U128
      /\ WrappingSub(global, upperOutside) \in U128
  BY WidthsAreNumbers, WrappingType
<1>2. below \in U128 /\ above \in U128
  BY <1>1, Widths
<1>3. GrowthInside(current, global, lowerIndex, lowerInit, lowerOutside,
                   upperIndex, upperInit, upperOutside)
        = WrappingSub(WrappingSub(global, below), above)
  BY DEF GrowthInside
<1> HIDE DEF below, above
<1>4. WrappingSub(global, below) \in U128
  BY <1>2, WidthsAreNumbers, WrappingType
<1> QED BY <1>2, <1>3, <1>4, WidthsAreNumbers, WrappingType

\* What is owed after settling is a u64, whatever wrapped.
LEMMA SettledType ==
    ASSUME NEW owed \in U64, NEW liquidity \in U128, NEW inside \in U128, NEW checkpoint \in U128
    PROVE  Settled(owed, liquidity, inside, checkpoint) \in U64
<1> DEFINE growth == WrappingSub(inside, checkpoint)
           earned == MulShiftRightOrZero(liquidity, growth)
<1>1. earned \in Int
  <2>1. ASSUME NEW x \in U128 PROVE x \div Q64 \in Int
    BY WidthsAreNumbers, Widths, DivType
  <2> HIDE DEF growth
  <2> QED BY <2>1 DEF MulShiftRightOrZero
<1>2. Settled(owed, liquidity, inside, checkpoint) = WrappingAdd64(owed, earned)
  BY DEF Settled
<1> HIDE DEF earned
<1> QED BY <1>1, <1>2, WidthsAreNumbers, WrappingType

\* A position whose liquidity changes without an error is a position.
LEMMA PositionModifyType ==
    ASSUME NEW pos \in PositionType, NEW delta, AddLiquidityDelta(pos.liquidity, delta) # Err,
           NEW fees \in [Token -> U128], NEW rewards \in [Reward -> U128]
    PROVE  NextPositionModifyLiquidityUpdate(pos, delta, fees, rewards) \in PositionType
<1> DEFINE liquidity == AddLiquidityDelta(pos.liquidity, delta)
           feeOwed == [k \in Token |-> Settled(pos.fee_owed[k], pos.liquidity, fees[k],
                                               pos.fee_growth_checkpoint[k])]
           rewardOwed == [r \in Reward |-> Settled(pos.reward_owed[r], pos.liquidity, rewards[r],
                                                   pos.reward_growth_checkpoint[r])]
<1>1. NextPositionModifyLiquidityUpdate(pos, delta, fees, rewards) =
        [pos EXCEPT !.liquidity = liquidity, !.fee_growth_checkpoint = fees,
                    !.fee_owed = feeOwed, !.reward_growth_checkpoint = rewards,
                    !.reward_owed = rewardOwed]
  BY DEF NextPositionModifyLiquidityUpdate, PositionType
<1>2. liquidity \in U128
  BY DEF AddLiquidityDelta, Checked
<1>3. feeOwed \in [Token -> U64]
  <2>1. ASSUME NEW k \in Token
        PROVE  Settled(pos.fee_owed[k], pos.liquidity, fees[k], pos.fee_growth_checkpoint[k]) \in U64
    <3>1. /\ pos.fee_owed[k] \in U64 /\ pos.liquidity \in U128
          /\ fees[k] \in U128 /\ pos.fee_growth_checkpoint[k] \in U128
      BY DEF PositionType
    <3> QED BY <3>1, SettledType
  <2> QED BY <2>1
<1>4. rewardOwed \in [Reward -> U64]
  <2>1. ASSUME NEW r \in Reward
        PROVE  Settled(pos.reward_owed[r], pos.liquidity, rewards[r],
                       pos.reward_growth_checkpoint[r]) \in U64
    <3>1. /\ pos.reward_owed[r] \in U64 /\ pos.liquidity \in U128
          /\ rewards[r] \in U128 /\ pos.reward_growth_checkpoint[r] \in U128
      BY DEF PositionType
    <3> QED BY <3>1, SettledType
  <2> QED BY <2>1
<1> HIDE DEF liquidity, feeOwed, rewardOwed
<1> QED BY <1>1, <1>2, <1>3, <1>4 DEF PositionType

----------------------------------------------------------------------------
(* The types of what a liquidity instruction writes.                       *)

\* The growths a position is settled by have their types.
LEMMA InsideTypes ==
    ASSUME TypeOK, NEW p \in Position
    PROVE  /\ NewRewardInfos \in RewardInfos
           /\ FeesInside(p) \in [Token -> U128]
           /\ RewardsInside(p) \in [Reward -> U128]
<1> DEFINE pos == positions[p]
           lower == ticks[pos.tick_lower_index]
           upper == ticks[pos.tick_upper_index]
<1>1. NewRewardInfos \in RewardInfos
  BY RewardInfosType DEF TypeOK, NewRewardInfos
<1>2. lower \in TickType /\ upper \in TickType
  BY DEF TypeOK, PositionType
<1> HIDE DEF lower, upper
<1>3. FeesInside(p) \in [Token -> U128]
  <2>1. ASSUME NEW k \in Token
        PROVE  GrowthInside(pool.tick_current_index, pool.fee_growth_global[k],
                   pos.tick_lower_index, lower.initialized, lower.fee_growth_outside[k],
                   pos.tick_upper_index, upper.initialized, upper.fee_growth_outside[k]) \in U128
    <3>1. /\ pool.fee_growth_global[k] \in U128
          /\ lower.initialized \in BOOLEAN /\ upper.initialized \in BOOLEAN
          /\ lower.fee_growth_outside[k] \in U128 /\ upper.fee_growth_outside[k] \in U128
      BY <1>2 DEF TypeOK, PoolType, TickType
    <3> QED BY <3>1, GrowthInsideType
  <2> QED BY <2>1 DEF FeesInside, NextFeeGrowthsInside, lower, upper
<1>4. RewardsInside(p) \in [Reward -> U128]
  <2>1. ASSUME NEW r \in Reward
        PROVE  GrowthInside(pool.tick_current_index, NewRewardInfos[r].growth_global,
                   pos.tick_lower_index, lower.initialized, lower.reward_growths_outside[r],
                   pos.tick_upper_index, upper.initialized, upper.reward_growths_outside[r]) \in U128
    <3>1. /\ NewRewardInfos[r].growth_global \in U128
          /\ lower.initialized \in BOOLEAN /\ upper.initialized \in BOOLEAN
          /\ lower.reward_growths_outside[r] \in U128
          /\ upper.reward_growths_outside[r] \in U128
      BY <1>1, <1>2 DEF RewardInfos, TickType
    <3> QED BY <3>1, GrowthInsideType
  <2> QED BY <2>1, Widths DEF RewardsInside, NextRewardGrowthsInside, lower, upper
<1> QED BY <1>1, <1>3, <1>4

\* All that a change of liquidity computes has its type.
LEMMA ModifyTypes ==
    ASSUME TypeOK, NEW p \in Position, NEW delta \in Int, CanModifyLiquidity(p, delta)
    PROVE  LET pos == positions[p]
           IN  /\ pos \in PositionType
               /\ UpdatedPosition(p, delta) \in PositionType
               /\ UpdatedTick(pos.tick_lower_index, delta, FALSE) \in TickType
               /\ UpdatedTick(pos.tick_upper_index, delta, TRUE) \in TickType
               /\ NextPoolLiquidity(pool, pos.tick_lower_index, pos.tick_upper_index, delta) \in U128
<1> DEFINE pos == positions[p]
<1>1. /\ pos \in PositionType /\ pool \in PoolType
      /\ pos.tick_lower_index \in UsableTick /\ pos.tick_upper_index \in UsableTick
  BY DEF TypeOK, PositionType
<1>2. /\ pos.tick_lower_index \in Int /\ pos.tick_upper_index \in Int
  BY <1>1, MathAssumption DEF UsableTick, TickIndex
<1>3. UpdatedPosition(p, delta) \in PositionType
  BY <1>1, InsideTypes, PositionModifyType DEF UpdatedPosition, CanModifyLiquidity
<1>4. /\ ticks[pos.tick_lower_index] \in TickType
      /\ ticks[pos.tick_upper_index] \in TickType
  BY <1>1 DEF TypeOK
<1>5. /\ UpdatedTick(pos.tick_lower_index, delta, FALSE) \in TickType
      /\ UpdatedTick(pos.tick_upper_index, delta, TRUE) \in TickType
  BY <1>1, <1>2, <1>4, InsideTypes, TickModifyType DEF UpdatedTick, CanModifyLiquidity
<1>6. NextPoolLiquidity(pool, pos.tick_lower_index, pos.tick_upper_index, delta) \in U128
  BY <1>1 DEF CanModifyLiquidity, NextPoolLiquidity, AddLiquidityDelta, Checked, PoolType
<1> QED BY <1>1, <1>3, <1>5, <1>6

\* A change of liquidity keeps the types of what it writes, and the price.
LEMMA SyncTypes ==
    ASSUME TypeOK, NEW p \in Position, NEW delta \in Int, CanModifyLiquidity(p, delta),
           SyncModifyLiquidity(p, delta)
    PROVE  /\ positions' \in [Position -> PositionType]
           /\ ticks' \in [UsableTick -> TickType]
           /\ pool' \in PoolType
           /\ pool'.sqrt_price = pool.sqrt_price
           /\ pool'.tick_current_index = pool.tick_current_index
<1> DEFINE pos == positions[p]
           liquidity == NextPoolLiquidity(pool, pos.tick_lower_index, pos.tick_upper_index, delta)
<1>1. /\ UpdatedPosition(p, delta) \in PositionType
      /\ UpdatedTick(pos.tick_lower_index, delta, FALSE) \in TickType
      /\ UpdatedTick(pos.tick_upper_index, delta, TRUE) \in TickType
      /\ liquidity \in U128
      /\ NewRewardInfos \in RewardInfos
  BY ModifyTypes, InsideTypes
<1>2. positions' \in [Position -> PositionType]
  BY <1>1 DEF SyncModifyLiquidity, TypeOK
<1>3. ticks' \in [UsableTick -> TickType]
  BY <1>1 DEF SyncModifyLiquidity, TypeOK
<1>4. pool' = [pool EXCEPT !.liquidity = liquidity, !.reward_infos = NewRewardInfos,
                           !.reward_last_updated_timestamp = now]
  BY DEF SyncModifyLiquidity
<1> HIDE DEF liquidity
<1>5. /\ pool' \in PoolType
      /\ pool'.sqrt_price = pool.sqrt_price
      /\ pool'.tick_current_index = pool.tick_current_index
  BY <1>1, <1>4 DEF TypeOK, PoolType
<1> QED BY <1>2, <1>3, <1>5

----------------------------------------------------------------------------
(* The vaults.                                                             *)

VaultType == [Token \cup Reward -> 0 .. Supply]

\* A transfer the supply allows keeps the vaults within it.
LEMMA DepositType ==
    ASSUME NEW v \in VaultType, NEW k \in Token \cup Reward, NEW amount \in Nat,
           CanDeposit(v, k, amount)
    PROVE  Deposit(v, k, amount) \in VaultType
<1>1. v[k] + amount \in 0 .. Supply
  BY PoolAssumption, WidthsAreNumbers DEF VaultType, CanDeposit
<1> QED BY <1>1 DEF VaultType, Deposit

\* A transfer the vault can pay keeps it above zero.
LEMMA WithdrawType ==
    ASSUME NEW v \in VaultType, NEW k \in Token \cup Reward, NEW amount \in Nat,
           CanWithdraw(v, k, amount)
    PROVE  Withdraw(v, k, amount) \in VaultType
<1>1. v[k] - amount \in 0 .. Supply
  BY PoolAssumption, WidthsAreNumbers DEF VaultType, CanWithdraw
<1> QED BY <1>1 DEF VaultType, Withdraw

\* Both tokens at once, as the liquidity instructions and the collections do it.
LEMMA BothTokensType ==
    ASSUME NEW v \in VaultType, NEW x \in Nat, NEW y \in Nat
    PROVE  /\ CanDeposit(v, "a", x) /\ CanDeposit(v, "b", y)
                => Deposit(Deposit(v, "a", x), "b", y) \in VaultType
           /\ CanWithdraw(v, "a", x) /\ CanWithdraw(v, "b", y)
                => Withdraw(Withdraw(v, "a", x), "b", y) \in VaultType
<1>1. "a" \in Token \cup Reward /\ "b" \in Token \cup Reward
  BY DEF Token
<1>2. ASSUME CanDeposit(v, "a", x), CanDeposit(v, "b", y)
      PROVE  Deposit(Deposit(v, "a", x), "b", y) \in VaultType
  <2>1. Deposit(v, "a", x) \in VaultType
    BY <1>1, <1>2, DepositType
  <2>2. CanDeposit(Deposit(v, "a", x), "b", y)
    BY <1>1, <1>2 DEF CanDeposit, Deposit, VaultType
  <2> QED BY <1>1, <2>1, <2>2, DepositType
<1>3. ASSUME CanWithdraw(v, "a", x), CanWithdraw(v, "b", y)
      PROVE  Withdraw(Withdraw(v, "a", x), "b", y) \in VaultType
  <2>1. Withdraw(v, "a", x) \in VaultType
    BY <1>1, <1>3, WithdrawType
  <2>2. CanWithdraw(Withdraw(v, "a", x), "b", y)
    BY <1>1, <1>3 DEF CanWithdraw, Withdraw, VaultType
  <2> QED BY <1>1, <2>1, <2>2, WithdrawType
<1> QED BY <1>2, <1>3

\* What liquidity is worth is a number, unless it is an error.
LEMMA LiquidityTokenDeltaType ==
    ASSUME NEW k \in Token, NEW pos, NEW amount, NEW up,
           LiquidityTokenDelta(k, pos, amount, up) # Err
    PROVE  LiquidityTokenDelta(k, pos, amount, up) \in Nat
BY GetAmountDeltaType, WidthsAreNumbers DEF LiquidityTokenDelta

----------------------------------------------------------------------------
(* The instructions other than swaps keep the types, and the price.        *)

KeepsPrice ==
    /\ Idle'
    /\ pool'.sqrt_price = pool.sqrt_price
    /\ pool'.tick_current_index = pool.tick_current_index

\* The budget stays a budget.
LEMMA SpendType ==
    ASSUME TypeOK, NEW kind \in Kind, Spend(kind)
    PROVE  budget' \in [Kind -> Nat]
BY DEF TypeOK, Spend

\* A closed position is a position.
LEMMA ClosedPositionType == ClosedPosition \in PositionType
<1>1. 0 \in UsableTick
  BY PoolAssumption, TickAssumption DEF UsableTick
<1> QED BY <1>1, Widths DEF ClosedPosition, PositionType

\* Next, and whatever else callers may ask for than a run lets them: any amount of
\* liquidity and any swap that an instruction can encode.
AnyPositionInstruction(p) ==
    \/ PositionInstruction(p)
    \/ \E amount \in U128 : IncreaseLiquidity(p, amount) \/ DecreaseLiquidity(p, amount)
AnyNext ==
    \/ Next
    \/ \E p \in Position : AnyPositionInstruction(p)
    \/ \E a \in SwapRequest : SwapBegin(a)

\* The instructions on a position keep the types, and the price and tick of the pool.
LEMMA AnyPositionTypes ==
    ASSUME TypeOK, NEW p \in Position, AnyPositionInstruction(p)
    PROVE  TypeOK' /\ KeepsPrice
<1> USE DEF Kind
<1>1. ASSUME NEW lower, NEW upper, OpenPosition(p, lower, upper) PROVE TypeOK' /\ KeepsPrice
  <2>1. [ClosedPosition EXCEPT !.open = TRUE, !.tick_lower_index = lower,
                               !.tick_upper_index = upper] \in PositionType
    BY <1>1, ClosedPositionType DEF OpenPosition, PositionType
  <2>2. positions' \in [Position -> PositionType]
    BY <1>1, <2>1 DEF OpenPosition, TypeOK
  <2>3. budget' \in [Kind -> Nat]
    BY <1>1, SpendType DEF OpenPosition
  <2> QED BY <1>1, <2>2, <2>3 DEF OpenPosition, TypeOK, KeepsPrice, Idle
<1>2. ASSUME ClosePosition(p) PROVE TypeOK' /\ KeepsPrice
  <2>1. positions' \in [Position -> PositionType]
    BY <1>2, ClosedPositionType DEF ClosePosition, TypeOK
  <2> QED BY <1>2, <2>1 DEF ClosePosition, TypeOK, KeepsPrice, Idle
<1>3. ASSUME NEW amount \in U128, IncreaseLiquidity(p, amount)
      PROVE  TypeOK' /\ KeepsPrice
  <2> DEFINE owes(k) == LiquidityTokenDelta(k, positions[p], amount, TRUE)
  <2>1. amount \in Int
    BY <1>3, WidthsAreNumbers DEF IncreaseLiquidity
  <2>2. CanModifyLiquidity(p, amount) /\ SyncModifyLiquidity(p, amount)
    BY <1>3 DEF IncreaseLiquidity
  <2>3. /\ CanDeposit(vault, "a", owes("a")) /\ CanDeposit(vault, "b", owes("b"))
        /\ owes("a") # Err /\ owes("b") # Err
        /\ vault' = Deposit(Deposit(vault, "a", owes("a")), "b", owes("b"))
    BY <1>3 DEF IncreaseLiquidity, Token
  <2>4. owes("a") \in Nat /\ owes("b") \in Nat
    BY <2>3, LiquidityTokenDeltaType DEF Token
  <2> HIDE DEF owes
  <2>5. vault' \in VaultType
    BY <2>3, <2>4, BothTokensType DEF TypeOK, VaultType
  <2>6. budget' \in [Kind -> Nat]
    BY <1>3, SpendType DEF IncreaseLiquidity
  <2>7. UNCHANGED <<arrays, now, swap, emitted, paid>> /\ Idle
    BY <1>3 DEF IncreaseLiquidity
  <2> QED BY <2>1, <2>2, <2>5, <2>6, <2>7, SyncTypes DEF TypeOK, KeepsPrice, Idle, VaultType
<1>4. ASSUME NEW amount \in U128, DecreaseLiquidity(p, amount)
      PROVE  TypeOK' /\ KeepsPrice
  <2> DEFINE gets(k) == LiquidityTokenDelta(k, positions[p], amount, FALSE)
             delta == -amount
  <2>1. delta \in Int
    BY <1>4, WidthsAreNumbers DEF DecreaseLiquidity
  <2>2. CanModifyLiquidity(p, delta) /\ SyncModifyLiquidity(p, delta)
    BY <1>4 DEF DecreaseLiquidity
  <2>3. /\ CanWithdraw(vault, "a", gets("a")) /\ CanWithdraw(vault, "b", gets("b"))
        /\ gets("a") # Err /\ gets("b") # Err
        /\ vault' = Withdraw(Withdraw(vault, "a", gets("a")), "b", gets("b"))
    BY <1>4 DEF DecreaseLiquidity, Token
  <2>4. gets("a") \in Nat /\ gets("b") \in Nat
    BY <2>3, LiquidityTokenDeltaType DEF Token
  <2> HIDE DEF gets, delta
  <2>5. vault' \in VaultType
    BY <2>3, <2>4, BothTokensType DEF TypeOK, VaultType
  <2>6. budget' \in [Kind -> Nat]
    BY <1>4, SpendType DEF DecreaseLiquidity
  <2>7. UNCHANGED <<arrays, now, swap, emitted, paid>> /\ Idle
    BY <1>4 DEF DecreaseLiquidity
  <2> QED BY <2>1, <2>2, <2>5, <2>6, <2>7, SyncTypes DEF TypeOK, KeepsPrice, Idle, VaultType
<1>5. ASSUME UpdateFeesAndRewards(p) PROVE TypeOK' /\ KeepsPrice
  <2>1. UpdatedPosition(p, 0) \in PositionType /\ NewRewardInfos \in RewardInfos
    BY <1>5, ModifyTypes, InsideTypes, 0 \in Int DEF UpdateFeesAndRewards
  <2>2. positions' \in [Position -> PositionType]
    BY <1>5, <2>1 DEF UpdateFeesAndRewards, TypeOK
  <2>3. pool' = [pool EXCEPT !.reward_infos = NewRewardInfos,
                             !.reward_last_updated_timestamp = now]
    BY <1>5 DEF UpdateFeesAndRewards
  <2>4. /\ pool' \in PoolType
        /\ pool'.sqrt_price = pool.sqrt_price
        /\ pool'.tick_current_index = pool.tick_current_index
    BY <2>1, <2>3 DEF TypeOK, PoolType
  <2> QED BY <1>5, <2>2, <2>4 DEF UpdateFeesAndRewards, TypeOK, KeepsPrice, Idle
<1>6. ASSUME CollectFees(p) PROVE TypeOK' /\ KeepsPrice
  <2> DEFINE owed == positions[p].fee_owed
  <2>1. /\ positions[p] \in PositionType
        /\ owed["a"] \in Nat /\ owed["b"] \in Nat
    BY WidthsAreNumbers DEF TypeOK, PositionType, Token
  <2>2. vault' \in VaultType
    BY <1>6, <2>1, BothTokensType DEF CollectFees, TypeOK, VaultType, Token
  <2>3. [positions[p] EXCEPT !.fee_owed = [k \in Token |-> 0]] \in PositionType
    BY <2>1, Widths DEF PositionType
  <2>4. positions' \in [Position -> PositionType]
    BY <1>6, <2>3 DEF CollectFees, TypeOK
  <2>5. budget' \in [Kind -> Nat]
    BY <1>6, SpendType DEF CollectFees
  <2> QED BY <1>6, <2>2, <2>4, <2>5 DEF CollectFees, TypeOK, KeepsPrice, Idle, VaultType
<1>7. ASSUME NEW r \in Reward, CollectReward(p, r) PROVE TypeOK' /\ KeepsPrice
  <2> DEFINE owed == positions[p].reward_owed[r]
             amount == Lesser(owed, vault[r])
  <2>1. positions[p] \in PositionType /\ owed \in U64 /\ vault[r] \in Nat
    BY DEF TypeOK, PositionType
  <2>2. amount \in Nat /\ amount <= vault[r] /\ amount <= owed
    BY <2>1, WidthsAreNumbers DEF Lesser
  <2> HIDE DEF amount
  <2>3. Withdraw(vault, r, amount) \in VaultType
    BY <2>2, WithdrawType DEF CanWithdraw, TypeOK, VaultType
  <2>4. owed - amount \in U64
    BY <2>1, <2>2, WidthsAreNumbers, Widths DEF U64
  <2>5. [positions[p] EXCEPT !.reward_owed[r] = owed - amount] \in PositionType
    BY <2>1, <2>4 DEF PositionType
  <2>6. positions' = [positions EXCEPT ![p] =
                        [positions[p] EXCEPT !.reward_owed[r] = owed - amount]]
    BY <1>7 DEF CollectReward, TypeOK, amount
  <2>7. positions' \in [Position -> PositionType]
    BY <2>5, <2>6 DEF TypeOK
  <2>8. paid' = [paid EXCEPT ![r] = @ + amount] /\ vault' = Withdraw(vault, r, amount)
    BY <1>7 DEF CollectReward, amount
  <2>9. paid' \in [Reward -> Nat]
    BY <2>2, <2>8 DEF TypeOK
  <2>10. budget' \in [Kind -> Nat]
    BY <1>7, SpendType DEF CollectReward
  <2> QED BY <1>7, <2>3, <2>7, <2>8, <2>9, <2>10
          DEF CollectReward, TypeOK, KeepsPrice, Idle, VaultType
<1> QED BY <1>1, <1>2, <1>3, <1>4, <1>5, <1>6, <1>7, PoolAssumption
        DEF PositionInstruction, AnyPositionInstruction

\* And so do those of a run.
LEMMA PositionInstructionTypes ==
    ASSUME TypeOK, NEW p \in Position, PositionInstruction(p)
    PROVE  TypeOK' /\ KeepsPrice
BY AnyPositionTypes DEF AnyPositionInstruction

\* So do the instructions on rewards.
LEMMA RewardInstructionTypes ==
    ASSUME TypeOK, RewardInstruction
    PROVE  TypeOK' /\ KeepsPrice
<1> USE DEF Kind
<1>0. pool \in PoolType /\ pool.reward_infos \in RewardInfos /\ now \in Nat
  BY DEF TypeOK, PoolType
<1>1. ASSUME NEW i \in DOMAIN RewardSlots, InitializeReward(i) PROVE TypeOK' /\ KeepsPrice
  <2> DEFINE r == RewardSlots[i]
             infos == [pool.reward_infos EXCEPT ![r].initialized = TRUE]
  <2>1. r \in Reward
    BY DEF Reward
  <2>2. infos \in RewardInfos
    BY <1>0, <2>1 DEF RewardInfos
  <2>3. pool' = [pool EXCEPT !.reward_infos = infos]
    BY <1>0, <1>1 DEF InitializeReward, PoolType
  <2> HIDE DEF infos
  <2>4. /\ pool' \in PoolType
        /\ pool'.sqrt_price = pool.sqrt_price
        /\ pool'.tick_current_index = pool.tick_current_index
    BY <1>0, <2>2, <2>3 DEF PoolType
  <2>5. budget' \in [Kind -> Nat]
    BY <1>1, SpendType DEF InitializeReward
  <2> QED BY <1>1, <2>4, <2>5 DEF InitializeReward, TypeOK, KeepsPrice, Idle
<1>2. ASSUME NEW r \in Reward, NEW amount \in Fundings, FundReward(r, amount)
      PROVE  TypeOK' /\ KeepsPrice
  <2>1. amount \in Nat
    BY PoolAssumption, WidthsAreNumbers
  <2>2. vault' \in VaultType
    BY <1>2, <2>1, DepositType DEF FundReward, TypeOK, VaultType
  <2>3. budget' \in [Kind -> Nat]
    BY <1>2, SpendType DEF FundReward
  <2> QED BY <1>2, <2>2, <2>3 DEF FundReward, TypeOK, KeepsPrice, Idle, VaultType
<1>3. ASSUME NEW r \in Reward, NEW emissions \in Emissions, SetRewardEmissions(r, emissions)
      PROVE  TypeOK' /\ KeepsPrice
  <2> DEFINE infos == [NewRewardInfos EXCEPT ![r].emissions = emissions]
  <2>1. NewRewardInfos \in RewardInfos
    BY <1>0, RewardInfosType DEF NewRewardInfos
  <2>2. infos \in RewardInfos
    BY <2>1, PoolAssumption DEF RewardInfos
  <2>3. pool' = [pool EXCEPT !.reward_infos = infos, !.reward_last_updated_timestamp = now]
    BY <1>3 DEF SetRewardEmissions
  <2> HIDE DEF infos
  <2>4. /\ pool' \in PoolType
        /\ pool'.sqrt_price = pool.sqrt_price
        /\ pool'.tick_current_index = pool.tick_current_index
    BY <1>0, <2>2, <2>3 DEF PoolType
  <2>5. budget' \in [Kind -> Nat]
    BY <1>3, SpendType DEF SetRewardEmissions
  <2> QED BY <1>3, <2>4, <2>5 DEF SetRewardEmissions, TypeOK, KeepsPrice, Idle
<1> QED BY <1>1, <1>2, <1>3 DEF RewardInstruction

\* So do the instructions on the pool and the tick arrays.
LEMMA PoolInstructionTypes ==
    ASSUME TypeOK, PoolInstruction
    PROVE  TypeOK' /\ KeepsPrice
<1> USE DEF Kind
<1>1. ASSUME NEW start \in ArrayStart, InitializeTickArray(start) PROVE TypeOK' /\ KeepsPrice
  <2>1. budget' \in [Kind -> Nat]
    BY <1>1, SpendType DEF InitializeTickArray
  <2> QED BY <1>1, <2>1 DEF InitializeTickArray, TypeOK, KeepsPrice, Idle
<1>2. ASSUME CollectProtocolFees PROVE TypeOK' /\ KeepsPrice
  <2> DEFINE owed == pool.protocol_fee_owed
  <2>1. owed["a"] \in Nat /\ owed["b"] \in Nat
    BY WidthsAreNumbers DEF TypeOK, PoolType, Token
  <2>2. vault' \in VaultType
    BY <1>2, <2>1, BothTokensType DEF CollectProtocolFees, TypeOK, VaultType, Token
  <2>3. /\ pool' \in PoolType
        /\ pool'.sqrt_price = pool.sqrt_price
        /\ pool'.tick_current_index = pool.tick_current_index
    BY <1>2, Widths DEF CollectProtocolFees, TypeOK, PoolType
  <2>4. budget' \in [Kind -> Nat]
    BY <1>2, SpendType DEF CollectProtocolFees
  <2> QED BY <1>2, <2>2, <2>3, <2>4 DEF CollectProtocolFees, TypeOK, KeepsPrice, Idle, VaultType
<1>3. ASSUME NEW rate \in FeeRates, SetFeeRate(rate) PROVE TypeOK' /\ KeepsPrice
  <2>1. rate \in 0 .. MAX_FEE_RATE
    BY <1>3, PoolAssumption DEF SetFeeRate
  <2>2. /\ pool' \in PoolType
        /\ pool'.sqrt_price = pool.sqrt_price
        /\ pool'.tick_current_index = pool.tick_current_index
    BY <1>3, <2>1 DEF SetFeeRate, TypeOK, PoolType
  <2>3. budget' \in [Kind -> Nat]
    BY <1>3, SpendType DEF SetFeeRate
  <2> QED BY <1>3, <2>2, <2>3 DEF SetFeeRate, TypeOK, KeepsPrice, Idle
<1>4. ASSUME NEW rate \in ProtocolFeeRates, SetProtocolFeeRate(rate) PROVE TypeOK' /\ KeepsPrice
  <2>1. rate \in 0 .. MAX_PROTOCOL_FEE_RATE
    BY <1>4, PoolAssumption DEF SetProtocolFeeRate
  <2>2. /\ pool' \in PoolType
        /\ pool'.sqrt_price = pool.sqrt_price
        /\ pool'.tick_current_index = pool.tick_current_index
    BY <1>4, <2>1 DEF SetProtocolFeeRate, TypeOK, PoolType
  <2>3. budget' \in [Kind -> Nat]
    BY <1>4, SpendType DEF SetProtocolFeeRate
  <2> QED BY <1>4, <2>2, <2>3 DEF SetProtocolFeeRate, TypeOK, KeepsPrice, Idle
<1> QED BY <1>1, <1>2, <1>3, <1>4 DEF PoolInstruction

\* So does time.
LEMMA AdvanceTimeTypes ==
    ASSUME TypeOK, AdvanceTime
    PROVE  TypeOK' /\ KeepsPrice
<1>1. now' \in Nat
  BY DEF AdvanceTime, TypeOK
<1>2. emitted' \in [Reward -> Nat]
  <2>1. ASSUME NEW r \in Reward PROVE emitted[r] + pool.reward_infos[r].emissions \in Nat
    <3>1. emitted[r] \in Nat /\ pool.reward_infos[r].emissions \in U128
      BY DEF TypeOK, PoolType, RewardInfos
    <3> QED BY <3>1, WidthsAreNumbers
  <2> QED BY <2>1 DEF AdvanceTime
<1>3. budget' \in [Kind -> Nat]
  BY SpendType DEF AdvanceTime, Kind
<1> QED BY <1>1, <1>2, <1>3 DEF AdvanceTime, TypeOK, KeepsPrice, Idle

----------------------------------------------------------------------------
(* The swap.  TypeOK and PriceMatchesTick are not inductive without what   *)
(* the loop knows of its arguments: where its limit lies, and that no more *)
(* remains than was asked for.                                             *)

SwapWithinLimits ==
    ~Idle =>
        /\ swap.args.sqrt_price_limit \in SqrtPriceRange
        /\ IF swap.args.a_to_b THEN swap.args.sqrt_price_limit <= swap.curr_sqrt_price
           ELSE swap.curr_sqrt_price <= swap.args.sqrt_price_limit
        /\ Len(swap.args.arrays) <= 3
        /\ swap.amount_remaining <= swap.args.amount

IInv == TypeOK /\ PriceMatchesTick /\ SwapWithinLimits

\* Prices in range are positive u128 numbers.
LEMMA SqrtPriceRangeType ==
    /\ SqrtPriceRange \subseteq Nat \ {0}
    /\ \A t \in TickIndex : SqrtPrice[t] \in SqrtPriceRange
    /\ TickIndex \subseteq CurrentTick
    /\ UsableTick \subseteq TickIndex
    /\ CurrentTick \subseteq Int
<1>1. MIN_SQRT_PRICE_X64 \in Nat \ {0} /\ MAX_SQRT_PRICE_X64 \in Nat \ {0}
  BY SqrtPriceType DEF MIN_SQRT_PRICE_X64, MAX_SQRT_PRICE_X64
<1>2. ASSUME NEW t \in TickIndex PROVE SqrtPrice[t] \in SqrtPriceRange
  <2>1. /\ MIN_TICK_INDEX <= t /\ t <= MAX_TICK_INDEX
        /\ MIN_TICK_INDEX \in TickIndex /\ MAX_TICK_INDEX \in TickIndex
    BY SqrtPriceType DEF TickIndex
  <2>2. SqrtPrice[MIN_TICK_INDEX] <= SqrtPrice[t] /\ SqrtPrice[t] <= SqrtPrice[MAX_TICK_INDEX]
    BY <2>1, SqrtPriceType
  <2>3. SqrtPrice[t] \in Nat
    BY SqrtPriceType
  <2> QED BY <1>1, <2>2, <2>3 DEF SqrtPriceRange, MIN_SQRT_PRICE_X64, MAX_SQRT_PRICE_X64
<1>3. SqrtPriceRange \subseteq Nat \ {0}
  BY <1>1 DEF SqrtPriceRange
<1>4. TickIndex \subseteq CurrentTick /\ CurrentTick \subseteq Int /\ UsableTick \subseteq TickIndex
  BY MathAssumption DEF TickIndex, CurrentTick, UsableTick
<1> QED BY <1>2, <1>3, <1>4

\* The price of a tick leads back to that tick.
LEMMA TickOfTickPrice ==
    ASSUME NEW t \in TickIndex
    PROVE  TickIndexFromSqrtPrice(SqrtPrice[t]) = t
<1> DEFINE u == TickIndexFromSqrtPrice(SqrtPrice[t])
<1>1. SqrtPrice[t] \in MIN_SQRT_PRICE_X64 .. MAX_SQRT_PRICE_X64
  BY SqrtPriceRangeType DEF SqrtPriceRange
<1>2. /\ u \in TickIndex
      /\ SqrtPrice[u] <= SqrtPrice[t]
      /\ u = MAX_TICK_INDEX \/ SqrtPrice[t] < SqrtPrice[u + 1]
  BY <1>1, TickOfPrice
<1> HIDE DEF u
<1>3. SqrtPrice[t] \in Nat /\ SqrtPrice[u] \in Nat
  BY <1>2, SqrtPriceType
<1>4. t \in Int /\ u \in Int /\ t <= MAX_TICK_INDEX /\ u <= MAX_TICK_INDEX
  BY <1>2, MathAssumption DEF TickIndex
<1>5. ~(t < u)
  BY <1>2, <1>3, MathAssumption
<1>6. ~(u < t)
  <2>1. SUFFICES ASSUME u < t PROVE FALSE
    OBVIOUS
  <2>2. u + 1 \in TickIndex /\ u + 1 <= t
    BY <1>2, <1>4, <2>1, MathAssumption DEF TickIndex
  <2>3. SqrtPrice[u + 1] <= SqrtPrice[t] /\ SqrtPrice[u + 1] \in Nat
    BY <2>2, SqrtPriceType
  <2>4. SqrtPrice[t] < SqrtPrice[u + 1]
    BY <1>2, <1>4, <2>1, MathAssumption
  <2> QED BY <1>3, <2>3, <2>4
<1>7. u = t
  BY <1>4, <1>5, <1>6
<1> QED BY <1>7 DEF u

\* A tick left of the current one is not above the price; one right of it is
\* not below the price.
LEMMA TicksAround ==
    ASSUME NEW price \in SqrtPriceRange, NEW tick \in CurrentTick, PriceIsAt(price, tick),
           NEW t \in TickIndex
    PROVE  /\ t <= tick => SqrtPrice[t] <= price
           /\ tick < t => price <= SqrtPrice[t]
<1>1. /\ tick \in Int /\ t \in Int /\ price \in Nat /\ SqrtPrice[t] \in Nat
      /\ t <= MAX_TICK_INDEX /\ MAX_TICK_INDEX \in Int
  BY SqrtPriceRangeType, SqrtPriceType, MathAssumption DEF TickIndex
<1>2. CASE tick \in TickIndex /\ tick = TickIndexFromSqrtPrice(price)
  <2>1. /\ SqrtPrice[tick] <= price
        /\ tick = MAX_TICK_INDEX \/ price < SqrtPrice[tick + 1]
    BY <1>2, TickOfPrice DEF SqrtPriceRange
  <2>2. SqrtPrice[tick] \in Nat
    BY <1>2, SqrtPriceType
  <2>3. t <= tick => SqrtPrice[t] <= price
    BY <1>1, <1>2, <2>1, <2>2, SqrtPriceType
  <2>4. ASSUME tick < t PROVE price <= SqrtPrice[t]
    <3>1. tick + 1 \in TickIndex /\ tick + 1 <= t /\ tick # MAX_TICK_INDEX
      BY <1>1, <1>2, <2>4, MathAssumption DEF TickIndex
    <3>2. SqrtPrice[tick + 1] <= SqrtPrice[t] /\ SqrtPrice[tick + 1] \in Nat
      BY <3>1, SqrtPriceType
    <3> QED BY <1>1, <2>1, <3>1, <3>2
  <2> QED BY <2>3, <2>4
<1>3. CASE tick + 1 \in TickIndex /\ price = SqrtPrice[tick + 1]
  BY <1>1, <1>3, SqrtPriceType
<1> QED BY <1>2, <1>3 DEF PriceIsAt

\* What the arguments of a swap are.
LEMMA SwapArgsType ==
    ASSUME NEW a \in SwapRequest
    PROVE  /\ a.a_to_b \in BOOLEAN /\ a.amount_specified_is_input \in BOOLEAN
           /\ a.amount \in U64 /\ a.arrays \in Seq(Int)
           /\ InputToken(a) \in Token /\ OutputToken(a) \in Token
BY DEF SwapRequest, InputToken, OutputToken, Token

\* A swap begins within its limits.
LEMMA SwapBeginInv ==
    ASSUME TypeOK, PriceMatchesTick, NEW a \in SwapRequest, SwapBegin(a)
    PROVE  IInv'
<1>1. swap' = SwapStart(pool, ticks, a)
  BY DEF SwapBegin
<1>2. SwapStart(pool, ticks, a) \in SwapType
  <2>1. 0 \in U64 /\ 1 \in 1 .. 4
    BY Widths
  <2> QED BY <2>1, SwapArgsType DEF SwapStart, SwapType, TypeOK, PoolType
<1>3. TypeOK'
  BY <1>1, <1>2 DEF SwapBegin, TypeOK
<1>4. /\ swap'.args = a
      /\ swap'.curr_sqrt_price = pool.sqrt_price
      /\ swap'.curr_tick_index = pool.tick_current_index
      /\ swap'.amount_remaining = a.amount
  BY <1>1 DEF SwapStart
<1>5. PriceMatchesTick'
  BY <1>4 DEF PriceMatchesTick, SwapBegin
<1>6. SwapWithinLimits'
  <2>1. a.amount <= a.amount
    BY SwapArgsType, WidthsAreNumbers
  <2> QED BY <1>4, <2>1 DEF SwapWithinLimits, SwapBegin, SwapAllowed, SwapArraysLoad, SqrtPriceRange
<1> QED BY <1>3, <1>5, <1>6 DEF IInv

\* What an iteration looks up: a tick ahead, and so a target between the price
\* and the limit.
LEMMA SearchInv ==
    ASSUME IInv, ~Idle, SwapRunning(swap), CanSearch(swap)
    PROVE  LET s == swap
               j == NextArrayIndex(s)
               t == NextTick(s, j)
               target == SqrtPriceTarget(s, t)
           IN  /\ s \in SwapType
               /\ j \in s.curr_array_index .. 3
               /\ t \in TickIndex
               /\ IF s.args.a_to_b THEN t <= s.curr_tick_index ELSE s.curr_tick_index < t
               /\ target \in SqrtPriceRange
               /\ IF s.args.a_to_b
                  THEN s.args.sqrt_price_limit <= target /\ target <= s.curr_sqrt_price
                  ELSE s.curr_sqrt_price <= target /\ target <= s.args.sqrt_price_limit
<1> DEFINE s == swap
           j == NextArrayIndex(s)
           t == NextTick(s, j)
           target == SqrtPriceTarget(s, t)
           limit == s.args.sqrt_price_limit
           price == s.curr_sqrt_price
           tick == s.curr_tick_index
           aToB == s.args.a_to_b
<1>1. s \in SwapType
  BY DEF IInv, TypeOK, Idle
<1>2. /\ price \in SqrtPriceRange /\ tick \in CurrentTick /\ s.curr_array_index \in 1 .. 4
      /\ s.args \in SwapRequest
      /\ aToB \in BOOLEAN /\ s.args.arrays \in Seq(Int)
  BY <1>1, SwapArgsType DEF SwapType
<1>3. /\ limit \in SqrtPriceRange /\ limit # price
      /\ IF aToB THEN limit <= price ELSE price <= limit
      /\ Len(s.args.arrays) <= 3
      /\ PriceIsAt(price, tick)
  BY DEF IInv, SwapWithinLimits, SwapRunning, PriceMatchesTick
<1>4. /\ tick \in Int /\ price \in Nat /\ limit \in Nat
      /\ MIN_SQRT_PRICE_X64 \in Nat /\ MAX_SQRT_PRICE_X64 \in Nat
      /\ MIN_TICK_INDEX \in TickIndex /\ MAX_TICK_INDEX \in TickIndex
      /\ MIN_TICK_INDEX \in Int /\ MAX_TICK_INDEX \in Int
      /\ MIN_SQRT_PRICE_X64 = SqrtPrice[MIN_TICK_INDEX]
      /\ MAX_SQRT_PRICE_X64 = SqrtPrice[MAX_TICK_INDEX]
  BY <1>2, <1>3, SqrtPriceRangeType, SqrtPriceType, MathAssumption
     DEF MIN_SQRT_PRICE_X64, MAX_SQRT_PRICE_X64
<1>5. MIN_SQRT_PRICE_X64 <= limit /\ limit <= MAX_SQRT_PRICE_X64
  BY <1>3, <1>4 DEF SqrtPriceRange
<1>6. IF aToB THEN MIN_TICK_INDEX <= tick ELSE tick < MAX_TICK_INDEX
  <2>1. ASSUME aToB, tick < MIN_TICK_INDEX PROVE FALSE
    <3>1. price <= SqrtPrice[MIN_TICK_INDEX]
      BY <1>2, <1>3, <1>4, <2>1, TicksAround
    <3> QED BY <1>3, <1>4, <1>5, <2>1, <3>1
  <2>2. ASSUME ~aToB, MAX_TICK_INDEX <= tick PROVE FALSE
    <3>1. SqrtPrice[MAX_TICK_INDEX] <= price
      BY <1>2, <1>3, <1>4, <2>2, TicksAround
    <3> QED BY <1>3, <1>4, <1>5, <2>2, <3>1
  <2> QED BY <1>2, <1>4, <2>1, <2>2
<1>7. SearchOk(s.ticks, s.args.arrays, s.curr_array_index, tick, aToB)
  BY DEF CanSearch
<1>8. /\ j \in s.curr_array_index .. Len(s.args.arrays)
      /\ t \in TickIndex
      /\ IF aToB THEN t <= tick ELSE tick < t
  <2>1. s.curr_array_index \in Nat \ {0}
    BY <1>2
  <2>2. tick \in MIN_TICK_INDEX - 1 .. MAX_TICK_INDEX
    BY <1>2 DEF CurrentTick
  <2> QED BY <1>2, <1>3, <1>6, <1>7, <2>1, <2>2, NextTickIsAhead DEF NextArrayIndex, NextTick
<1>9. j \in s.curr_array_index .. 3
  BY <1>2, <1>3, <1>8
<1> HIDE DEF t, j
<1>10. /\ SqrtPrice[t] \in SqrtPriceRange /\ SqrtPrice[t] \in Nat
       /\ IF aToB THEN SqrtPrice[t] <= price ELSE price <= SqrtPrice[t]
  BY <1>2, <1>3, <1>8, TicksAround, SqrtPriceRangeType
<1>11. target = IF aToB THEN Greater(limit, SqrtPrice[t]) ELSE Lesser(limit, SqrtPrice[t])
  BY DEF SqrtPriceTarget
<1> HIDE DEF target, limit, price, tick, aToB, s
<1>12. /\ target \in SqrtPriceRange
       /\ IF aToB THEN limit <= target /\ target <= price
          ELSE price <= target /\ target <= limit
  BY <1>2, <1>3, <1>4, <1>10, <1>11 DEF Greater, Lesser
<1> QED BY <1>1, <1>8, <1>9, <1>12 DEF s, j, t, target, limit, price, tick, aToB

\* The price between the old one and the limit.
BetweenPriceAndLimit(s, next) ==
    IF s.args.a_to_b
    THEN s.args.sqrt_price_limit <= next /\ next <= s.curr_sqrt_price
    ELSE s.curr_sqrt_price <= next /\ next <= s.args.sqrt_price_limit

\* The computation of a step ends between the price and the limit: the target does, and
\* compute_swap stays before its target.
LEMMA ComputationInv ==
    ASSUME IInv, ~Idle, SwapRunning(swap), CanSearch(swap),
           NEW t \in TickIndex, t = NextTick(swap, NextArrayIndex(swap)),
           NEW c, c = SwapComputation(pool, swap, t), c.ok
    PROVE  /\ c.next_price \in SqrtPriceRange
           /\ BetweenPriceAndLimit(swap, c.next_price)
           /\ IF swap.args.a_to_b THEN SqrtPriceTarget(swap, t) <= c.next_price
              ELSE c.next_price <= SqrtPriceTarget(swap, t)
           /\ c.amount_in \in U64 /\ c.amount_out \in U64 /\ c.fee_amount \in U64
<1> DEFINE s == swap
           P == s.curr_sqrt_price
           T == SqrtPriceTarget(s, t)
           limit == s.args.sqrt_price_limit
           isInput == s.args.amount_specified_is_input
           aToB == s.args.a_to_b
           rate == pool.fee_rate
           L == s.curr_liquidity
           rest == s.amount_remaining
<1>1. s \in SwapType /\ pool \in PoolType
  BY DEF IInv, TypeOK, Idle
<1>2. /\ T \in SqrtPriceRange
      /\ IF aToB THEN limit <= T /\ T <= P ELSE P <= T /\ T <= limit
  BY SearchInv
<1>3. /\ rest \in U64 /\ L \in U128 /\ isInput \in BOOLEAN /\ aToB \in BOOLEAN
      /\ P \in SqrtPriceRange /\ rate \in 0 .. MAX_FEE_RATE
  BY <1>1, SwapArgsType DEF SwapType, PoolType
<1>4. limit \in SqrtPriceRange
  BY DEF IInv, SwapWithinLimits
<1>5. /\ P \in Nat \ {0} /\ T \in Nat \ {0} /\ limit \in Nat
      /\ rate \in 0 .. FEE_RATE_MUL_VALUE - 1
  <2>1. rate \in 0 .. FEE_RATE_MUL_VALUE - 1
    BY <1>3, PoolAssumption, MathAssumption
  <2> QED BY <1>2, <1>3, <1>4, <2>1, SqrtPriceRangeType
<1>6. c = ComputeSwap(rest, rate, L, P, T, isInput, aToB)
  BY DEF SwapComputation
<1> HIDE DEF s, P, T, limit, isInput, aToB, rate, L, rest
<1>7. c.amount_in \in U64 /\ c.amount_out \in U64 /\ c.fee_amount \in U64
  BY <1>3, <1>6, ComputeSwapOk
<1>8. c.next_price \in IF aToB THEN T .. P ELSE P .. T
  BY <1>2, <1>3, <1>5, <1>6, StepStaysBeforeTarget
<1> DEFINE next == c.next_price
<1> HIDE DEF next
<1>9. next \in IF aToB THEN T .. P ELSE P .. T
  BY <1>8 DEF next
<1>10. next \in SqrtPriceRange
  <2>1. MIN_SQRT_PRICE_X64 \in Int /\ MAX_SQRT_PRICE_X64 \in Int
    BY SqrtPriceType DEF MIN_SQRT_PRICE_X64, MAX_SQRT_PRICE_X64
  <2> QED BY <1>2, <1>3, <1>5, <1>9, <2>1 DEF SqrtPriceRange
<1>11. IF aToB THEN limit <= next /\ next <= P ELSE P <= next /\ next <= limit
  BY <1>2, <1>3, <1>5, <1>9
<1>12. IF aToB THEN T <= next ELSE next <= T
  BY <1>3, <1>5, <1>9
<1> QED BY <1>7, <1>10, <1>11, <1>12 DEF BetweenPriceAndLimit, next, s, P, T, limit, aToB

\* A step keeps the types, the agreement of price and tick, and the limits.
LEMMA StepSwapInv ==
    ASSUME IInv, ~Idle, SwapRunning(swap), CanSearch(swap),
           NEW j, j = NextArrayIndex(swap), NEW t, t = NextTick(swap, j),
           NEW c, c = SwapComputation(pool, swap, t), StepOk(pool, swap, j, t, c)
    PROVE  LET next == StepSwap(pool, swap, j, t, c, NewRewardInfos)
           IN  /\ next \in SwapType
               /\ next.args = swap.args
               /\ next.amount_remaining <= swap.amount_remaining
               /\ PriceIsAt(next.curr_sqrt_price, next.curr_tick_index)
               /\ BetweenPriceAndLimit(swap, next.curr_sqrt_price)
<1> DEFINE s == swap
           next == StepSwap(pool, swap, j, t, c, NewRewardInfos)
           reached == c.next_price = SqrtPrice[t]
           crossed == reached /\ CrossesTick(s, j, t)
           remaining == AmountRemaining(s, c)
           protocolFee == NextProtocolFee(pool, s, c)
           growth == NextFeeGrowth(pool, s, c)
           liquidity == IF crossed THEN LiquidityAfterCross(s.ticks[t], s.args.a_to_b, s.curr_liquidity)
                        ELSE s.curr_liquidity
           newTicks == IF crossed THEN TicksAfterCross(pool, s, t, c, NewRewardInfos) ELSE s.ticks
           array == IF reached THEN ArrayIndexAfterTick(s, j, t) ELSE s.curr_array_index
           tick == IF reached THEN TickAfterTick(s, t) ELSE TickAfterShortStep(s, c.next_price)
<1>1. s \in SwapType /\ pool \in PoolType /\ s.args \in SwapRequest
  BY DEF IInv, TypeOK, Idle, SwapType
<1>2. t \in TickIndex /\ j \in s.curr_array_index .. 3 /\ s.curr_array_index \in 1 .. 4
  BY <1>1, SearchInv DEF SwapType
<1>3. /\ c.next_price \in SqrtPriceRange
      /\ BetweenPriceAndLimit(swap, c.next_price)
      /\ c.amount_in \in U64 /\ c.amount_out \in U64 /\ c.fee_amount \in U64
  BY <1>2, ComputationInv DEF StepOk
<1>4. next = [s EXCEPT !.amount_remaining = remaining,
                       !.amount_calculated = AmountCalculated(s, c),
                       !.curr_protocol_fee = protocolFee,
                       !.curr_fee_growth_global_input = growth,
                       !.curr_liquidity = liquidity,
                       !.ticks = newTicks,
                       !.curr_array_index = array,
                       !.curr_tick_index = tick,
                       !.curr_sqrt_price = c.next_price]
  BY <1>1 DEF StepSwap, SwapType
<1>5. remaining \in U64 /\ remaining <= s.amount_remaining
  <2>1. s.amount_remaining \in U64 /\ remaining >= 0
    BY <1>1 DEF SwapType, StepOk
  <2>2. CASE s.args.amount_specified_is_input
    <3>1. remaining = s.amount_remaining - c.amount_in - c.fee_amount
      BY <2>2 DEF AmountRemaining
    <3> HIDE DEF remaining
    <3> QED BY <1>3, <2>1, <3>1, Widths DEF U64
  <2>3. CASE ~s.args.amount_specified_is_input
    <3>1. remaining = s.amount_remaining - c.amount_out
      BY <2>3 DEF AmountRemaining
    <3> HIDE DEF remaining
    <3> QED BY <1>3, <2>1, <3>1, Widths DEF U64
  <2> QED BY <2>2, <2>3
<1>6. AmountCalculated(s, c) \in U64 /\ growth \in U128
  BY DEF StepOk
<1>7. protocolFee \in U64
  <2>1. /\ c.fee_amount \in Nat /\ pool.protocol_fee_rate \in Nat
        /\ s.curr_protocol_fee \in Int
    BY <1>1, <1>3, WidthsAreNumbers, PoolAssumption DEF PoolType, SwapType
  <2> DEFINE x == c.fee_amount * pool.protocol_fee_rate
  <2>2. x \in Nat
    BY <2>1, MulNat
  <2>3. x \div PROTOCOL_FEE_RATE_MUL_VALUE \in Int
    <3> HIDE DEF x
    <3> QED BY <2>2, DivType, MathAssumption
  <2>4. CalculateProtocolFee(c.fee_amount, pool.protocol_fee_rate) \in Int
    BY <2>3 DEF CalculateProtocolFee
  <2> QED BY <2>1, <2>4, WrappingType DEF NextProtocolFee
<1>8. liquidity \in U128
  <2>1. crossed => LiquidityAfterCross(s.ticks[t], s.args.a_to_b, s.curr_liquidity) # Err
    BY DEF StepOk
  <2>2. LiquidityAfterCross(s.ticks[t], s.args.a_to_b, s.curr_liquidity) # Err
          => LiquidityAfterCross(s.ticks[t], s.args.a_to_b, s.curr_liquidity) \in U128
    BY DEF LiquidityAfterCross, AddLiquidityDelta, Checked
  <2> HIDE DEF crossed
  <2> QED BY <1>1, <2>1, <2>2 DEF SwapType
<1>9. newTicks \in [UsableTick -> TickType]
  <2>1. CASE crossed
    <3> DEFINE global == [pool.fee_growth_global EXCEPT ![InputToken(s.args)] = growth]
    <3>1. global \in [Token -> U128]
      BY <1>1, <1>6, SwapArgsType DEF PoolType
    <3>2. t \in UsableTick
      BY <2>1 DEF CrossesTick, IsInitializedTick, TicksOf
    <3>3. s.ticks \in [UsableTick -> TickType] /\ s.ticks[t] \in TickType
      BY <1>1, <3>2 DEF SwapType
    <3>4. NewRewardInfos \in RewardInfos
      BY RewardInfosType DEF IInv, TypeOK, NewRewardInfos
    <3> HIDE DEF global
    <3>5. NextTickCrossUpdate(s.ticks[t], global, NewRewardInfos) \in TickType
      BY <3>1, <3>3, <3>4, TickCrossType
    <3>6. newTicks = [s.ticks EXCEPT ![t] = NextTickCrossUpdate(s.ticks[t], global, NewRewardInfos)]
      BY <2>1, <3>3 DEF TicksAfterCross, global
    <3> QED BY <3>3, <3>5, <3>6
  <2>2. CASE ~crossed
    BY <1>1, <2>2 DEF SwapType
  <2> QED BY <2>1, <2>2
<1>10. array \in 1 .. 4
  BY <1>2 DEF ArrayIndexAfterTick
<1>11. /\ tick \in CurrentTick
       /\ PriceIsAt(c.next_price, tick)
  <2>1. CASE reached /\ s.args.a_to_b
    <3>1. tick = t - 1 /\ t - 1 + 1 = t /\ t - 1 \in CurrentTick
      BY <1>2, <2>1, MathAssumption DEF TickAfterTick, CurrentTick, TickIndex
    <3> HIDE DEF tick
    <3> QED BY <1>2, <2>1, <3>1 DEF PriceIsAt
  <2>2. CASE reached /\ ~s.args.a_to_b
    <3>1. tick = t
      BY <2>2 DEF TickAfterTick
    <3>2. TickIndexFromSqrtPrice(c.next_price) = t
      BY <1>2, <2>2, TickOfTickPrice
    <3> HIDE DEF tick
    <3> QED BY <1>2, <3>1, <3>2, SqrtPriceRangeType DEF PriceIsAt
  <2>3. CASE ~reached /\ c.next_price # s.curr_sqrt_price
    <3>1. tick = TickIndexFromSqrtPrice(c.next_price)
      BY <2>3 DEF TickAfterShortStep
    <3>2. tick \in TickIndex
      BY <1>3, <3>1, TickOfPrice DEF SqrtPriceRange
    <3> HIDE DEF tick
    <3> QED BY <3>1, <3>2, SqrtPriceRangeType DEF PriceIsAt
  <2>4. CASE ~reached /\ c.next_price = s.curr_sqrt_price
    <3>1. tick = s.curr_tick_index
      BY <2>4 DEF TickAfterShortStep
    <3> HIDE DEF tick
    <3> QED BY <1>1, <2>4, <3>1 DEF IInv, PriceMatchesTick, SwapType
  <2> QED BY <2>1, <2>2, <2>3, <2>4
<1> HIDE DEF remaining, protocolFee, growth, liquidity, newTicks, array, tick, next
<1>12. next \in SwapType
  BY <1>1, <1>3, <1>4, <1>5, <1>6, <1>7, <1>8, <1>9, <1>10, <1>11 DEF SwapType
<1>13. /\ next.args = s.args
       /\ next.amount_remaining = remaining
       /\ next.curr_sqrt_price = c.next_price
       /\ next.curr_tick_index = tick
  BY <1>1, <1>4 DEF SwapType
<1> QED BY <1>3, <1>5, <1>11, <1>12, <1>13 DEF next

\* So does the action.
LEMMA SwapStepInv ==
    ASSUME IInv, SwapStep
    PROVE  IInv' /\ BetweenPriceAndLimit(swap, swap'.curr_sqrt_price)
<1>1. ~Idle /\ SwapRunning(swap) /\ CanSearch(swap)
  BY DEF SwapStep
<1>2. PICK j \in {NextArrayIndex(swap)} : \E t \in {NextTick(swap, j)} :
        \E c \in {SwapComputation(pool, swap, t)} :
           /\ StepOk(pool, swap, j, t, c)
           /\ swap' = StepSwap(pool, swap, j, t, c, NewRewardInfos)
  BY DEF SwapStep
<1>3. PICK t \in {NextTick(swap, j)} : \E c \in {SwapComputation(pool, swap, t)} :
           /\ StepOk(pool, swap, j, t, c)
           /\ swap' = StepSwap(pool, swap, j, t, c, NewRewardInfos)
  BY <1>2
<1>4. PICK c \in {SwapComputation(pool, swap, t)} :
           /\ StepOk(pool, swap, j, t, c)
           /\ swap' = StepSwap(pool, swap, j, t, c, NewRewardInfos)
  BY <1>3
<1>5. /\ swap' \in SwapType
      /\ swap'.args = swap.args
      /\ swap'.amount_remaining <= swap.amount_remaining
      /\ PriceIsAt(swap'.curr_sqrt_price, swap'.curr_tick_index)
      /\ BetweenPriceAndLimit(swap, swap'.curr_sqrt_price)
  BY <1>1, <1>4, StepSwapInv
<1>6. UNCHANGED <<pool, ticks, arrays, positions, vault, now, budget, emitted, paid>>
  BY DEF SwapStep
<1>7. TypeOK'
  BY <1>5, <1>6 DEF IInv, TypeOK
<1>8. PriceMatchesTick'
  BY <1>5, <1>6 DEF IInv, PriceMatchesTick
<1>9. SwapWithinLimits'
  <2>1. /\ swap.amount_remaining <= swap.args.amount
        /\ swap.args.sqrt_price_limit \in SqrtPriceRange
        /\ Len(swap.args.arrays) <= 3
    BY <1>1 DEF IInv, SwapWithinLimits
  <2>2. swap \in SwapType /\ swap.args \in SwapRequest
    BY <1>1 DEF IInv, TypeOK, Idle, SwapType
  <2>3. /\ swap.amount_remaining \in Int /\ swap.args.amount \in Int
        /\ swap'.amount_remaining \in Int
    BY <1>5, <2>2, SwapArgsType, WidthsAreNumbers DEF SwapType
  <2> QED BY <1>5, <2>1, <2>3 DEF SwapWithinLimits, BetweenPriceAndLimit
<1> QED BY <1>5, <1>7, <1>8, <1>9 DEF IInv

\* A commit hands price and tick on to the pool.
LEMMA SwapCommitInv ==
    ASSUME IInv, SwapCommit
    PROVE  IInv' /\ Idle'
<1> DEFINE s == swap
           in == InputToken(s.args)
           next == PoolAfterSwap(pool, s, NewRewardInfos, now)
           growth == [pool.fee_growth_global EXCEPT ![in] = s.curr_fee_growth_global_input]
           owed == [pool.protocol_fee_owed EXCEPT
                      ![in] = WrappingAdd64(pool.protocol_fee_owed[in], s.curr_protocol_fee)]
<1>1. /\ s \in SwapType /\ pool \in PoolType /\ s.args \in SwapRequest
      /\ ~Idle /\ now \in Nat
  BY DEF IInv, TypeOK, Idle, SwapType, SwapCommit
<1>2. /\ swap' = NoSwap /\ pool' = next /\ ticks' = s.ticks
      /\ UNCHANGED <<arrays, positions, now, emitted, paid>>
  BY DEF SwapCommit
<1>3. pool' \in PoolType /\ pool'.sqrt_price = s.curr_sqrt_price
                        /\ pool'.tick_current_index = s.curr_tick_index
  <2>1. NewRewardInfos \in RewardInfos
    BY <1>1, RewardInfosType DEF NewRewardInfos
  <2>2. in \in Token
    BY <1>1, SwapArgsType
  <2>3. growth \in [Token -> U128]
    BY <1>1, <2>2 DEF PoolType, SwapType
  <2>4. pool.protocol_fee_owed[in] \in Int /\ s.curr_protocol_fee \in Int
    BY <1>1, <2>2, WidthsAreNumbers DEF PoolType, SwapType
  <2>5. owed \in [Token -> U64]
    BY <1>1, <2>2, <2>4, WrappingType DEF PoolType
  <2>6. next = [pool EXCEPT !.tick_current_index = s.curr_tick_index,
                            !.sqrt_price = s.curr_sqrt_price,
                            !.liquidity = s.curr_liquidity,
                            !.reward_infos = NewRewardInfos,
                            !.reward_last_updated_timestamp = now,
                            !.fee_growth_global = growth,
                            !.protocol_fee_owed = owed]
    BY <1>1 DEF PoolAfterSwap, PoolType
  <2> HIDE DEF growth, owed, next
  <2> QED BY <1>1, <1>2, <2>1, <2>3, <2>5, <2>6 DEF PoolType, SwapType
<1>4. vault' \in VaultType
  <2>1. /\ s.amount_remaining \in Int /\ s.args.amount \in Int
        /\ s.amount_remaining <= s.args.amount
        /\ s.amount_calculated \in Nat
    BY <1>1, SwapArgsType, WidthsAreNumbers DEF SwapType, IInv, SwapWithinLimits
  <2>2. AmountIn(s) \in Nat /\ AmountOut(s) \in Nat
    BY <2>1 DEF AmountIn, AmountOut
  <2>3. /\ CanDeposit(vault, in, AmountIn(s))
        /\ CanWithdraw(vault, OutputToken(s.args), AmountOut(s))
        /\ vault' = Withdraw(Deposit(vault, in, AmountIn(s)), OutputToken(s.args), AmountOut(s))
    BY DEF SwapCommit, CanCommit, SwapTransfers
  <2>4. in \in Token /\ OutputToken(s.args) \in Token /\ in # OutputToken(s.args)
    BY <1>1, SwapArgsType DEF InputToken, OutputToken
  <2>5. Deposit(vault, in, AmountIn(s)) \in VaultType
    BY <2>2, <2>3, <2>4, DepositType DEF IInv, TypeOK, VaultType
  <2>6. CanWithdraw(Deposit(vault, in, AmountIn(s)), OutputToken(s.args), AmountOut(s))
    BY <2>3, <2>4 DEF CanWithdraw, Deposit, IInv, TypeOK
  <2> QED BY <2>2, <2>3, <2>4, <2>5, <2>6, WithdrawType
<1>5. budget' \in [Kind -> Nat]
  BY SpendType DEF IInv, SwapCommit, Kind
<1>6. TypeOK'
  BY <1>1, <1>2, <1>3, <1>4, <1>5 DEF TypeOK, IInv, SwapType, VaultType
<1>7. PriceMatchesTick' /\ SwapWithinLimits' /\ Idle'
  BY <1>1, <1>2, <1>3 DEF PriceMatchesTick, SwapWithinLimits, Idle, IInv
<1> QED BY <1>6, <1>7 DEF IInv

\* A revert changes nothing but the swap.
LEMMA SwapRevertInv ==
    ASSUME IInv, SwapRevert
    PROVE  IInv' /\ Idle'
BY DEF IInv, TypeOK, PriceMatchesTick, SwapWithinLimits, Idle, SwapRevert

----------------------------------------------------------------------------
\* A pool in which nothing has happened but that tick arrays were made and positions
\* opened.
Fresh ==
    /\ \E price \in InitialPrices : pool = InitialPool(price)
    /\ ticks = [t \in UsableTick |-> DefaultTick]
    /\ arrays \subseteq ArrayStart
    /\ positions \in [Position -> PositionType]
    /\ \A p \in Position :
          /\ positions[p].liquidity = 0
          /\ \A k \in Token : positions[p].fee_owed[k] = 0
          /\ positions[p].open => positions[p].tick_lower_index < positions[p].tick_upper_index
    /\ vault = [k \in Token \cup Reward |-> 0]
    /\ now \in Nat
    /\ swap = NoSwap
    /\ budget \in [Kind -> Nat]
    /\ emitted \in [Reward -> Nat]
    /\ paid \in [Reward -> Nat]

\* At first nothing has.
LEMMA InitFresh == Init => Fresh
<1> SUFFICES ASSUME Init PROVE Fresh
  OBVIOUS
<1>1. now \in Nat /\ budget \in [Kind -> Nat]
  BY PoolAssumption DEF Init
<1>2. \A p \in Position : positions[p] = ClosedPosition
  BY DEF Init
<1>3. positions \in [Position -> PositionType]
  BY ClosedPositionType DEF Init
<1>4. emitted \in [Reward -> Nat] /\ paid \in [Reward -> Nat]
  BY DEF Init
<1> QED BY <1>1, <1>2, <1>3, <1>4 DEF Init, Fresh, ClosedPosition

\* The invariant holds of such a pool.
LEMMA FreshInv == Fresh => IInv
<1> SUFFICES ASSUME Fresh PROVE IInv
  OBVIOUS
<1>1. PICK price \in InitialPrices : pool = InitialPool(price)
  BY DEF Fresh
<1>2. /\ price \in SqrtPriceRange
      /\ TickIndexFromSqrtPrice(price) \in TickIndex
  BY PoolAssumption, TickOfPrice DEF SqrtPriceRange
<1>3. pool \in PoolType
  <2>1. TickIndexFromSqrtPrice(price) \in CurrentTick
    BY <1>2, SqrtPriceRangeType
  <2> QED BY <1>1, <1>2, <2>1, Widths, PoolAssumption DEF InitialPool, PoolType, RewardInfos
<1>4. DefaultTick \in TickType
  BY Widths DEF DefaultTick, TickType
<1>5. 0 \in 0 .. Supply
  BY PoolAssumption, WidthsAreNumbers
<1>6. TypeOK
  BY <1>3, <1>4, <1>5 DEF Fresh, TypeOK
<1>7. PriceIsAt(pool.sqrt_price, pool.tick_current_index)
  BY <1>1, <1>2 DEF InitialPool, PriceIsAt
<1>8. Idle
  BY DEF Fresh, Idle
<1> QED BY <1>6, <1>7, <1>8 DEF IInv, PriceMatchesTick, SwapWithinLimits

\* The invariant holds at first.
LEMMA InitInv == Init => IInv
BY InitFresh, FreshInv

\* Every step keeps the invariant, whatever is asked for.
LEMMA AnyNextInv == IInv /\ [AnyNext]_vars => IInv'
<1> SUFFICES ASSUME IInv, [AnyNext]_vars PROVE IInv'
  OBVIOUS
<1>0. TypeOK
  BY DEF IInv
<1>1. ASSUME TypeOK', KeepsPrice PROVE IInv'
  BY <1>1 DEF IInv, KeepsPrice, PriceMatchesTick, SwapWithinLimits
<1>2. ASSUME NEW p \in Position, AnyPositionInstruction(p) PROVE IInv'
  BY <1>0, <1>1, <1>2, AnyPositionTypes
<1>3. CASE RewardInstruction
  BY <1>0, <1>1, <1>3, RewardInstructionTypes
<1>4. CASE PoolInstruction
  BY <1>0, <1>1, <1>4, PoolInstructionTypes
<1>5. ASSUME NEW a \in SwapRequest, SwapBegin(a) PROVE IInv'
  BY <1>5, SwapBeginInv DEF IInv
<1>6. CASE SwapStep
  BY <1>6, SwapStepInv
<1>7. CASE SwapCommit
  BY <1>7, SwapCommitInv
<1>8. CASE SwapRevert
  BY <1>8, SwapRevertInv
<1>9. CASE AdvanceTime
  BY <1>0, <1>1, <1>9, AdvanceTimeTypes
<1>10. CASE UNCHANGED vars
  BY <1>10 DEF IInv, TypeOK, PriceMatchesTick, SwapWithinLimits, Idle, vars
<1> QED BY <1>2, <1>3, <1>4, <1>5, <1>6, <1>7, <1>8, <1>9, <1>10, PoolAssumption
        DEF Next, AnyNext, AnyPositionInstruction, Swapping

\* Every step of a run keeps it.
LEMMA NextInv == IInv /\ [Next]_vars => IInv'
BY AnyNextInv DEF AnyNext

(***************************************************************************)
(* Every account keeps its type, and so do the variables of the loop       *)
(* (swap_manager::swap and the instructions): no price or tick leaves its  *)
(* range, no amount its width, and the array index never runs past the     *)
(* arrays by more than one.                                                *)
(***************************************************************************)
THEOREM TypeCorrect == Spec => []TypeOK
<1>1. IInv => TypeOK
  BY DEF IInv
<1> QED BY <1>1, InitInv, NextInv, PTL DEF Spec

(***************************************************************************)
(* The current tick is always the tick of the price, or the one before a   *)
(* tick that a swap to the left stopped on (the tick assignments of        *)
(* swap_manager::swap), in the pool and in every iteration.                *)
(***************************************************************************)
THEOREM PriceCorrect == Spec => []PriceMatchesTick
<1>1. IInv => PriceMatchesTick
  BY DEF IInv
<1> QED BY <1>1, InitInv, NextInv, PTL DEF Spec

\* A step from one moment of a swap to another is an iteration.
LEMMA StaysSwapping ==
    ASSUME IInv, Next, ~Idle, ~Idle'
    PROVE  SwapStep
<1>0. TypeOK
  BY DEF IInv
<1>1. ~ \E p \in Position : PositionInstruction(p)
  BY <1>0, PositionInstructionTypes DEF KeepsPrice
<1>2. ~RewardInstruction /\ ~PoolInstruction /\ ~AdvanceTime
  BY <1>0, RewardInstructionTypes, PoolInstructionTypes, AdvanceTimeTypes DEF KeepsPrice
<1>3. ~ \E a \in SwapArgs : SwapBegin(a)
  BY DEF SwapBegin
<1>4. ~SwapCommit /\ ~SwapRevert
  BY SwapCommitInv, SwapRevertInv
<1> QED BY <1>1, <1>2, <1>3, <1>4 DEF Next, Swapping

(***************************************************************************)
(* An iteration of a swap moves the price towards the caller's limit or    *)
(* not at all, and never past it (compute_swap and get_next_sqrt_prices).  *)
(***************************************************************************)
THEOREM PriceTowardsLimit == Spec => PriceMovesTowardsLimit
<1> DEFINE Towards ==
      ~Idle /\ ~Idle' =>
        IF swap.args.a_to_b
        THEN /\ swap.args.sqrt_price_limit <= swap'.curr_sqrt_price
             /\ swap'.curr_sqrt_price <= swap.curr_sqrt_price
        ELSE /\ swap.curr_sqrt_price <= swap'.curr_sqrt_price
             /\ swap'.curr_sqrt_price <= swap.args.sqrt_price_limit
<1>1. IInv /\ [Next]_vars => [Towards]_vars
  <2> SUFFICES ASSUME IInv, Next, ~Idle, ~Idle' PROVE Towards
    OBVIOUS
  <2> QED BY StaysSwapping, SwapStepInv DEF BetweenPriceAndLimit
<1> QED BY <1>1, InitInv, NextInv, PTL DEF Spec, PriceMovesTowardsLimit

\* What an iteration does to the price, the tick and the amount that remains.
LEMMA IterationEnds ==
    ASSUME IInv, SwapStep
    PROVE  LET t == NextTick(swap, NextArrayIndex(swap))
           IN  /\ t \in TickIndex
               /\ \/ swap'.amount_remaining = 0
                  \/ swap'.curr_sqrt_price = SqrtPriceTarget(swap, t)
               /\ swap'.args = swap.args
               /\ swap'.curr_sqrt_price = SqrtPrice[t] =>
                      swap'.curr_tick_index = TickAfterTick(swap, t)
<1> DEFINE j == NextArrayIndex(swap)
           t == NextTick(swap, j)
           c == SwapComputation(pool, swap, t)
           target == SqrtPriceTarget(swap, t)
           isInput == swap.args.amount_specified_is_input
           aToB == swap.args.a_to_b
           P == swap.curr_sqrt_price
           L == swap.curr_liquidity
           rest == swap.amount_remaining
           rate == pool.fee_rate
<1>1. /\ ~Idle /\ SwapRunning(swap) /\ CanSearch(swap)
      /\ StepOk(pool, swap, j, t, c)
      /\ swap' = StepSwap(pool, swap, j, t, c, NewRewardInfos)
  BY DEF SwapStep
<1>2. swap \in SwapType /\ pool \in PoolType
  BY <1>1 DEF IInv, TypeOK, Idle
<1>3. /\ t \in TickIndex
      /\ target \in SqrtPriceRange
      /\ IF aToB THEN target <= P ELSE P <= target
  BY <1>1, SearchInv
<1>4. /\ swap'.amount_remaining = AmountRemaining(swap, c)
      /\ swap'.curr_sqrt_price = c.next_price
      /\ swap'.args = swap.args
      /\ c.next_price = SqrtPrice[t] => swap'.curr_tick_index = TickAfterTick(swap, t)
  BY <1>1, <1>2 DEF StepSwap, SwapType
<1>5. /\ L \in U128 /\ isInput \in BOOLEAN /\ aToB \in BOOLEAN
      /\ P \in Nat \ {0} /\ target \in Nat \ {0}
      /\ rate \in 0 .. FEE_RATE_MUL_VALUE - 1
  <2>1. P \in SqrtPriceRange /\ rate \in 0 .. MAX_FEE_RATE
    BY <1>2 DEF SwapType, PoolType
  <2>2. rate \in 0 .. FEE_RATE_MUL_VALUE - 1
    BY <2>1, PoolAssumption, MathAssumption
  <2> QED BY <1>2, <1>3, <2>1, <2>2, SwapArgsType, SqrtPriceRangeType DEF SwapType
<1>6. rest \in U64 \ {0} /\ rest \in Nat
  BY <1>1, <1>2, WidthsAreNumbers DEF SwapType, SwapRunning
<1>7. c = ComputeSwap(rest, rate, L, P, target, isInput, aToB) /\ c.ok
  BY <1>1 DEF SwapComputation, StepOk
<1>8. /\ AmountRemaining(swap, c) >= 0
      /\ c.amount_in \in U64 /\ c.amount_out \in U64 /\ c.fee_amount \in U64
  BY <1>1, <1>3, ComputationInv DEF StepOk
<1>9. AmountRemaining(swap, c) = IF isInput THEN rest - c.amount_in - c.fee_amount
                                 ELSE rest - c.amount_out
  BY DEF AmountRemaining
<1> HIDE DEF j, t, c, target, isInput, aToB, P, L, rest, rate
<1>10. c.next_price # target => AmountRemaining(swap, c) = 0
  <2> SUFFICES ASSUME c.next_price # target PROVE AmountRemaining(swap, c) = 0
    OBVIOUS
  <2>1. IF isInput THEN \/ rest - c.amount_in - c.fee_amount = 0
                        \/ rest - c.amount_in - c.fee_amount < 0
        ELSE c.amount_out = rest
    BY <1>3, <1>5, <1>6, <1>7, ShortStepTakesRest
  <2>2. c.amount_in \in Int /\ c.amount_out \in Int /\ c.fee_amount \in Int
    BY <1>8, WidthsAreNumbers
  <2> QED BY <1>6, <1>8, <1>9, <2>1, <2>2
<1>11. \/ swap'.amount_remaining = 0
       \/ swap'.curr_sqrt_price = target
  BY <1>4, <1>10
<1>12. swap'.curr_sqrt_price = SqrtPrice[t] => swap'.curr_tick_index = TickAfterTick(swap, t)
  BY <1>4
<1> QED BY <1>3, <1>4, <1>11, <1>12, Zenon DEF j, t, target

(***************************************************************************)
(* An iteration that stops short of its target leaves nothing to swap      *)
(* (compute_swap): the loop does not go on from a place the search did not *)
(* lead to.                                                                *)
(***************************************************************************)
THEOREM ShortStepsExhaust == Spec => ShortStepExhausts
<1> DEFINE Exhausts ==
      ~Idle /\ ~Idle' =>
        \/ swap'.curr_sqrt_price = SqrtPriceTarget(swap, NextTick(swap, NextArrayIndex(swap)))
        \/ swap'.amount_remaining = 0
<1>1. IInv /\ [Next]_vars => [Exhausts]_vars
  BY StaysSwapping, IterationEnds
<1> QED BY <1>1, InitInv, NextInv, PTL DEF Spec, ShortStepExhausts

(***************************************************************************)
(* Every iteration that is not the last moves the tick, in the direction   *)
(* of the swap and by one at least.  As ticks are bounded, a swap takes no *)
(* more iterations than there are ticks.                                   *)
(***************************************************************************)
THEOREM IterationsMove == Spec => IterationsMoveOn
<1> DEFINE MovesOn ==
      ~Idle /\ ~Idle' /\ SwapRunning(swap') =>
        IF swap.args.a_to_b
        THEN swap'.curr_tick_index < swap.curr_tick_index
        ELSE swap.curr_tick_index < swap'.curr_tick_index
<1>1. IInv /\ [Next]_vars => [MovesOn]_vars
  <2> SUFFICES ASSUME IInv, Next, ~Idle, ~Idle', SwapRunning(swap')
               PROVE  IF swap.args.a_to_b
                      THEN swap'.curr_tick_index < swap.curr_tick_index
                      ELSE swap.curr_tick_index < swap'.curr_tick_index
    OBVIOUS
  <2> DEFINE t == NextTick(swap, NextArrayIndex(swap))
             tick == swap.curr_tick_index
  <2>1. SwapStep
    BY StaysSwapping
  <2>2. /\ swap'.amount_remaining # 0
        /\ swap'.curr_sqrt_price # swap.args.sqrt_price_limit
        /\ swap'.curr_sqrt_price = SqrtPriceTarget(swap, t)
        /\ swap'.curr_sqrt_price = SqrtPrice[t] =>
               swap'.curr_tick_index = TickAfterTick(swap, t)
    BY <2>1, IterationEnds DEF SwapRunning
  <2>3. /\ IF swap.args.a_to_b THEN t <= tick ELSE tick < t
        /\ t \in TickIndex /\ swap \in SwapType
    BY <2>1, SearchInv DEF SwapStep
  <2>4. swap'.curr_tick_index = TickAfterTick(swap, t)
    BY <2>2 DEF SqrtPriceTarget, Greater, Lesser
  <2>5. t \in Int /\ tick \in Int
    BY <2>3, MathAssumption DEF TickIndex, SwapType, CurrentTick
  <2> HIDE DEF t
  <2> QED BY <2>3, <2>4, <2>5 DEF TickAfterTick
<1> QED BY <1>1, InitInv, NextInv, PTL DEF Spec, IterationsMoveOn

----------------------------------------------------------------------------
(* Ticks and their default.  A swap works on its own copy of the ticks, so *)
(* the invariant speaks of both.                                           *)

IsClean(tick) ==
    IF tick.liquidity_gross = 0 THEN tick = DefaultTick ELSE tick.initialized

TicksClean ==
    /\ \A t \in UsableTick : IsClean(ticks[t])
    /\ ~Idle => \A t \in UsableTick : IsClean(swap.ticks[t])

\* A tick whose liquidity changes is the default or in use.
LEMMA ModifiedTickClean ==
    ASSUME NEW tick \in TickType, IsClean(tick), NEW t, NEW p, NEW infos, NEW delta,
           NEW upper
    PROVE  IsClean(NextTickModifyLiquidityUpdate(tick, t, p, infos, delta, upper))
<1> DEFINE gross == AddLiquidityDelta(tick.liquidity_gross, delta)
           next == NextTickModifyLiquidityUpdate(tick, t, p, infos, delta, upper)
<1>1. CASE delta = 0
  BY <1>1 DEF NextTickModifyLiquidityUpdate
<1>2. CASE delta # 0 /\ gross = 0
  <2>1. next = DefaultTick
    BY <1>2 DEF NextTickModifyLiquidityUpdate
  <2> QED BY <2>1 DEF IsClean, DefaultTick
<1>3. CASE delta # 0 /\ gross # 0
  <2>1. next.liquidity_gross = gross /\ next.initialized
    BY <1>3 DEF NextTickModifyLiquidityUpdate
  <2> QED BY <1>3, <2>1 DEF IsClean
<1> QED BY <1>1, <1>2, <1>3

\* A change of liquidity keeps every tick so.
LEMMA SyncClean ==
    ASSUME TypeOK, TicksClean, NEW p \in Position, NEW delta, SyncModifyLiquidity(p, delta)
    PROVE  \A t \in UsableTick : IsClean(ticks'[t])
<1> DEFINE lower == positions[p].tick_lower_index
           upper == positions[p].tick_upper_index
<1>1. /\ lower \in UsableTick /\ upper \in UsableTick
      /\ ticks \in [UsableTick -> TickType]
  BY DEF TypeOK, PositionType
<1>2. IsClean(UpdatedTick(lower, delta, FALSE)) /\ IsClean(UpdatedTick(upper, delta, TRUE))
  BY <1>1, ModifiedTickClean DEF TicksClean, UpdatedTick
<1>3. ticks' = [ticks EXCEPT ![lower] = UpdatedTick(lower, delta, FALSE),
                             ![upper] = UpdatedTick(upper, delta, TRUE)]
  BY DEF SyncModifyLiquidity
<1> HIDE DEF lower, upper
<1> QED BY <1>1, <1>2, <1>3 DEF TicksClean

\* So does a step of a swap: crossing a tick leaves its use alone.
LEMMA SwapStepClean ==
    ASSUME IInv, TicksClean, SwapStep
    PROVE  \A t \in UsableTick : IsClean(swap'.ticks[t])
<1>1. PICK j, t, c : swap' = StepSwap(pool, swap, j, t, c, NewRewardInfos)
  BY DEF SwapStep
<1>2. /\ swap \in SwapType /\ swap.ticks \in [UsableTick -> TickType]
      /\ \A u \in UsableTick : IsClean(swap.ticks[u])
  BY DEF SwapStep, IInv, TypeOK, Idle, SwapType, TicksClean
<1> DEFINE crossed == c.next_price = SqrtPrice[t] /\ CrossesTick(swap, j, t)
<1>3. swap'.ticks = IF crossed THEN TicksAfterCross(pool, swap, t, c, NewRewardInfos)
                    ELSE swap.ticks
  BY <1>1, <1>2 DEF StepSwap, SwapType
<1>4. CASE crossed
  <2>1. PICK growth : swap'.ticks =
          [swap.ticks EXCEPT ![t] = NextTickCrossUpdate(@, growth, NewRewardInfos)]
    BY <1>3, <1>4 DEF TicksAfterCross
  <2>2. t \in UsableTick /\ swap.ticks[t].initialized
    BY <1>4 DEF CrossesTick, IsInitializedTick, TicksOf
  <2>3. swap.ticks[t].liquidity_gross # 0
    BY <1>2, <2>2 DEF IsClean, DefaultTick
  <2> DEFINE next == NextTickCrossUpdate(swap.ticks[t], growth, NewRewardInfos)
  <2>4. /\ next.initialized = swap.ticks[t].initialized
        /\ next.liquidity_gross = swap.ticks[t].liquidity_gross
    BY <1>2, <2>2 DEF NextTickCrossUpdate, TickType
  <2>5. IsClean(next)
    BY <2>2, <2>3, <2>4 DEF IsClean
  <2> HIDE DEF next
  <2>6. swap'.ticks = [swap.ticks EXCEPT ![t] = next]
    BY <2>1 DEF next
  <2> QED BY <1>2, <2>2, <2>5, <2>6
<1>5. CASE ~crossed
  BY <1>2, <1>3, <1>5
<1> QED BY <1>4, <1>5

(***************************************************************************)
(* A tick no liquidity ends on is as good as new, and one with liquidity   *)
(* is initialized (next_tick_modify_liquidity_update; crossings keep it).  *)
(***************************************************************************)
THEOREM UnusedTicksCorrect == Spec => []UnusedTicksAreDefault
<1>1. Init => TicksClean
  BY DEF Init, TicksClean, IsClean, Idle, DefaultTick
<1>2. IInv /\ IInv' /\ TicksClean /\ [Next]_vars => TicksClean'
  <2> SUFFICES ASSUME IInv, IInv', TicksClean, [Next]_vars PROVE TicksClean'
    OBVIOUS
  <2>0. TypeOK
    BY DEF IInv
  <2>1. ASSUME Idle', UNCHANGED ticks PROVE TicksClean'
    BY <2>1 DEF TicksClean
  <2>2. ASSUME NEW p \in Position, PositionInstruction(p) PROVE TicksClean'
    <3>1. Idle'
      BY <2>0, <2>2, PositionInstructionTypes, SMTT(30) DEF KeepsPrice
    <3>2. UNCHANGED ticks \/ \E delta : SyncModifyLiquidity(p, delta)
      BY <2>2, ZenonT(40)
         DEF PositionInstruction, OpenPosition, ClosePosition, IncreaseLiquidity,
             DecreaseLiquidity, UpdateFeesAndRewards, CollectFees, CollectReward
    <3> QED BY <2>0, <2>1, <3>1, <3>2, SyncClean DEF TicksClean
  <2>3. CASE RewardInstruction
    BY <2>0, <2>1, <2>3, RewardInstructionTypes
       DEF KeepsPrice, RewardInstruction, InitializeReward, FundReward, SetRewardEmissions
  <2>4. CASE PoolInstruction
    BY <2>0, <2>1, <2>4, PoolInstructionTypes
       DEF KeepsPrice, PoolInstruction, InitializeTickArray, CollectProtocolFees, SetFeeRate,
           SetProtocolFeeRate
  <2>5. CASE AdvanceTime
    BY <2>0, <2>1, <2>5, AdvanceTimeTypes DEF KeepsPrice, AdvanceTime
  <2>6. ASSUME NEW a \in SwapArgs, SwapBegin(a) PROVE TicksClean'
    BY <2>6 DEF SwapBegin, SwapStart, TicksClean
  <2>7. CASE SwapStep
    BY <2>7, SwapStepClean DEF SwapStep, TicksClean
  <2>8. CASE SwapCommit
    <3>1. Idle' /\ ~Idle /\ ticks' = swap.ticks
      BY <2>8, SwapCommitInv DEF SwapCommit
    <3> QED BY <3>1 DEF TicksClean
  <2>9. CASE SwapRevert
    BY <2>1, <2>9, SwapRevertInv DEF SwapRevert
  <2>10. CASE UNCHANGED vars
    BY <2>10 DEF vars, TicksClean, Idle
  <2> QED BY <2>2, <2>3, <2>4, <2>5, <2>6, <2>7, <2>8, <2>9, <2>10 DEF Next, Swapping
<1>3. TicksClean => UnusedTicksAreDefault
  BY DEF TicksClean, IsClean, UnusedTicksAreDefault
<1> QED BY <1>1, <1>2, <1>3, InitInv, NextInv, PTL DEF Spec

----------------------------------------------------------------------------
(* Sums over the positions.                                                *)

\* The partial sums of f.
PartialSums(f, s) ==
    /\ s \in [0 .. NumPositions -> Int]
    /\ s[0] = 0
    /\ \A n \in Position : s[n] = s[n - 1] + f[n]

\* A set of the first numbers that has zero, and with every number the next one, has all.
LEMMA Reaches ==
    ASSUME NEW N \in Nat, NEW S \in SUBSET (0 .. N), 0 \in S,
           \A n \in 1 .. N : n - 1 \in S => n \in S
    PROVE  S = 0 .. N
<1> DEFINE T == (0 .. N) \ S
<1>1. SUFFICES ASSUME T # {} PROVE FALSE
  OBVIOUS
<1>2. PICK m \in T : \A k \in T : m <= k
  <2>1. T \in SUBSET (0 .. N) /\ T # {} /\ 0 \in Int /\ N \in Int
    BY <1>1
  <2> HIDE DEF T
  <2> QED BY <2>1, HasLeast
<1>3. m \in 1 .. N /\ m - 1 \in 0 .. N /\ ~(m <= m - 1)
  BY <1>2
<1>4. m - 1 \in S
  BY <1>2, <1>3
<1> QED BY <1>2, <1>3, <1>4

\* There are partial sums up to any position.
LEMMA PartialSumsExist ==
    ASSUME NEW f \in [Position -> Int]
    PROVE  \E s : PartialSums(f, s)
<1> DEFINE Upto(n, s) == /\ s \in [0 .. n -> Int]
                         /\ s[0] = 0
                         /\ \A i \in 1 .. n : s[i] = s[i - 1] + f[i]
           S == {n \in 0 .. NumPositions : \E s : Upto(n, s)}
<1>0. NumPositions \in Nat
  BY PoolAssumption
<1>1. 0 \in S
  <2>1. Upto(0, [i \in 0 .. 0 |-> 0])
    OBVIOUS
  <2> HIDE DEF Upto
  <2> QED BY <1>0, <2>1
<1>2. ASSUME NEW n \in 1 .. NumPositions, n - 1 \in S PROVE n \in S
  <2>1. PICK s : Upto(n - 1, s)
    BY <1>2
  <2> DEFINE u == [i \in 0 .. n |-> IF i = n THEN s[n - 1] + f[n] ELSE s[i]]
  <2>2. n \in Int /\ f[n] \in Int /\ n - 1 \in 0 .. n - 1 /\ s[n - 1] \in Int
    BY <1>0, <1>2, <2>1 DEF Position
  <2>3. u \in [0 .. n -> Int]
    BY <2>1, <2>2
  <2>4. u[0] = 0
    BY <2>1, <2>2, <1>2
  <2>5. ASSUME NEW i \in 1 .. n PROVE u[i] = u[i - 1] + f[i]
    <3>1. i \in 0 .. n /\ i - 1 \in 0 .. n /\ i - 1 # n
      BY <2>2
    <3>2. u[i - 1] = s[i - 1]
      BY <3>1
    <3>3. CASE i = n
      BY <3>1, <3>2, <3>3
    <3>4. CASE i # n
      <4>1. i \in 1 .. n - 1
        BY <2>2, <3>4
      <4>2. s[i] = s[i - 1] + f[i]
        BY <2>1, <4>1
      <4>3. u[i] = s[i]
        BY <3>1, <3>4
      <4> QED BY <3>2, <4>2, <4>3
    <3> QED BY <3>3, <3>4
  <2> HIDE DEF u
  <2>6. Upto(n, u)
    BY <2>3, <2>4, <2>5
  <2> HIDE DEF Upto
  <2>7. n \in 0 .. NumPositions
    BY <1>0
  <2> QED BY <2>6, <2>7
<1>3. NumPositions \in S
  <2>1. S \in SUBSET (0 .. NumPositions) /\ NumPositions \in 0 .. NumPositions
    BY <1>0
  <2> HIDE DEF S
  <2>2. S = 0 .. NumPositions
    BY <1>0, <1>1, <1>2, <2>1, Reaches
  <2> QED BY <2>1, <2>2
<1> QED BY <1>3 DEF PartialSums, Position

\* SumOver is the last of them.
LEMMA SumIsLast ==
    ASSUME NEW f \in [Position -> Int]
    PROVE  \E s : PartialSums(f, s) /\ SumOver(f) = s[NumPositions]
<1> DEFINE Sums(s) == s = [n \in 0 .. NumPositions |-> IF n = 0 THEN 0 ELSE s[n - 1] + f[n]]
           sum == CHOOSE s : Sums(s)
<1>0. NumPositions \in Nat
  BY PoolAssumption
<1>1. PICK s : PartialSums(f, s)
  BY PartialSumsExist
<1>2. ASSUME NEW n \in 0 .. NumPositions
      PROVE  s[n] = IF n = 0 THEN 0 ELSE s[n - 1] + f[n]
  BY <1>0, <1>1 DEF PartialSums, Position
<1>3. Sums(s)
  BY <1>1, <1>2 DEF PartialSums
<1>4. Sums(sum)
  <2> HIDE DEF Sums
  <2> QED BY <1>3
<1>5. SumOver(f) = sum[NumPositions]
  BY DEF SumOver
<1>6. sum = [n \in 0 .. NumPositions |-> IF n = 0 THEN 0 ELSE sum[n - 1] + f[n]]
  BY <1>4
<1> HIDE DEF sum
<1>7. /\ DOMAIN sum = 0 .. NumPositions
      /\ sum[0] = 0
      /\ \A n \in Position : sum[n] = sum[n - 1] + f[n]
  BY <1>0, <1>6 DEF Position
<1> DEFINE S == {n \in 0 .. NumPositions : sum[n] \in Int}
<1>8. S = 0 .. NumPositions
  <2>1. 0 \in S
    BY <1>0, <1>7
  <2>2. ASSUME NEW n \in 1 .. NumPositions, n - 1 \in S PROVE n \in S
    BY <1>0, <1>7, <2>2 DEF Position
  <2>3. S \in SUBSET (0 .. NumPositions)
    OBVIOUS
  <2> HIDE DEF S
  <2> QED BY <1>0, <2>1, <2>2, <2>3, Reaches
<1>9. PartialSums(f, sum)
  BY <1>6, <1>7, <1>8 DEF PartialSums
<1> QED BY <1>5, <1>9

\* A sum of numbers is a number.
LEMMA SumType ==
    ASSUME NEW f \in [Position -> Int]
    PROVE  SumOver(f) \in Int
BY SumIsLast, PoolAssumption DEF PartialSums

\* A sum of naturals is a natural, and at least each of them.
LEMMA SumOfNats ==
    ASSUME NEW f \in [Position -> Nat]
    PROVE  /\ SumOver(f) \in Nat
           /\ \A p \in Position : f[p] <= SumOver(f)
<1>0. NumPositions \in Nat /\ f \in [Position -> Int]
  BY PoolAssumption
<1>1. PICK s : PartialSums(f, s) /\ SumOver(f) = s[NumPositions]
  BY <1>0, SumIsLast
<1> DEFINE S == {n \in 0 .. NumPositions :
                   s[n] \in Nat /\ \A p \in Position : p <= n => f[p] <= s[n]}
<1>2. 0 \in S
  BY <1>0, <1>1 DEF PartialSums, Position
<1>3. ASSUME NEW n \in 1 .. NumPositions, n - 1 \in S PROVE n \in S
  <2>1. /\ s[n] = s[n - 1] + f[n] /\ f[n] \in Nat /\ s[n - 1] \in Nat
        /\ \A p \in Position : p <= n - 1 => f[p] <= s[n - 1]
    BY <1>1, <1>3 DEF PartialSums, Position
  <2>2. ASSUME NEW p \in Position, p <= n PROVE f[p] <= s[n]
    <3>1. p = n \/ p <= n - 1
      BY <1>0, <2>2 DEF Position
    <3>2. f[p] \in Nat
      OBVIOUS
    <3> QED BY <2>1, <3>1, <3>2
  <2> QED BY <1>0, <2>1, <2>2
<1>4. S \in SUBSET (0 .. NumPositions)
  OBVIOUS
<1> HIDE DEF S
<1>5. NumPositions \in S
  BY <1>0, <1>2, <1>3, <1>4, Reaches, NumPositions \in 0 .. NumPositions
<1> QED BY <1>0, <1>1, <1>5 DEF S, Position

\* Nothing adds up to nothing.
LEMMA SumOfZeros ==
    ASSUME NEW f \in [Position -> Int], \A p \in Position : f[p] = 0
    PROVE  SumOver(f) = 0
<1>0. NumPositions \in Nat
  BY PoolAssumption
<1>1. PICK s : PartialSums(f, s) /\ SumOver(f) = s[NumPositions]
  BY SumIsLast
<1> DEFINE S == {n \in 0 .. NumPositions : s[n] = 0}
<1>2. 0 \in S
  BY <1>0, <1>1 DEF PartialSums
<1>3. ASSUME NEW n \in 1 .. NumPositions, n - 1 \in S PROVE n \in S
  BY <1>0, <1>1, <1>3 DEF PartialSums, Position
<1>4. S \in SUBSET (0 .. NumPositions)
  OBVIOUS
<1> HIDE DEF S
<1>5. NumPositions \in S
  BY <1>0, <1>2, <1>3, <1>4, Reaches, NumPositions \in 0 .. NumPositions
<1> QED BY <1>1, <1>5 DEF S

\* Sums add up.
LEMMA SumsAdd ==
    ASSUME NEW f \in [Position -> Int], NEW g \in [Position -> Int],
           NEW h \in [Position -> Int], NEW k \in [Position -> Int],
           \A p \in Position : f[p] + g[p] = h[p] + k[p]
    PROVE  SumOver(f) + SumOver(g) = SumOver(h) + SumOver(k)
<1>0. NumPositions \in Nat
  BY PoolAssumption
<1>1. PICK sf : PartialSums(f, sf) /\ SumOver(f) = sf[NumPositions]
  BY SumIsLast
<1>2. PICK sg : PartialSums(g, sg) /\ SumOver(g) = sg[NumPositions]
  BY SumIsLast
<1>3. PICK sh : PartialSums(h, sh) /\ SumOver(h) = sh[NumPositions]
  BY SumIsLast
<1>4. PICK sk : PartialSums(k, sk) /\ SumOver(k) = sk[NumPositions]
  BY SumIsLast
<1> DEFINE S == {n \in 0 .. NumPositions : sf[n] + sg[n] = sh[n] + sk[n]}
<1>5. 0 \in S
  BY <1>0, <1>1, <1>2, <1>3, <1>4 DEF PartialSums
<1>6. ASSUME NEW n \in 1 .. NumPositions, n - 1 \in S PROVE n \in S
  <2>1. n - 1 \in 0 .. NumPositions /\ n \in 0 .. NumPositions /\ n \in Position
    BY <1>0 DEF Position
  <2>2. sf[n] = sf[n - 1] + f[n] /\ sf[n - 1] \in Int /\ f[n] \in Int
    BY <1>1, <2>1 DEF PartialSums
  <2>3. sg[n] = sg[n - 1] + g[n] /\ sg[n - 1] \in Int /\ g[n] \in Int
    BY <1>2, <2>1 DEF PartialSums
  <2>4. sh[n] = sh[n - 1] + h[n] /\ sh[n - 1] \in Int /\ h[n] \in Int
    BY <1>3, <2>1 DEF PartialSums
  <2>5. sk[n] = sk[n - 1] + k[n] /\ sk[n - 1] \in Int /\ k[n] \in Int
    BY <1>4, <2>1 DEF PartialSums
  <2>6. sf[n - 1] + sg[n - 1] = sh[n - 1] + sk[n - 1] /\ f[n] + g[n] = h[n] + k[n]
    BY <1>6, <2>1
  <2>7. sf[n] + sg[n] = sh[n] + sk[n]
    <3>1. sf[n] + sg[n] = (sf[n - 1] + sg[n - 1]) + (f[n] + g[n])
      BY <2>2, <2>3
    <3>2. sh[n] + sk[n] = (sh[n - 1] + sk[n - 1]) + (h[n] + k[n])
      BY <2>4, <2>5
    <3> QED BY <2>6, <3>1, <3>2
  <2> QED BY <2>1, <2>7
<1>7. S \in SUBSET (0 .. NumPositions)
  OBVIOUS
<1> HIDE DEF S
<1>8. NumPositions \in S
  BY <1>0, <1>5, <1>6, <1>7, Reaches, NumPositions \in 0 .. NumPositions
<1> QED BY <1>1, <1>2, <1>3, <1>4, <1>8 DEF S

\* A change at one position changes the sum by as much.
LEMMA SumChange ==
    ASSUME NEW f \in [Position -> Int], NEW g \in [Position -> Int], NEW p \in Position,
           \A q \in Position \ {p} : g[q] = f[q]
    PROVE  SumOver(g) = SumOver(f) + g[p] - f[p]
<1>0. NumPositions \in Nat
  BY PoolAssumption
<1>1. PICK sf : PartialSums(f, sf) /\ SumOver(f) = sf[NumPositions]
  BY SumIsLast
<1>2. PICK sg : PartialSums(g, sg) /\ SumOver(g) = sg[NumPositions]
  BY SumIsLast
<1> DEFINE S == {n \in 0 .. NumPositions :
                   sg[n] = IF n < p THEN sf[n] ELSE sf[n] + g[p] - f[p]}
<1>3. f[p] \in Int /\ g[p] \in Int /\ p \in 1 .. NumPositions
  BY DEF Position
<1>4. 0 \in S
  BY <1>0, <1>1, <1>2, <1>3 DEF PartialSums
<1>5. ASSUME NEW n \in 1 .. NumPositions, n - 1 \in S PROVE n \in S
  <2>1. n - 1 \in 0 .. NumPositions /\ n \in 0 .. NumPositions /\ n \in Position
    BY <1>0 DEF Position
  <2>2. sf[n] = sf[n - 1] + f[n] /\ sf[n - 1] \in Int /\ f[n] \in Int
    BY <1>1, <2>1 DEF PartialSums
  <2>3. sg[n] = sg[n - 1] + g[n] /\ sg[n - 1] \in Int /\ g[n] \in Int
    BY <1>2, <2>1 DEF PartialSums
  <2>4. sg[n - 1] = IF n - 1 < p THEN sf[n - 1] ELSE sf[n - 1] + g[p] - f[p]
    BY <1>5
  <2>5. n # p => g[n] = f[n]
    BY <2>1
  <2>6. sg[n] = IF n < p THEN sf[n] ELSE sf[n] + g[p] - f[p]
    <3>1. CASE n = p
      BY <1>3, <2>2, <2>3, <2>4, <3>1
    <3>2. CASE n # p
      BY <1>3, <2>2, <2>3, <2>4, <2>5, <3>2
    <3> QED BY <3>1, <3>2
  <2> QED BY <2>1, <2>6
<1>6. S \in SUBSET (0 .. NumPositions)
  OBVIOUS
<1> HIDE DEF S
<1>7. NumPositions \in S
  BY <1>0, <1>4, <1>5, <1>6, Reaches, NumPositions \in 0 .. NumPositions
<1> QED BY <1>1, <1>2, <1>3, <1>7 DEF S

----------------------------------------------------------------------------
(* Liquidity by place.                                                     *)

\* Of the positions P: the liquidity around a tick, from it, and up to it.
Around(P, t) == [p \in Position |->
    IF P[p].tick_lower_index <= t /\ t < P[p].tick_upper_index THEN P[p].liquidity ELSE 0]
From(P, t) == [p \in Position |-> IF P[p].tick_lower_index = t THEN P[p].liquidity ELSE 0]
UpTo(P, t) == [p \in Position |-> IF P[p].tick_upper_index = t THEN P[p].liquidity ELSE 0]

\* The tick t carries the liquidity of the positions that end on it.
Matches(tick, P, t) ==
    /\ tick.liquidity_gross = SumOver(From(P, t)) + SumOver(UpTo(P, t))
    /\ tick.liquidity_net = SumOver(From(P, t)) - SumOver(UpTo(P, t))

\* The properties speak of these sums.
LEMMA PropertiesAsSums ==
    /\ \A t : LiquidityAt(t) = SumOver(Around(positions, t))
    /\ \A tick, t : TickMatchesPositions(tick, t) <=> Matches(tick, positions, t)
BY DEF LiquidityAt, TickMatchesPositions, SumWhere, Around, From, UpTo, Matches

----------------------------------------------------------------------------
(* How the sums change.                                                    *)

\* The accounts of all positions.
PositionsType == [Position -> PositionType]

\* A position without liquidity may have any range; one with some is open, and its
\* range is not empty.
IsOrdered(pos) ==
    /\ pos.open => pos.tick_lower_index < pos.tick_upper_index
    /\ ~pos.open => pos.liquidity = 0

\* The sums are of natural numbers.
LEMMA PlacesType ==
    ASSUME NEW P \in PositionsType, NEW t
    PROVE  /\ Around(P, t) \in [Position -> Nat] /\ Around(P, t) \in [Position -> Int]
           /\ From(P, t) \in [Position -> Nat] /\ From(P, t) \in [Position -> Int]
           /\ UpTo(P, t) \in [Position -> Nat] /\ UpTo(P, t) \in [Position -> Int]
           /\ SumOver(Around(P, t)) \in Nat
           /\ SumOver(From(P, t)) \in Nat
           /\ SumOver(UpTo(P, t)) \in Nat
<1>1. \A p \in Position : P[p].liquidity \in Nat /\ P[p].liquidity \in Int
  BY WidthsAreNumbers DEF PositionsType, PositionType
<1>2. /\ Around(P, t) \in [Position -> Nat] /\ Around(P, t) \in [Position -> Int]
      /\ From(P, t) \in [Position -> Nat] /\ From(P, t) \in [Position -> Int]
      /\ UpTo(P, t) \in [Position -> Nat] /\ UpTo(P, t) \in [Position -> Int]
  BY <1>1 DEF Around, From, UpTo
<1> QED BY <1>2, SumOfNats

\* What is of no weight may change its place.
LEMMA PlacesKept ==
    ASSUME NEW P, NEW Q, NEW t,
           \A p \in Position :
              /\ Q[p].liquidity = P[p].liquidity
              /\ \/ P[p].liquidity = 0
                 \/ /\ Q[p].tick_lower_index = P[p].tick_lower_index
                    /\ Q[p].tick_upper_index = P[p].tick_upper_index
    PROVE  /\ Around(Q, t) = Around(P, t)
           /\ From(Q, t) = From(P, t)
           /\ UpTo(Q, t) = UpTo(P, t)
BY DEF Around, From, UpTo

\* A change of liquidity shows where the position is.
LEMMA PlacesChanged ==
    ASSUME NEW P \in PositionsType, NEW Q \in PositionsType, NEW p \in Position, NEW t,
           NEW delta \in Int,
           \A q \in Position \ {p} : Q[q] = P[q],
           Q[p].liquidity = P[p].liquidity + delta,
           Q[p].tick_lower_index = P[p].tick_lower_index,
           Q[p].tick_upper_index = P[p].tick_upper_index
    PROVE  /\ SumOver(Around(Q, t)) = SumOver(Around(P, t)) +
                 (IF P[p].tick_lower_index <= t /\ t < P[p].tick_upper_index THEN delta ELSE 0)
           /\ SumOver(From(Q, t)) = SumOver(From(P, t)) +
                 (IF P[p].tick_lower_index = t THEN delta ELSE 0)
           /\ SumOver(UpTo(Q, t)) = SumOver(UpTo(P, t)) +
                 (IF P[p].tick_upper_index = t THEN delta ELSE 0)
<1>1. P[p].liquidity \in Int
  BY WidthsAreNumbers DEF PositionsType, PositionType
<1>2. ASSUME NEW f \in [Position -> Int], NEW g \in [Position -> Int], NEW d \in Int,
             \A q \in Position \ {p} : g[q] = f[q], g[p] = f[p] + d
      PROVE  SumOver(g) = SumOver(f) + d
  <2>1. SumOver(g) = SumOver(f) + g[p] - f[p] /\ SumOver(f) \in Int /\ f[p] \in Int
    BY <1>2, SumChange, SumType
  <2> QED BY <1>2, <2>1
<1>3. SumOver(Around(Q, t)) = SumOver(Around(P, t)) +
         (IF P[p].tick_lower_index <= t /\ t < P[p].tick_upper_index THEN delta ELSE 0)
  <2> DEFINE d == IF P[p].tick_lower_index <= t /\ t < P[p].tick_upper_index THEN delta ELSE 0
  <2>1. /\ \A q \in Position \ {p} : Around(Q, t)[q] = Around(P, t)[q]
        /\ Around(Q, t)[p] = Around(P, t)[p] + d
        /\ d \in Int
    BY <1>1 DEF Around
  <2> HIDE DEF d
  <2>2. SumOver(Around(Q, t)) = SumOver(Around(P, t)) + d
    BY <1>2, <2>1, PlacesType
  <2> QED BY <2>2 DEF d
<1>4. SumOver(From(Q, t)) = SumOver(From(P, t)) +
         (IF P[p].tick_lower_index = t THEN delta ELSE 0)
  <2> DEFINE d == IF P[p].tick_lower_index = t THEN delta ELSE 0
  <2>1. /\ \A q \in Position \ {p} : From(Q, t)[q] = From(P, t)[q]
        /\ From(Q, t)[p] = From(P, t)[p] + d
        /\ d \in Int
    BY <1>1 DEF From
  <2> HIDE DEF d
  <2>2. SumOver(From(Q, t)) = SumOver(From(P, t)) + d
    BY <1>2, <2>1, PlacesType
  <2> QED BY <2>2 DEF d
<1>5. SumOver(UpTo(Q, t)) = SumOver(UpTo(P, t)) +
         (IF P[p].tick_upper_index = t THEN delta ELSE 0)
  <2> DEFINE d == IF P[p].tick_upper_index = t THEN delta ELSE 0
  <2>1. /\ \A q \in Position \ {p} : UpTo(Q, t)[q] = UpTo(P, t)[q]
        /\ UpTo(Q, t)[p] = UpTo(P, t)[p] + d
        /\ d \in Int
    BY <1>1 DEF UpTo
  <2> HIDE DEF d
  <2>2. SumOver(UpTo(Q, t)) = SumOver(UpTo(P, t)) + d
    BY <1>2, <2>1, PlacesType
  <2> QED BY <2>2 DEF d
<1> QED BY <1>3, <1>4, <1>5

\* From one tick to the next the liquidity around changes by what begins there less
\* what ends there.
LEMMA AroundNext ==
    ASSUME NEW P \in PositionsType, \A p \in Position : IsOrdered(P[p]), NEW t \in Int
    PROVE  SumOver(Around(P, t)) + SumOver(UpTo(P, t))
             = SumOver(Around(P, t - 1)) + SumOver(From(P, t))
<1>1. ASSUME NEW p \in Position
      PROVE  Around(P, t)[p] + UpTo(P, t)[p] = Around(P, t - 1)[p] + From(P, t)[p]
  <2>1. /\ P[p].liquidity \in Int
        /\ P[p].tick_lower_index \in Int /\ P[p].tick_upper_index \in Int
    BY WidthsAreNumbers, SqrtPriceRangeType DEF PositionsType, PositionType
  <2>2. P[p].liquidity = 0 \/ P[p].tick_lower_index < P[p].tick_upper_index
    BY DEF IsOrdered, PositionsType, PositionType
  <2> DEFINE l == P[p].liquidity
             lo == P[p].tick_lower_index
             up == P[p].tick_upper_index
  <2>3. /\ Around(P, t)[p] = IF lo <= t /\ t < up THEN l ELSE 0
        /\ UpTo(P, t)[p] = IF up = t THEN l ELSE 0
        /\ Around(P, t - 1)[p] = IF lo <= t - 1 /\ t - 1 < up THEN l ELSE 0
        /\ From(P, t)[p] = IF lo = t THEN l ELSE 0
    BY DEF Around, UpTo, From
  <2> HIDE DEF l, lo, up
  <2>4. l \in Int /\ lo \in Int /\ up \in Int /\ (l = 0 \/ lo < up)
    BY <2>1, <2>2 DEF l, lo, up
  <2> QED BY <2>3, <2>4
<1> QED BY <1>1, SumsAdd, PlacesType

\* The ticks T agree with the positions P, and those out of use are clean.
TicksAgree(T, P) == \A t \in UsableTick : Matches(T[t], P, t) /\ IsClean(T[t])

\* Where no initialized tick lies between, the liquidity around is the same.
LEMMA AroundFlat ==
    ASSUME NEW P \in PositionsType, \A p \in Position : IsOrdered(P[p]),
           NEW T \in [UsableTick -> TickType], TicksAgree(T, P),
           NEW lo \in Int, NEW hi \in Int, lo <= hi,
           \A u \in UsableTick : lo < u /\ u <= hi => ~T[u].initialized
    PROVE  SumOver(Around(P, lo)) = SumOver(Around(P, hi))
<1>1. ASSUME NEW p \in Position, NEW u \in UsableTick, lo < u, u <= hi,
             u = P[p].tick_lower_index \/ u = P[p].tick_upper_index
      PROVE  P[p].liquidity = 0
  <2>1. ~T[u].initialized /\ Matches(T[u], P, u) /\ IsClean(T[u])
    BY <1>1 DEF TicksAgree
  <2>2. T[u].liquidity_gross = 0
    BY <2>1 DEF IsClean
  <2>3. SumOver(From(P, u)) + SumOver(UpTo(P, u)) = 0
    BY <2>1, <2>2 DEF Matches
  <2>4. SumOver(From(P, u)) \in Nat /\ SumOver(UpTo(P, u)) \in Nat
    BY PlacesType
  <2>5. SumOver(From(P, u)) = 0 /\ SumOver(UpTo(P, u)) = 0
    BY <2>3, <2>4
  <2>6. From(P, u)[p] <= 0 /\ UpTo(P, u)[p] <= 0
    BY <2>5, PlacesType, SumOfNats
  <2>7. P[p].liquidity <= 0 /\ P[p].liquidity \in Nat
    BY <1>1, <2>6, WidthsAreNumbers DEF From, UpTo, PositionsType, PositionType
  <2> QED BY <2>7
<1>2. ASSUME NEW p \in Position PROVE Around(P, lo)[p] = Around(P, hi)[p]
  <2> DEFINE l == P[p].tick_lower_index
             u == P[p].tick_upper_index
  <2>1. l \in UsableTick /\ u \in UsableTick /\ l \in Int /\ u \in Int
    BY SqrtPriceRangeType DEF PositionsType, PositionType
  <2>2. P[p].liquidity = 0 \/ l < u
    BY DEF IsOrdered, PositionsType, PositionType
  <2>3. P[p].liquidity = 0 \/ (~(lo < l /\ l <= hi) /\ ~(lo < u /\ u <= hi))
    BY <1>1, <2>1
  <2>4. /\ Around(P, lo)[p] = IF l <= lo /\ lo < u THEN P[p].liquidity ELSE 0
        /\ Around(P, hi)[p] = IF l <= hi /\ hi < u THEN P[p].liquidity ELSE 0
    BY DEF Around
  <2> HIDE DEF l, u
  <2> QED BY <2>1, <2>2, <2>3, <2>4
<1>3. Around(P, lo) = Around(P, hi)
  BY <1>2 DEF Around
<1> QED BY <1>3

----------------------------------------------------------------------------
(* The instructions other than swaps.                                      *)

\* Positions in order, and ticks that agree with them, in the accounts and in a swap.
LedgerInv ==
    /\ \A p \in Position : IsOrdered(positions[p])
    /\ TicksAgree(ticks, positions)
    /\ ~Idle => TicksAgree(swap.ticks, positions)

\* LiquidityMatchesPositions, as sums.
InForceInv ==
    /\ pool.liquidity = SumOver(Around(positions, pool.tick_current_index))
    /\ ~Idle => swap.curr_liquidity = SumOver(Around(positions, swap.curr_tick_index))

\* What leaves weights, ticks and the liquidity in force alone keeps both.
LEMMA PlacesKeptInv ==
    ASSUME LedgerInv, Idle', UNCHANGED ticks,
           pool'.liquidity = pool.liquidity,
           pool'.tick_current_index = pool.tick_current_index,
           \A p \in Position :
              /\ IsOrdered(positions'[p])
              /\ positions'[p].liquidity = positions[p].liquidity
              /\ \/ positions[p].liquidity = 0
                 \/ /\ positions'[p].tick_lower_index = positions[p].tick_lower_index
                    /\ positions'[p].tick_upper_index = positions[p].tick_upper_index
    PROVE  LedgerInv' /\ (InForceInv => InForceInv')
<1>1. \A t : /\ Around(positions', t) = Around(positions, t)
             /\ From(positions', t) = From(positions, t)
             /\ UpTo(positions', t) = UpTo(positions, t)
  BY PlacesKept
<1>2. TicksAgree(ticks', positions')
  BY <1>1 DEF LedgerInv, TicksAgree, Matches
<1> QED BY <1>1, <1>2 DEF LedgerInv, InForceInv

\* Where a position is stays as it was when its liquidity changes.
LEMMA UpdatedPositionPlace ==
    ASSUME TypeOK, NEW p \in Position, NEW delta \in Int, CanModifyLiquidity(p, delta)
    PROVE  LET pos == positions[p]
               next == UpdatedPosition(p, delta)
           IN  /\ next.liquidity = pos.liquidity + delta
               /\ next.tick_lower_index = pos.tick_lower_index
               /\ next.tick_upper_index = pos.tick_upper_index
               /\ next.open = pos.open /\ pos.open
<1>1. positions[p] \in PositionType
  BY DEF TypeOK
<1>2. AddLiquidityDelta(positions[p].liquidity, delta) = positions[p].liquidity + delta
  BY DEF CanModifyLiquidity, AddLiquidityDelta, Checked
<1>3. positions[p].open
  BY DEF CanModifyLiquidity
<1> QED BY <1>1, <1>2, <1>3 DEF UpdatedPosition, NextPositionModifyLiquidityUpdate, PositionType

(***************************************************************************)
(* The tick at an end of the position whose liquidity changes: gross and   *)
(* net follow the sums, and when nothing ends there any more both are zero,*)
(* as the default has them.                                                *)
(***************************************************************************)
LEMMA ModifiedTickMatches ==
    ASSUME NEW P \in PositionsType, NEW Q \in PositionsType, NEW p \in Position,
           NEW delta \in Int,
           \A q \in Position \ {p} : Q[q] = P[q],
           Q[p].liquidity = P[p].liquidity + delta,
           Q[p].tick_lower_index = P[p].tick_lower_index,
           Q[p].tick_upper_index = P[p].tick_upper_index,
           P[p].tick_lower_index # P[p].tick_upper_index,
           NEW upper \in BOOLEAN, NEW t,
           t = IF upper THEN P[p].tick_upper_index ELSE P[p].tick_lower_index,
           NEW tick \in TickType, Matches(tick, P, t),
           TickCanModifyLiquidity(tick, delta, upper), NEW infos, NEW thePool
    PROVE  Matches(NextTickModifyLiquidityUpdate(tick, t, thePool, infos, delta, upper), Q, t)
<1> DEFINE next == NextTickModifyLiquidityUpdate(tick, t, thePool, infos, delta, upper)
           gross == AddLiquidityDelta(tick.liquidity_gross, delta)
           from == SumOver(From(P, t))
           upto == SumOver(UpTo(P, t))
           from2 == SumOver(From(Q, t))
           upto2 == SumOver(UpTo(Q, t))
<1>1. /\ from \in Nat /\ upto \in Nat /\ from2 \in Nat /\ upto2 \in Nat
  BY PlacesType
<1>2. /\ from2 = from + (IF upper THEN 0 ELSE delta)
      /\ upto2 = upto + (IF upper THEN delta ELSE 0)
  <2>1. /\ from2 = from + (IF P[p].tick_lower_index = t THEN delta ELSE 0)
        /\ upto2 = upto + (IF P[p].tick_upper_index = t THEN delta ELSE 0)
    <3>1. /\ P \in PositionsType /\ Q \in PositionsType /\ p \in Position /\ delta \in Int
          /\ \A q \in Position \ {p} : Q[q] = P[q]
          /\ Q[p].liquidity = P[p].liquidity + delta
          /\ Q[p].tick_lower_index = P[p].tick_lower_index
          /\ Q[p].tick_upper_index = P[p].tick_upper_index
      OBVIOUS
    <3>2. SumOver(From(Q, t)) = SumOver(From(P, t)) +
            (IF P[p].tick_lower_index = t THEN delta ELSE 0)
      BY ONLY <3>1, PlacesChanged
    <3>3. SumOver(UpTo(Q, t)) = SumOver(UpTo(P, t)) +
            (IF P[p].tick_upper_index = t THEN delta ELSE 0)
      BY ONLY <3>1, PlacesChanged
    <3> QED BY ONLY <3>2, <3>3
  <2> HIDE DEF from, upto, from2, upto2
  <2> QED BY <2>1
<1>3. tick.liquidity_gross = from + upto /\ tick.liquidity_net = from - upto
  BY DEF Matches
<1>4. gross # Err /\ gross = tick.liquidity_gross + delta
  BY DEF TickCanModifyLiquidity, AddLiquidityDelta, Checked, Err
<1>5. /\ next.liquidity_gross = from2 + upto2
      /\ next.liquidity_net = from2 - upto2
  <2> HIDE DEF from, upto, from2, upto2
  <2>1. CASE delta = 0
    <3>1. next = tick
      BY <2>1 DEF NextTickModifyLiquidityUpdate
    <3> HIDE DEF next
    <3> QED BY <1>1, <1>2, <1>3, <2>1, <3>1
  <2>2. CASE delta # 0 /\ gross = 0
    <3>1. next.liquidity_gross = 0 /\ next.liquidity_net = 0
      BY <2>2 DEF NextTickModifyLiquidityUpdate, DefaultTick
    <3>2. from2 + upto2 = 0
      BY <1>1, <1>2, <1>3, <1>4, <2>2
    <3> HIDE DEF next
    <3> QED BY <1>1, <3>1, <3>2
  <2>3. CASE delta # 0 /\ gross # 0
    <3>1. /\ next.liquidity_gross = gross
          /\ next.liquidity_net = NextLiquidityNet(tick, delta, upper)
      BY <2>3 DEF NextTickModifyLiquidityUpdate
    <3>2. NextLiquidityNet(tick, delta, upper)
            = IF upper THEN (from - upto) - delta ELSE (from - upto) + delta
      BY <1>3 DEF NextLiquidityNet
    <3> HIDE DEF next, gross
    <3> QED BY <1>1, <1>2, <1>3, <1>4, <3>1, <3>2
  <2> QED BY <2>1, <2>2, <2>3
<1> QED BY <1>5 DEF Matches

\* A change of liquidity changes positions, ticks and the liquidity in force together.
LEMMA SyncInv ==
    ASSUME TypeOK, LedgerInv, NEW p \in Position, NEW delta \in Int,
           CanModifyLiquidity(p, delta), SyncModifyLiquidity(p, delta), Idle'
    PROVE  LedgerInv' /\ (InForceInv => InForceInv')
<1> DEFINE pos == positions[p]
           lower == pos.tick_lower_index
           upper == pos.tick_upper_index
           tick == pool.tick_current_index
<1>1. /\ positions \in PositionsType /\ positions' \in PositionsType
      /\ ticks \in [UsableTick -> TickType]
      /\ pool'.tick_current_index = tick
      /\ lower \in UsableTick /\ upper \in UsableTick
  BY SyncTypes DEF TypeOK, PositionsType, PositionType
<1>2. positions' = [positions EXCEPT ![p] = UpdatedPosition(p, delta)]
  BY DEF SyncModifyLiquidity
<1>3. /\ \A q \in Position \ {p} : positions'[q] = positions[q]
      /\ positions'[p].liquidity = pos.liquidity + delta
      /\ positions'[p].tick_lower_index = lower
      /\ positions'[p].tick_upper_index = upper
      /\ positions'[p].open = pos.open /\ pos.open
  BY <1>1, <1>2, UpdatedPositionPlace DEF PositionsType
<1>4. lower < upper /\ lower # upper
  <2>1. lower < upper
    BY <1>3 DEF LedgerInv, IsOrdered
  <2>2. lower \in Int /\ upper \in Int
    BY <1>1, SqrtPriceRangeType
  <2> QED BY <2>1, <2>2
<1>5. \A q \in Position : IsOrdered(positions'[q])
  BY <1>3 DEF LedgerInv, IsOrdered
<1>6. ticks' = [ticks EXCEPT ![lower] = UpdatedTick(lower, delta, FALSE),
                             ![upper] = UpdatedTick(upper, delta, TRUE)]
  BY DEF SyncModifyLiquidity
<1>7. /\ TickCanModifyLiquidity(ticks[lower], delta, FALSE)
      /\ TickCanModifyLiquidity(ticks[upper], delta, TRUE)
      /\ NextPoolLiquidity(pool, lower, upper, delta) # Err
  BY DEF CanModifyLiquidity
<1>8. ASSUME NEW t \in UsableTick PROVE Matches(ticks'[t], positions', t)
  <2>0. Matches(ticks[t], positions, t) /\ ticks[t] \in TickType
    BY <1>1 DEF LedgerInv, TicksAgree
  <2>1. CASE t = lower
    <3>1. ticks'[t] = UpdatedTick(lower, delta, FALSE)
      BY <1>1, <1>4, <1>6, <2>1
    <3>2. Matches(NextTickModifyLiquidityUpdate(ticks[t], t, pool, NewRewardInfos, delta, FALSE),
                  positions', t)
      BY <1>1, <1>3, <1>4, <1>7, <2>0, <2>1, ModifiedTickMatches
    <3> QED BY <2>1, <3>1, <3>2 DEF UpdatedTick
  <2>2. CASE t = upper
    <3>1. ticks'[t] = UpdatedTick(upper, delta, TRUE)
      BY <1>1, <1>4, <1>6, <2>2
    <3>2. Matches(NextTickModifyLiquidityUpdate(ticks[t], t, pool, NewRewardInfos, delta, TRUE),
                  positions', t)
      BY <1>1, <1>3, <1>4, <1>7, <2>0, <2>2, ModifiedTickMatches
    <3> QED BY <2>2, <3>1, <3>2 DEF UpdatedTick
  <2>3. CASE t # lower /\ t # upper
    <3>1. ticks'[t] = ticks[t]
      BY <1>1, <1>6, <2>3
    <3>2. /\ SumOver(From(positions', t)) = SumOver(From(positions, t)) + 0
          /\ SumOver(UpTo(positions', t)) = SumOver(UpTo(positions, t)) + 0
      BY <1>1, <1>3, <2>3, PlacesChanged
    <3>3. /\ SumOver(From(positions', t)) = SumOver(From(positions, t))
          /\ SumOver(UpTo(positions', t)) = SumOver(UpTo(positions, t))
      BY <1>1, <3>2, PlacesType
    <3> QED BY <2>0, <3>1, <3>3 DEF Matches
  <2> QED BY <2>1, <2>2, <2>3
<1>9. \A t \in UsableTick : IsClean(ticks'[t])
  <2>1. TicksClean
    BY DEF LedgerInv, TicksAgree, TicksClean
  <2> QED BY <2>1, SyncClean
<1>10. LedgerInv'
  BY <1>5, <1>8, <1>9 DEF LedgerInv, TicksAgree
<1>11. ASSUME InForceInv PROVE InForceInv'
  <2>1. pool'.liquidity = NextPoolLiquidity(pool, lower, upper, delta)
    BY DEF SyncModifyLiquidity, TypeOK, PoolType
  <2>2. NextPoolLiquidity(pool, lower, upper, delta)
          = pool.liquidity + (IF lower <= tick /\ tick < upper THEN delta ELSE 0)
    <3>1. pool.liquidity \in Int
      BY WidthsAreNumbers DEF TypeOK, PoolType
    <3> QED BY <1>7, <3>1 DEF NextPoolLiquidity, AddLiquidityDelta, Checked
  <2>3. SumOver(Around(positions', tick)) = SumOver(Around(positions, tick))
          + (IF lower <= tick /\ tick < upper THEN delta ELSE 0)
    BY <1>1, <1>3, PlacesChanged
  <2> QED BY <1>1, <1>11, <2>1, <2>2, <2>3 DEF InForceInv
<1> QED BY <1>10, <1>11

\* Every instruction on a position keeps the ledger.
LEMMA AnyPositionInv ==
    ASSUME TypeOK, LedgerInv, NEW p \in Position, AnyPositionInstruction(p)
    PROVE  LedgerInv' /\ (InForceInv => InForceInv')
<1>0. /\ Idle'
      /\ pool'.tick_current_index = pool.tick_current_index
      /\ positions \in [Position -> PositionType]
  BY AnyPositionTypes DEF KeepsPrice, TypeOK
<1>1. ASSUME NEW lower, NEW upper, OpenPosition(p, lower, upper)
      PROVE  LedgerInv' /\ (InForceInv => InForceInv')
  <2>1. \A q \in Position :
              /\ IsOrdered(positions'[q])
              /\ positions'[q].liquidity = positions[q].liquidity
              /\ \/ positions[q].liquidity = 0
                 \/ /\ positions'[q].tick_lower_index = positions[q].tick_lower_index
                    /\ positions'[q].tick_upper_index = positions[q].tick_upper_index
    BY <1>0, <1>1 DEF OpenPosition, LedgerInv, IsOrdered, ClosedPosition
  <2> QED BY <1>0, <1>1, <2>1, PlacesKeptInv DEF OpenPosition
<1>2. ASSUME ClosePosition(p) PROVE LedgerInv' /\ (InForceInv => InForceInv')
  <2>1. \A q \in Position :
              /\ IsOrdered(positions'[q])
              /\ positions'[q].liquidity = positions[q].liquidity
              /\ \/ positions[q].liquidity = 0
                 \/ /\ positions'[q].tick_lower_index = positions[q].tick_lower_index
                    /\ positions'[q].tick_upper_index = positions[q].tick_upper_index
    BY <1>0, <1>2 DEF ClosePosition, IsPositionEmpty, LedgerInv, IsOrdered, ClosedPosition
  <2> QED BY <1>0, <1>2, <2>1, PlacesKeptInv DEF ClosePosition
<1>3. ASSUME NEW amount \in U128, IncreaseLiquidity(p, amount)
      PROVE  LedgerInv' /\ (InForceInv => InForceInv')
  <2>1. /\ amount \in Int
        /\ CanModifyLiquidity(p, amount) /\ SyncModifyLiquidity(p, amount)
    BY <1>3, WidthsAreNumbers DEF IncreaseLiquidity
  <2> QED BY <1>0, <2>1, SyncInv
<1>4. ASSUME NEW amount \in U128, DecreaseLiquidity(p, amount)
      PROVE  LedgerInv' /\ (InForceInv => InForceInv')
  <2> DEFINE delta == -amount
  <2>1. delta \in Int
    BY <1>4, WidthsAreNumbers DEF DecreaseLiquidity
  <2>2. CanModifyLiquidity(p, delta) /\ SyncModifyLiquidity(p, delta)
    BY <1>4 DEF DecreaseLiquidity
  <2> HIDE DEF delta
  <2> QED BY <1>0, <2>1, <2>2, SyncInv
<1>5. ASSUME UpdateFeesAndRewards(p) PROVE LedgerInv' /\ (InForceInv => InForceInv')
  <2>1. CanModifyLiquidity(p, 0) /\ positions' = [positions EXCEPT ![p] = UpdatedPosition(p, 0)]
    BY <1>5 DEF UpdateFeesAndRewards
  <2>2. positions[p].liquidity + 0 = positions[p].liquidity
    BY <1>0, WidthsAreNumbers DEF PositionType
  <2>3. /\ UpdatedPosition(p, 0).liquidity = positions[p].liquidity
        /\ UpdatedPosition(p, 0).tick_lower_index = positions[p].tick_lower_index
        /\ UpdatedPosition(p, 0).tick_upper_index = positions[p].tick_upper_index
        /\ UpdatedPosition(p, 0).open = positions[p].open
    BY <2>1, <2>2, UpdatedPositionPlace, 0 \in Int
  <2>4. \A q \in Position :
              /\ IsOrdered(positions'[q])
              /\ positions'[q].liquidity = positions[q].liquidity
              /\ positions'[q].tick_lower_index = positions[q].tick_lower_index
              /\ positions'[q].tick_upper_index = positions[q].tick_upper_index
    BY <1>0, <2>1, <2>3 DEF LedgerInv, IsOrdered
  <2>5. UNCHANGED ticks /\ pool'.liquidity = pool.liquidity
    BY <1>5 DEF UpdateFeesAndRewards, TypeOK, PoolType
  <2> QED BY <1>0, <2>4, <2>5, PlacesKeptInv
<1>6. ASSUME CollectFees(p) PROVE LedgerInv' /\ (InForceInv => InForceInv')
  <2>1. positions' = [positions EXCEPT ![p] = [@ EXCEPT !.fee_owed = [k \in Token |-> 0]]]
    BY <1>0, <1>6 DEF CollectFees
  <2>2. \A q \in Position :
              /\ IsOrdered(positions'[q])
              /\ positions'[q].liquidity = positions[q].liquidity
              /\ positions'[q].tick_lower_index = positions[q].tick_lower_index
              /\ positions'[q].tick_upper_index = positions[q].tick_upper_index
    BY <1>0, <2>1 DEF LedgerInv, IsOrdered, PositionType
  <2> QED BY <1>0, <1>6, <2>2, PlacesKeptInv DEF CollectFees
<1>7. ASSUME NEW r \in Reward, CollectReward(p, r)
      PROVE  LedgerInv' /\ (InForceInv => InForceInv')
  <2>1. PICK amount : positions' = [positions EXCEPT ![p] =
                 [positions[p] EXCEPT !.reward_owed[r] = positions[p].reward_owed[r] - amount]]
    BY <1>0, <1>7 DEF CollectReward
  <2>2. \A q \in Position :
              /\ IsOrdered(positions'[q])
              /\ positions'[q].liquidity = positions[q].liquidity
              /\ positions'[q].tick_lower_index = positions[q].tick_lower_index
              /\ positions'[q].tick_upper_index = positions[q].tick_upper_index
    BY <1>0, <2>1 DEF LedgerInv, IsOrdered, PositionType
  <2> QED BY <1>0, <1>7, <2>2, PlacesKeptInv DEF CollectReward
<1> QED BY <1>1, <1>2, <1>3, <1>4, <1>5, <1>6, <1>7, PoolAssumption
        DEF PositionInstruction, AnyPositionInstruction

\* And so does every one of a run.
LEMMA PositionInstructionInv ==
    ASSUME TypeOK, LedgerInv, NEW p \in Position, PositionInstruction(p)
    PROVE  LedgerInv' /\ (InForceInv => InForceInv')
BY AnyPositionInv DEF AnyPositionInstruction

----------------------------------------------------------------------------
(* The swap.                                                               *)

\* The arrays of a swap in progress are arrays of the pool.
ArraysLoaded ==
    ~Idle => \A i \in 1 .. Len(swap.args.arrays) : swap.args.arrays[i] \in arrays

\* No net of a tick is the least i128, whose negation overflows (to itself, in a
\* release build): that would take half of what a u128 holds to end on one tick.
NetsNegatable ==
    ~Idle => \A t \in UsableTick : -(swap.ticks[t].liquidity_net) \in I128

\* Crossing a tick leaves its gross and net alone.
LEMMA SwapStepLedger ==
    ASSUME IInv, LedgerInv, SwapStep
    PROVE  LedgerInv'
<1>1. PICK j, t, c : swap' = StepSwap(pool, swap, j, t, c, NewRewardInfos)
  BY DEF SwapStep
<1>2. /\ swap \in SwapType /\ swap.ticks \in [UsableTick -> TickType]
      /\ \A u \in UsableTick : Matches(swap.ticks[u], positions, u)
      /\ UNCHANGED <<ticks, positions>>
  BY DEF SwapStep, IInv, TypeOK, Idle, SwapType, LedgerInv, TicksAgree
<1> DEFINE crossed == c.next_price = SqrtPrice[t] /\ CrossesTick(swap, j, t)
<1>3. swap'.ticks = IF crossed THEN TicksAfterCross(pool, swap, t, c, NewRewardInfos)
                    ELSE swap.ticks
  BY <1>1, <1>2 DEF StepSwap, SwapType
<1>4. ASSUME NEW u \in UsableTick
      PROVE  /\ swap'.ticks[u].liquidity_gross = swap.ticks[u].liquidity_gross
             /\ swap'.ticks[u].liquidity_net = swap.ticks[u].liquidity_net
  <2>1. CASE crossed
    <3>1. PICK growth : swap'.ticks =
            [swap.ticks EXCEPT ![t] = NextTickCrossUpdate(@, growth, NewRewardInfos)]
      BY <1>3, <2>1 DEF TicksAfterCross
    <3>2. t \in UsableTick
      BY <2>1 DEF CrossesTick, IsInitializedTick, TicksOf
    <3> DEFINE next == NextTickCrossUpdate(swap.ticks[t], growth, NewRewardInfos)
    <3>3. /\ next.liquidity_gross = swap.ticks[t].liquidity_gross
          /\ next.liquidity_net = swap.ticks[t].liquidity_net
      BY <1>2, <3>2 DEF NextTickCrossUpdate, TickType
    <3> HIDE DEF next
    <3>4. swap'.ticks = [swap.ticks EXCEPT ![t] = next]
      BY <3>1 DEF next
    <3> QED BY <1>2, <3>2, <3>3, <3>4
  <2>2. CASE ~crossed
    BY <1>3, <2>2
  <2> QED BY <2>1, <2>2
<1>5. \A u \in UsableTick : Matches(swap'.ticks[u], positions', u)
  BY <1>2, <1>4 DEF Matches
<1>6. TicksClean
  BY DEF LedgerInv, TicksAgree, TicksClean
<1>7. \A u \in UsableTick : IsClean(swap'.ticks[u])
  BY <1>6, SwapStepClean
<1> QED BY <1>2, <1>5, <1>7 DEF LedgerInv, TicksAgree

\* A step that stops short of the tick it was after stays on this side of it, and
\* does not turn back.
LEMMA ShortStepTick ==
    ASSUME NEW price \in SqrtPriceRange, NEW tick \in CurrentTick, PriceIsAt(price, tick),
           NEW next \in SqrtPriceRange, next # price, NEW t \in TickIndex, next # SqrtPrice[t],
           NEW aToB \in BOOLEAN,
           IF aToB THEN SqrtPrice[t] <= next /\ next <= price
           ELSE price <= next /\ next <= SqrtPrice[t]
    PROVE  LET u == TickIndexFromSqrtPrice(next)
           IN  u \in Int /\ IF aToB THEN t <= u /\ u <= tick ELSE tick <= u /\ u <= t - 1
<1> DEFINE u == TickIndexFromSqrtPrice(next)
<1>1. /\ u \in TickIndex
      /\ SqrtPrice[u] <= next
      /\ u = MAX_TICK_INDEX \/ next < SqrtPrice[u + 1]
  BY TickOfPrice DEF SqrtPriceRange
<1> HIDE DEF u
<1>2. /\ u \in Int /\ t \in Int /\ tick \in Int /\ price \in Nat /\ next \in Nat
      /\ SqrtPrice[u] \in Nat /\ SqrtPrice[t] \in Nat
      /\ u <= MAX_TICK_INDEX /\ MIN_TICK_INDEX <= u /\ t <= MAX_TICK_INDEX
      /\ MAX_TICK_INDEX \in Int /\ MIN_TICK_INDEX \in Int
      /\ tick <= MAX_TICK_INDEX
  BY <1>1, SqrtPriceRangeType, SqrtPriceType, MathAssumption DEF TickIndex, CurrentTick
<1>3. CASE aToB
  <2>1. SqrtPrice[t] < next /\ next < price
    BY <1>2, <1>3
  <2>2. ~(u < t)
    <3>1. SUFFICES ASSUME u < t PROVE FALSE
      OBVIOUS
    <3>2. u + 1 \in TickIndex /\ u + 1 <= t /\ u # MAX_TICK_INDEX
      BY <1>2, <3>1 DEF TickIndex
    <3>3. SqrtPrice[u + 1] <= SqrtPrice[t] /\ SqrtPrice[u + 1] \in Nat
      BY <3>2, SqrtPriceType
    <3> QED BY <1>1, <1>2, <2>1, <3>2, <3>3
  <2>3. ~(tick < u)
    <3>1. SUFFICES ASSUME tick < u PROVE FALSE
      OBVIOUS
    <3>2. price <= SqrtPrice[u]
      BY <1>1, <3>1, TicksAround
    <3> QED BY <1>1, <1>2, <2>1, <3>2
  <2>4. t <= u /\ u <= tick
    BY <1>2, <2>2, <2>3
  <2> QED BY <1>2, <1>3, <2>4 DEF u
<1>4. CASE ~aToB
  <2>1. next < SqrtPrice[t] /\ price < next
    BY <1>2, <1>4
  <2>2. ~(t <= u)
    <3>1. SUFFICES ASSUME t <= u PROVE FALSE
      OBVIOUS
    <3>2. SqrtPrice[t] <= SqrtPrice[u]
      BY <1>1, <3>1, SqrtPriceType
    <3> QED BY <1>1, <1>2, <2>1, <3>2
  <2>3. ~(u < tick)
    <3>1. SUFFICES ASSUME u < tick PROVE FALSE
      OBVIOUS
    <3>2. u + 1 \in TickIndex /\ u + 1 <= tick /\ u # MAX_TICK_INDEX
      BY <1>2, <3>1 DEF TickIndex
    <3>3. SqrtPrice[u + 1] <= price /\ SqrtPrice[u + 1] \in Nat
      BY <3>2, TicksAround, SqrtPriceType
    <3> QED BY <1>1, <1>2, <2>1, <3>2, <3>3
  <2>4. tick <= u /\ u <= t - 1
    BY <1>2, <2>2, <2>3
  <2> QED BY <1>2, <1>4, <2>4 DEF u
<1> QED BY <1>3, <1>4

(***************************************************************************)
(* An iteration of the loop keeps the liquidity in force that of the       *)
(* positions around: between the tick and where the iteration ends no tick *)
(* is initialized but the one it crosses, whose net it applies.            *)
(***************************************************************************)
LEMMA StepSwapInForce ==
    ASSUME IInv, LedgerInv, InForceInv, ArraysLoaded, NetsNegatable,
           ~Idle, SwapRunning(swap), CanSearch(swap),
           NEW j, j = NextArrayIndex(swap), NEW t, t = NextTick(swap, j),
           NEW c, c = SwapComputation(pool, swap, t), StepOk(pool, swap, j, t, c),
           NEW next, next = StepSwap(pool, swap, j, t, c, NewRewardInfos)
    PROVE  next.curr_liquidity = SumOver(Around(positions, next.curr_tick_index))
<1> DEFINE s == swap
           P == positions
           T == swap.ticks
           tick == swap.curr_tick_index
           aToB == swap.args.a_to_b
           reached == c.next_price = SqrtPrice[t]
           crossed == reached /\ CrossesTick(s, j, t)
           L(x) == SumOver(Around(P, x))
<1>1. /\ s \in SwapType /\ s.args \in SwapRequest /\ P \in PositionsType
      /\ T \in [UsableTick -> TickType] /\ aToB \in BOOLEAN
      /\ s.args.arrays \in Seq(Int)
      /\ tick \in CurrentTick /\ s.curr_array_index \in Nat \ {0}
      /\ s.curr_sqrt_price \in SqrtPriceRange
      /\ tick \in Int /\ tick \in MIN_TICK_INDEX - 1 .. MAX_TICK_INDEX
  BY SwapArgsType, SqrtPriceRangeType
     DEF IInv, TypeOK, Idle, SwapType, PositionsType, CurrentTick
<1>2. /\ \A p \in Position : IsOrdered(P[p])
      /\ TicksAgree(T, P)
      /\ s.curr_liquidity = L(tick)
  BY DEF LedgerInv, InForceInv
<1>3. /\ t \in TickIndex /\ t \in Int
      /\ IF aToB THEN t <= tick ELSE tick < t
      /\ SqrtPriceTarget(s, t) \in SqrtPriceRange
      /\ SqrtPrice[t] \in Nat
  <2>1. t \in TickIndex /\ SqrtPriceTarget(s, t) \in SqrtPriceRange
        /\ IF aToB THEN t <= tick ELSE tick < t
    BY SearchInv
  <2>2. t \in Int
    BY <2>1, MathAssumption DEF TickIndex
  <2> QED BY <2>1, <2>2, SqrtPriceType
<1>4. ASSUME NEW u \in UsableTick, T[u].initialized,
             IF aToB THEN t <= u /\ u <= tick ELSE tick < u /\ u <= t
      PROVE  u = t /\ u \in TicksOf(s.args.arrays[j])
  <2>1. Len(s.args.arrays) <= 3
    BY DEF IInv, SwapWithinLimits
  <2>2. \A i \in 1 .. Len(s.args.arrays) : IsValidStartTick(s.args.arrays[i])
    BY DEF ArraysLoaded, IInv, TypeOK, ArrayStart
  <2>3. SearchOk(T, s.args.arrays, s.curr_array_index, tick, aToB)
    BY DEF CanSearch
  <2>4. /\ j = StopArray(T, s.args.arrays, s.curr_array_index, tick, aToB)
        /\ t = NextTickIndex(T, s.args.arrays, j, s.curr_array_index, tick, aToB)
    BY DEF NextArrayIndex, NextTick
  <2> HIDE DEF s, T, tick, aToB
  <2> QED BY <1>1, <1>4, <2>1, <2>2, <2>3, <2>4, SearchSkipsNothing, SMTT(30)
<1>5. CrossesTick(s, j, t) <=> t \in UsableTick /\ T[t].initialized
  <2>1. IF aToB THEN t <= t /\ t <= tick ELSE tick < t /\ t <= t
    BY <1>1, <1>3
  <2> QED BY <1>4, <2>1 DEF CrossesTick, IsInitializedTick, TicksOf
<1>6. /\ next.curr_liquidity = IF crossed THEN LiquidityAfterCross(T[t], aToB, s.curr_liquidity)
                               ELSE s.curr_liquidity
      /\ next.curr_tick_index = IF reached THEN TickAfterTick(s, t)
                                ELSE TickAfterShortStep(s, c.next_price)
  BY <1>1 DEF StepSwap, SwapType
<1>7. ASSUME NEW lo \in Int, NEW hi \in Int, lo <= hi,
             \A u \in UsableTick : lo < u /\ u <= hi => ~T[u].initialized
      PROVE  L(lo) = L(hi)
  BY <1>1, <1>2, <1>7, AroundFlat
<1>8. IF aToB THEN L(tick) = L(t) ELSE L(tick) = L(t - 1)
  <2> HIDE DEF L, T, tick, aToB
  <2>0. UsableTick \subseteq Int
    BY SqrtPriceRangeType
  <2>1. CASE aToB
    <3>1. \A u \in UsableTick : t < u /\ u <= tick => ~T[u].initialized
      BY <1>1, <1>3, <1>4, <2>0, <2>1
    <3> QED BY <1>1, <1>3, <1>7, <2>1, <3>1
  <2>2. CASE ~aToB
    <3>1. \A u \in UsableTick : tick < u /\ u <= t - 1 => ~T[u].initialized
      BY <1>1, <1>3, <1>4, <2>0, <2>2
    <3>2. tick <= t - 1 /\ t - 1 \in Int
      BY <1>1, <1>3, <2>2
    <3> QED BY <1>1, <1>7, <2>2, <3>1, <3>2
  <2> QED BY <1>1, <2>1, <2>2
<1>9. CASE ~reached
  <2> DEFINE new == TickAfterShortStep(s, c.next_price)
  <2>1. /\ c.next_price \in SqrtPriceRange
        /\ BetweenPriceAndLimit(s, c.next_price)
        /\ IF aToB THEN SqrtPriceTarget(s, t) <= c.next_price
           ELSE c.next_price <= SqrtPriceTarget(s, t)
    BY <1>3, ComputationInv DEF StepOk
  <2>2. /\ s.args.sqrt_price_limit \in Nat /\ c.next_price \in Nat
        /\ s.curr_sqrt_price \in Nat
    BY <1>1, <2>1, SqrtPriceRangeType DEF IInv, SwapWithinLimits
  <2>3. IF aToB THEN SqrtPrice[t] <= c.next_price /\ c.next_price <= s.curr_sqrt_price
        ELSE s.curr_sqrt_price <= c.next_price /\ c.next_price <= SqrtPrice[t]
    BY <1>1, <1>3, <2>1, <2>2 DEF SqrtPriceTarget, BetweenPriceAndLimit, Greater, Lesser
  <2>4. new \in Int /\ IF aToB THEN t <= new /\ new <= tick ELSE tick <= new /\ new <= t - 1
    <3>1. CASE c.next_price = s.curr_sqrt_price
      <4>1. new = tick
        BY <3>1 DEF TickAfterShortStep
      <4> HIDE DEF new, tick, aToB
      <4> QED BY <1>1, <1>3, <4>1
    <3>2. CASE c.next_price # s.curr_sqrt_price
      <4>1. new = TickIndexFromSqrtPrice(c.next_price)
        BY <3>2 DEF TickAfterShortStep
      <4>2. PriceIsAt(s.curr_sqrt_price, tick)
        BY DEF IInv, PriceMatchesTick
      <4> HIDE DEF new, tick, aToB, s
      <4> QED BY <1>1, <1>3, <1>9, <2>1, <2>3, <3>2, <4>1, <4>2, ShortStepTick
    <3> QED BY <3>1, <3>2
  <2>5. L(new) = L(tick)
    <3> HIDE DEF new, L, T, tick, aToB
    <3>0. UsableTick \subseteq Int
      BY SqrtPriceRangeType
    <3>1. CASE aToB
      <4>1. \A u \in UsableTick : new < u /\ u <= tick => ~T[u].initialized
        BY <1>1, <1>3, <1>4, <2>4, <3>0, <3>1
      <4> QED BY <1>1, <1>7, <2>4, <3>1, <4>1
    <3>2. CASE ~aToB
      <4>1. \A u \in UsableTick : tick < u /\ u <= new => ~T[u].initialized
        BY <1>1, <1>3, <1>4, <2>4, <3>0, <3>2
      <4> QED BY <1>1, <1>7, <2>4, <3>2, <4>1
    <3> QED BY <1>1, <3>1, <3>2
  <2> QED BY <1>2, <1>6, <1>9, <2>5
<1>10. CASE reached /\ crossed
  <2>1. t \in UsableTick /\ Matches(T[t], P, t)
    BY <1>2, <1>5, <1>10 DEF TicksAgree
  <2> DEFINE net == T[t].liquidity_net
             from == SumOver(From(P, t))
             upto == SumOver(UpTo(P, t))
             at == L(t)
             before == L(t - 1)
  <2>2. /\ at + upto = before + from
        /\ net = from - upto
        /\ at \in Nat /\ upto \in Nat /\ before \in Nat /\ from \in Nat
    BY <1>1, <1>2, <1>3, <2>1, AroundNext, PlacesType DEF Matches
  <2>3. -net \in I128
    BY <2>1 DEF NetsNegatable
  <2>4. LiquidityAfterCross(T[t], aToB, s.curr_liquidity) # Err
    BY <1>10 DEF StepOk
  <2>5. LiquidityAfterCross(T[t], aToB, s.curr_liquidity)
          = s.curr_liquidity + (IF aToB THEN -net ELSE net)
    BY <2>3, <2>4 DEF LiquidityAfterCross, AddLiquidityDelta, Checked
  <2>6. next.curr_tick_index = IF aToB THEN t - 1 ELSE t
    BY <1>6, <1>10 DEF TickAfterTick
  <2>7. next.curr_liquidity = s.curr_liquidity + (IF aToB THEN -net ELSE net)
    BY <1>6, <1>10, <2>5
  <2>8. s.curr_liquidity = IF aToB THEN at ELSE before
    BY <1>2, <1>8
  <2> HIDE DEF net, from, upto, at, before
  <2>9. next.curr_liquidity = IF aToB THEN before ELSE at
    <3>1. CASE aToB
      BY <2>2, <2>7, <2>8, <3>1
    <3>2. CASE ~aToB
      BY <2>2, <2>7, <2>8, <3>2
    <3> QED BY <3>1, <3>2
  <2> QED BY <2>6, <2>9 DEF at, before
<1>11. CASE reached /\ ~crossed
  <2>1. L(t - 1) = L(t)
    <3>1. ASSUME NEW u \in UsableTick, t - 1 < u, u <= t PROVE ~T[u].initialized
      <4>1. u = t
        BY <1>3, <3>1, SqrtPriceRangeType
      <4> QED BY <1>5, <1>11, <4>1
    <3>2. t - 1 \in Int /\ t - 1 <= t
      BY <1>3
    <3> HIDE DEF L, T
    <3> QED BY <1>3, <1>7, <3>1, <3>2
  <2>2. next.curr_tick_index = IF aToB THEN t - 1 ELSE t
    BY <1>6, <1>11 DEF TickAfterTick
  <2>3. next.curr_liquidity = s.curr_liquidity
    BY <1>6, <1>11
  <2> HIDE DEF L
  <2>4. next.curr_liquidity = L(next.curr_tick_index)
    BY <1>2, <1>8, <2>1, <2>2, <2>3
  <2> QED BY <2>4 DEF L
<1> QED BY <1>9, <1>10, <1>11

\* The step, as an action.
LEMMA SwapStepInForce ==
    ASSUME IInv, LedgerInv, InForceInv, ArraysLoaded, NetsNegatable, SwapStep
    PROVE  InForceInv'
<1>1. ~Idle /\ SwapRunning(swap) /\ CanSearch(swap)
  BY DEF SwapStep
<1>2. PICK j \in {NextArrayIndex(swap)} : \E t \in {NextTick(swap, j)} :
        \E c \in {SwapComputation(pool, swap, t)} :
           /\ StepOk(pool, swap, j, t, c)
           /\ swap' = StepSwap(pool, swap, j, t, c, NewRewardInfos)
  BY DEF SwapStep
<1>3. PICK t \in {NextTick(swap, j)} : \E c \in {SwapComputation(pool, swap, t)} :
           /\ StepOk(pool, swap, j, t, c)
           /\ swap' = StepSwap(pool, swap, j, t, c, NewRewardInfos)
  BY <1>2
<1>4. PICK c \in {SwapComputation(pool, swap, t)} :
           /\ StepOk(pool, swap, j, t, c)
           /\ swap' = StepSwap(pool, swap, j, t, c, NewRewardInfos)
  BY <1>3
<1>5. swap'.curr_liquidity = SumOver(Around(positions, swap'.curr_tick_index))
  BY <1>1, <1>2, <1>3, <1>4, StepSwapInForce
<1> QED BY <1>5 DEF InForceInv, SwapStep

----------------------------------------------------------------------------
(* The theorems.                                                           *)

\* No tick and no position has liquidity at first, and none is in force.
LEMMA FreshLedger == Fresh => LedgerInv /\ InForceInv /\ ArraysLoaded
<1> SUFFICES ASSUME Fresh PROVE LedgerInv /\ InForceInv /\ ArraysLoaded
  OBVIOUS
<1>1. /\ Idle /\ TypeOK /\ pool.liquidity = 0
      /\ \A p \in Position : positions[p].liquidity = 0
      /\ \A t \in UsableTick : ticks[t] = DefaultTick
  <2>1. TypeOK
    BY FreshInv DEF IInv
  <2>2. pool.liquidity = 0
    BY DEF Fresh, InitialPool
  <2> QED BY <2>1, <2>2 DEF Fresh, Idle
<1>2. positions \in PositionsType
  BY <1>1 DEF TypeOK, PositionsType
<1>3. \A p \in Position : IsOrdered(positions[p])
  BY <1>1 DEF Fresh, IsOrdered
<1>4. \A t : /\ SumOver(Around(positions, t)) = 0
             /\ SumOver(From(positions, t)) = 0
             /\ SumOver(UpTo(positions, t)) = 0
  <2>1. TAKE t
  <2>2. \A p \in Position : /\ Around(positions, t)[p] = 0
                            /\ From(positions, t)[p] = 0
                            /\ UpTo(positions, t)[p] = 0
    BY <1>1 DEF Around, From, UpTo
  <2> QED BY <1>2, <2>2, SumOfZeros, PlacesType
<1>5. TicksAgree(ticks, positions)
  <2>1. DefaultTick.liquidity_gross = 0 /\ DefaultTick.liquidity_net = 0
    BY DEF DefaultTick
  <2>2. ASSUME NEW t \in UsableTick
        PROVE  Matches(ticks[t], positions, t) /\ IsClean(ticks[t])
    BY <1>1, <1>4, <2>1 DEF Matches, IsClean
  <2> QED BY <2>2 DEF TicksAgree
<1> QED BY <1>1, <1>3, <1>4, <1>5 DEF LedgerInv, InForceInv, ArraysLoaded

\* They hold at first.
LEMMA InitLedger == Init => LedgerInv /\ InForceInv /\ ArraysLoaded
BY InitFresh, FreshLedger

\* What is neither positions nor ticks nor the liquidity in force may change.
LEMMA ElsewhereInv ==
    ASSUME LedgerInv, Idle', UNCHANGED <<ticks, positions>>,
           pool'.liquidity = pool.liquidity,
           pool'.tick_current_index = pool.tick_current_index
    PROVE  LedgerInv' /\ (InForceInv => InForceInv')
BY DEF LedgerInv, InForceInv

\* So do the instructions that are about no position.
LEMMA OtherInstructionInv ==
    ASSUME TypeOK, LedgerInv, RewardInstruction \/ PoolInstruction \/ AdvanceTime
    PROVE  LedgerInv' /\ (InForceInv => InForceInv')
<1>1. pool \in PoolType
  BY DEF TypeOK
<1>2. Idle' /\ pool'.tick_current_index = pool.tick_current_index
  BY RewardInstructionTypes, PoolInstructionTypes, AdvanceTimeTypes DEF KeepsPrice
<1>3. UNCHANGED <<ticks, positions>> /\ pool'.liquidity = pool.liquidity
  <2>1. CASE RewardInstruction
    BY <1>1, <2>1
       DEF RewardInstruction, InitializeReward, FundReward, SetRewardEmissions, PoolType
  <2>2. CASE PoolInstruction
    BY <1>1, <2>2
       DEF PoolInstruction, InitializeTickArray, CollectProtocolFees, SetFeeRate,
           SetProtocolFeeRate, PoolType
  <2>3. CASE AdvanceTime
    BY <2>3 DEF AdvanceTime
  <2> QED BY <2>1, <2>2, <2>3, SMTT(30)
<1> QED BY <1>2, <1>3, ElsewhereInv

\* Every step keeps the ledger, whatever is asked for.
LEMMA AnyNextLedger == IInv /\ LedgerInv /\ [AnyNext]_vars => LedgerInv'
<1> SUFFICES ASSUME IInv, LedgerInv, [AnyNext]_vars PROVE LedgerInv'
  OBVIOUS
<1>0. TypeOK
  BY DEF IInv
<1>1. ASSUME NEW p \in Position, AnyPositionInstruction(p) PROVE LedgerInv'
  BY <1>0, <1>1, AnyPositionInv
<1>2. CASE RewardInstruction \/ PoolInstruction \/ AdvanceTime
  BY <1>0, <1>2, OtherInstructionInv
<1>3. ASSUME NEW a \in SwapRequest, SwapBegin(a) PROVE LedgerInv'
  BY <1>3 DEF SwapBegin, SwapStart, LedgerInv
<1>4. CASE SwapStep
  BY <1>4, SwapStepLedger
<1>5. CASE SwapCommit
  <2>1. Idle' /\ ~Idle /\ ticks' = swap.ticks /\ UNCHANGED positions
    BY <1>5, SwapCommitInv DEF SwapCommit
  <2> QED BY <2>1 DEF LedgerInv
<1>6. CASE SwapRevert
  BY <1>6, SwapRevertInv DEF SwapRevert, LedgerInv
<1>7. CASE UNCHANGED vars
  BY <1>7 DEF vars, LedgerInv, Idle
<1> QED BY <1>1, <1>2, <1>3, <1>4, <1>5, <1>6, <1>7, PoolAssumption
        DEF Next, AnyNext, AnyPositionInstruction, Swapping

\* Every step of a run keeps it.
LEMMA NextLedger == IInv /\ LedgerInv /\ [Next]_vars => LedgerInv'
BY AnyNextLedger DEF AnyNext

\* The arrays of a swap stay loaded.
LEMMA NextArraysLoaded == IInv /\ ArraysLoaded /\ [Next]_vars => ArraysLoaded'
<1> SUFFICES ASSUME IInv, ArraysLoaded, [Next]_vars PROVE ArraysLoaded'
  OBVIOUS
<1>0. TypeOK
  BY DEF IInv
<1>1. ASSUME Idle' PROVE ArraysLoaded'
  BY <1>1 DEF ArraysLoaded
<1>2. ASSUME NEW p \in Position, PositionInstruction(p) PROVE Idle'
  BY <1>0, <1>2, PositionInstructionTypes DEF KeepsPrice
<1>3. RewardInstruction \/ PoolInstruction \/ AdvanceTime => Idle'
  BY <1>0, RewardInstructionTypes, PoolInstructionTypes, AdvanceTimeTypes DEF KeepsPrice
<1>4. ASSUME NEW a \in SwapArgs, SwapBegin(a) PROVE ArraysLoaded'
  <2>1. swap'.args = a /\ arrays' = arrays
    BY <1>4 DEF SwapBegin, SwapStart
  <2>2. \A i \in 1 .. Len(a.arrays) : a.arrays[i] \in arrays
    BY <1>4, SwapArgsType, PoolAssumption DEF SwapBegin, SwapArraysLoad
  <2> QED BY <2>1, <2>2 DEF ArraysLoaded
<1>5. CASE SwapStep
  <2>1. PICK j, t, c : swap' = StepSwap(pool, swap, j, t, c, NewRewardInfos)
    BY <1>5 DEF SwapStep
  <2>2. swap \in SwapType /\ ~Idle /\ arrays' = arrays
    BY <1>0, <1>5 DEF SwapStep, TypeOK, Idle
  <2>3. swap'.args = swap.args
    BY <2>1, <2>2 DEF StepSwap, SwapType
  <2> QED BY <2>2, <2>3 DEF ArraysLoaded
<1>6. SwapCommit \/ SwapRevert => Idle'
  BY SwapCommitInv, SwapRevertInv
<1>7. CASE UNCHANGED vars
  BY <1>7 DEF vars, ArraysLoaded, Idle
<1> QED BY <1>1, <1>2, <1>3, <1>4, <1>5, <1>6, <1>7 DEF Next, Swapping

\* While the nets can be negated, every step keeps the liquidity in force.
LEMMA NextInForce ==
    IInv /\ LedgerInv /\ InForceInv /\ ArraysLoaded /\ NetsNegatable /\ [Next]_vars
        => InForceInv'
<1> SUFFICES ASSUME IInv, LedgerInv, InForceInv, ArraysLoaded, NetsNegatable, [Next]_vars
             PROVE  InForceInv'
  OBVIOUS
<1>0. TypeOK
  BY DEF IInv
<1>1. ASSUME NEW p \in Position, PositionInstruction(p) PROVE InForceInv'
  BY <1>0, <1>1, PositionInstructionInv
<1>2. CASE RewardInstruction \/ PoolInstruction \/ AdvanceTime
  BY <1>0, <1>2, OtherInstructionInv
<1>3. ASSUME NEW a \in SwapArgs, SwapBegin(a) PROVE InForceInv'
  <2>1. /\ swap'.curr_liquidity = pool.liquidity
        /\ swap'.curr_tick_index = pool.tick_current_index
        /\ UNCHANGED <<pool, positions>>
    BY <1>3 DEF SwapBegin, SwapStart
  <2> QED BY <2>1 DEF InForceInv
<1>4. CASE SwapStep
  BY <1>4, SwapStepInForce
<1>5. CASE SwapCommit
  <2>1. Idle' /\ ~Idle /\ UNCHANGED positions
    BY <1>5, SwapCommitInv DEF SwapCommit
  <2>2. pool'.liquidity = swap.curr_liquidity /\ pool'.tick_current_index = swap.curr_tick_index
    BY <1>0, <1>5 DEF SwapCommit, PoolAfterSwap, TypeOK, PoolType
  <2> QED BY <2>1, <2>2 DEF InForceInv
<1>6. CASE SwapRevert
  BY <1>6, SwapRevertInv DEF SwapRevert, InForceInv
<1>7. CASE UNCHANGED vars
  BY <1>7 DEF vars, InForceInv, Idle
<1> QED BY <1>1, <1>2, <1>3, <1>4, <1>5, <1>6, <1>7 DEF Next, Swapping

(***************************************************************************)
(* A tick's gross and net liquidity are those of the positions that end on *)
(* it (next_tick_modify_liquidity_update), in the accounts and in the      *)
(* copies a swap works on.                                                 *)
(***************************************************************************)
THEOREM TicksCorrect == Spec => []TicksMatchPositions
<1>1. LedgerInv => TicksMatchPositions
  BY PropertiesAsSums DEF LedgerInv, TicksAgree, TicksMatchPositions
<1> QED BY <1>1, InitInv, NextInv, InitLedger, NextLedger, PTL DEF Spec

(***************************************************************************)
(* The liquidity in force, which the code only ever follows by the nets of *)
(* the ticks it crosses (swap_manager::swap, calculate_update) and by the  *)
(* changes of positions around the current tick (next_pool_liquidity), is  *)
(* the sum over the positions around the tick, after every instruction and *)
(* every iteration of a swap: as long as no net is the least i128.         *)
(***************************************************************************)
THEOREM LiquidityCorrect == Spec /\ []NetsNegatable => []LiquidityMatchesPositions
<1>1. InForceInv => LiquidityMatchesPositions
  BY PropertiesAsSums DEF InForceInv, LiquidityMatchesPositions
<1> QED BY <1>1, InitInv, NextInv, InitLedger, NextLedger, NextArraysLoaded, NextInForce, PTL
       DEF Spec

----------------------------------------------------------------------------
(* The refinement.                                                         *)

\* The ledger's liquidity around a tick is the sum around it.
LEMMA CoveringAsSum ==
    ASSUME NEW P, NEW Q, NEW t
    PROVE  Ledger!Covering([p \in Position |-> <<P[p].tick_lower_index, P[p].tick_upper_index>>],
                           [p \in Position |-> Q[p].liquidity], t)
             = SumOver([p \in Position |->
                 IF P[p].tick_lower_index <= t /\ t < P[p].tick_upper_index
                 THEN Q[p].liquidity ELSE 0])
<1> DEFINE r == [p \in Position |-> <<P[p].tick_lower_index, P[p].tick_upper_index>>]
           l == [p \in Position |-> Q[p].liquidity]
           f == [p \in Position |-> IF r[p][1] <= t /\ t < r[p][2] THEN l[p] ELSE 0]
           g == [p \in Position |->
                 IF P[p].tick_lower_index <= t /\ t < P[p].tick_upper_index
                 THEN Q[p].liquidity ELSE 0]
<1>1. Ledger!Covering(r, l, t) = SumOver(f)
  BY DEF Ledger!Covering
<1>2. f = g
  OBVIOUS
<1> QED BY <1>1, <1>2

\* A step that moves no liquidity, no range and no tick is none of the ledger's.
LEMMA LedgerStutters ==
    ASSUME pool'.liquidity = pool.liquidity,
           pool'.tick_current_index = pool.tick_current_index,
           \A p \in Position :
              /\ positions'[p].liquidity = positions[p].liquidity
              /\ positions'[p].tick_lower_index = positions[p].tick_lower_index
              /\ positions'[p].tick_upper_index = positions[p].tick_upper_index
    PROVE  UNCHANGED Ledger!ledger
BY DEF Ledger!ledger

\* A position without liquidity that is opened or closed gets or loses its range.
LEMMA LedgerSetsRange ==
    ASSUME NEW p \in Position, positions[p].liquidity = 0, positions'[p].liquidity = 0,
           \A q \in Position \ {p} : positions'[q] = positions[q],
           UNCHANGED pool
    PROVE  Ledger!SetRange
<1>1. [q \in Position |-> positions'[q].liquidity] = [q \in Position |-> positions[q].liquidity]
  OBVIOUS
<1> QED BY <1>1 DEF Ledger!SetRange

\* A change of liquidity is one of the ledger's, which asks for what is then in force.
LEMMA LedgerModifies ==
    ASSUME TypeOK, TypeOK', InForceInv', NEW p \in Position, NEW delta \in Int,
           CanModifyLiquidity(p, delta), SyncModifyLiquidity(p, delta)
    PROVE  Ledger!Modify
<1>1. /\ positions \in [Position -> PositionType] /\ positions' \in [Position -> PositionType]
      /\ pool'.tick_current_index = pool.tick_current_index
  BY SyncTypes DEF TypeOK
<1>2. positions' = [positions EXCEPT ![p] = UpdatedPosition(p, delta)]
  BY DEF SyncModifyLiquidity
<1>3. /\ \A q \in Position : /\ positions'[q].tick_lower_index = positions[q].tick_lower_index
                             /\ positions'[q].tick_upper_index = positions[q].tick_upper_index
      /\ \A q \in Position \ {p} : positions'[q].liquidity = positions[q].liquidity
  BY <1>1, <1>2, UpdatedPositionPlace
<1>4. positions'[p].liquidity >= 0
  <2>1. positions'[p].liquidity \in Nat
    BY <1>1, WidthsAreNumbers DEF PositionType
  <2> QED BY <2>1
<1> DEFINE range == [q \in Position |->
                      <<positions[q].tick_lower_index, positions[q].tick_upper_index>>]
           range2 == [q \in Position |->
                      <<positions'[q].tick_lower_index, positions'[q].tick_upper_index>>]
           liquidity == [q \in Position |-> positions[q].liquidity]
           liquidity2 == [q \in Position |-> positions'[q].liquidity]
           tick == pool.tick_current_index
<1>5. pool'.liquidity = Ledger!Covering(range, liquidity2, tick)
  <2>1. Ledger!Covering(range, liquidity2, tick)
          = SumOver([q \in Position |->
              IF positions[q].tick_lower_index <= tick /\ tick < positions[q].tick_upper_index
              THEN positions'[q].liquidity ELSE 0])
    BY CoveringAsSum, SMTT(30)
  <2>2. Around(positions', tick)
          = [q \in Position |->
              IF positions[q].tick_lower_index <= tick /\ tick < positions[q].tick_upper_index
              THEN positions'[q].liquidity ELSE 0]
    BY <1>3 DEF Around
  <2>3. pool'.liquidity = SumOver(Around(positions', tick))
    BY <1>1 DEF InForceInv
  <2> QED BY <2>1, <2>2, <2>3
<1>6. range2 = range
  BY <1>3
<1>7. /\ \A q \in Position \ {p} : liquidity2[q] = liquidity[q]
      /\ liquidity2[p] >= 0
      /\ DOMAIN liquidity2 = Position
  BY <1>3, <1>4
<1> HIDE DEF range, range2, liquidity, liquidity2, tick
<1>8. /\ \E q \in Position : /\ liquidity2[q] >= 0
                             /\ \A r \in Position \ {q} : liquidity2[r] = liquidity[r]
      /\ DOMAIN liquidity2 = Position
      /\ pool'.liquidity = Ledger!Covering(range, liquidity2, tick)
      /\ range2 = range /\ pool'.tick_current_index = tick
  BY <1>1, <1>5, <1>6, <1>7 DEF tick
<1> QED BY <1>8 DEF Ledger!Modify, range, range2, liquidity, liquidity2, tick

\* A swap, when it is committed, is a trade.
LEMMA LedgerTrades ==
    ASSUME TypeOK, TypeOK', InForceInv', UNCHANGED positions
    PROVE  Ledger!Trade
<1> DEFINE range == [q \in Position |->
                      <<positions[q].tick_lower_index, positions[q].tick_upper_index>>]
           liquidity == [q \in Position |-> positions[q].liquidity]
           tick == pool'.tick_current_index
<1>1. tick \in CurrentTick
  BY DEF TypeOK, PoolType
<1>2. pool'.liquidity = Ledger!Covering(range, liquidity, tick)
  <2>1. ASSUME NEW t PROVE Ledger!Covering(range, liquidity, t) = SumOver(Around(positions, t))
    <3>1. [q \in Position |-> IF range[q][1] <= t /\ t < range[q][2] THEN liquidity[q] ELSE 0]
            = Around(positions, t)
      BY DEF Around
    <3> QED BY <3>1 DEF Ledger!Covering
  <2>2. pool'.liquidity = SumOver(Around(positions, tick))
    <3>1. Around(positions', tick) = Around(positions, tick)
      OBVIOUS
    <3> QED BY <3>1 DEF InForceInv
  <2> HIDE DEF range, liquidity, tick
  <2> QED BY <2>1, <2>2
<1> QED BY <1>1, <1>2 DEF Ledger!Trade

\* An instruction on a position, as a step of the ledger.
LEMMA PositionInstructionRefines ==
    ASSUME TypeOK, TypeOK', LedgerInv, InForceInv', NEW p \in Position, PositionInstruction(p)
    PROVE  [Ledger!Next]_Ledger!ledger
<1>0. /\ pool'.tick_current_index = pool.tick_current_index
      /\ positions \in [Position -> PositionType]
  BY PositionInstructionTypes DEF KeepsPrice, TypeOK
<1>1. ASSUME NEW lower, NEW upper, OpenPosition(p, lower, upper) PROVE Ledger!SetRange
  <2>1. /\ positions[p].liquidity = 0 /\ positions'[p].liquidity = 0
        /\ \A q \in Position \ {p} : positions'[q] = positions[q]
        /\ UNCHANGED pool
    BY <1>0, <1>1 DEF OpenPosition, LedgerInv, IsOrdered, ClosedPosition
  <2> QED BY <2>1, LedgerSetsRange
<1>2. ASSUME ClosePosition(p) PROVE Ledger!SetRange
  <2>1. /\ positions[p].liquidity = 0 /\ positions'[p].liquidity = 0
        /\ \A q \in Position \ {p} : positions'[q] = positions[q]
        /\ UNCHANGED pool
    BY <1>0, <1>2 DEF ClosePosition, IsPositionEmpty, ClosedPosition
  <2> QED BY <2>1, LedgerSetsRange
<1>3. ASSUME NEW amount \in LiquidityAmounts, IncreaseLiquidity(p, amount) PROVE Ledger!Modify
  <2>1. /\ amount \in Int
        /\ CanModifyLiquidity(p, amount) /\ SyncModifyLiquidity(p, amount)
    BY <1>3, WidthsAreNumbers DEF IncreaseLiquidity
  <2> QED BY <2>1, LedgerModifies
<1>4. ASSUME NEW amount \in LiquidityAmounts, DecreaseLiquidity(p, amount) PROVE Ledger!Modify
  <2> DEFINE delta == -amount
  <2>1. delta \in Int
    BY <1>4, WidthsAreNumbers DEF DecreaseLiquidity
  <2>2. CanModifyLiquidity(p, delta) /\ SyncModifyLiquidity(p, delta)
    BY <1>4 DEF DecreaseLiquidity
  <2> HIDE DEF delta
  <2> QED BY <2>1, <2>2, LedgerModifies
<1>5. ASSUME UpdateFeesAndRewards(p) PROVE UNCHANGED Ledger!ledger
  <2>1. CanModifyLiquidity(p, 0) /\ positions' = [positions EXCEPT ![p] = UpdatedPosition(p, 0)]
    BY <1>5 DEF UpdateFeesAndRewards
  <2>2. positions[p].liquidity + 0 = positions[p].liquidity
    BY <1>0, WidthsAreNumbers DEF PositionType
  <2>3. /\ UpdatedPosition(p, 0).liquidity = positions[p].liquidity
        /\ UpdatedPosition(p, 0).tick_lower_index = positions[p].tick_lower_index
        /\ UpdatedPosition(p, 0).tick_upper_index = positions[p].tick_upper_index
    BY <2>1, <2>2, UpdatedPositionPlace, 0 \in Int
  <2>4. pool'.liquidity = pool.liquidity
    BY <1>5 DEF UpdateFeesAndRewards, TypeOK, PoolType
  <2> QED BY <1>0, <2>1, <2>3, <2>4, LedgerStutters
<1>6. ASSUME CollectFees(p) PROVE UNCHANGED Ledger!ledger
  <2>1. positions' = [positions EXCEPT ![p] = [@ EXCEPT !.fee_owed = [k \in Token |-> 0]]]
    BY <1>0, <1>6 DEF CollectFees
  <2> QED BY <1>0, <1>6, <2>1, LedgerStutters DEF CollectFees, PositionType
<1>7. ASSUME NEW r \in Reward, CollectReward(p, r) PROVE UNCHANGED Ledger!ledger
  <2>1. PICK amount : positions' = [positions EXCEPT ![p] =
                 [positions[p] EXCEPT !.reward_owed[r] = positions[p].reward_owed[r] - amount]]
    BY <1>0, <1>7 DEF CollectReward
  <2> QED BY <1>0, <1>7, <2>1, LedgerStutters DEF CollectReward, PositionType
<1> QED BY <1>1, <1>2, <1>3, <1>4, <1>5, <1>6, <1>7 DEF PositionInstruction, Ledger!Next

\* Every step of the pool is one of the ledger, or none.
LEMMA NextRefines ==
    IInv /\ IInv' /\ LedgerInv /\ InForceInv' /\ [Next]_vars => [Ledger!Next]_Ledger!ledger
<1> SUFFICES ASSUME IInv, IInv', LedgerInv, InForceInv', [Next]_vars
             PROVE  [Ledger!Next]_Ledger!ledger
  OBVIOUS
<1>0. TypeOK /\ TypeOK'
  BY DEF IInv
<1>1. ASSUME NEW p \in Position, PositionInstruction(p) PROVE [Ledger!Next]_Ledger!ledger
  BY <1>0, <1>1, PositionInstructionRefines
<1>2. ASSUME RewardInstruction \/ PoolInstruction \/ AdvanceTime
      PROVE  UNCHANGED Ledger!ledger
  <2>1. pool \in PoolType /\ pool'.tick_current_index = pool.tick_current_index
    BY <1>0, <1>2, RewardInstructionTypes, PoolInstructionTypes, AdvanceTimeTypes
       DEF KeepsPrice, TypeOK
  <2>2. UNCHANGED positions /\ pool'.liquidity = pool.liquidity
    <3>1. CASE RewardInstruction
      BY <2>1, <3>1
         DEF RewardInstruction, InitializeReward, FundReward, SetRewardEmissions, PoolType
    <3>2. CASE PoolInstruction
      BY <2>1, <3>2
         DEF PoolInstruction, InitializeTickArray, CollectProtocolFees, SetFeeRate,
             SetProtocolFeeRate, PoolType
    <3>3. CASE AdvanceTime
      BY <3>3 DEF AdvanceTime
    <3> QED BY <1>2, <3>1, <3>2, <3>3
  <2> QED BY <2>1, <2>2, LedgerStutters
<1>3. ASSUME SwapCommit PROVE Ledger!Trade
  <2>1. UNCHANGED positions
    BY <1>3 DEF SwapCommit
  <2> QED BY <1>0, <2>1, LedgerTrades
<1>4. ASSUME (\E a \in SwapArgs : SwapBegin(a)) \/ SwapStep \/ SwapRevert \/ UNCHANGED vars
      PROVE  UNCHANGED Ledger!ledger
  <2>1. UNCHANGED <<pool, positions>>
    BY <1>4 DEF SwapBegin, SwapStep, SwapRevert, vars
  <2> QED BY <2>1, LedgerStutters
<1> QED BY <1>1, <1>2, <1>3, <1>4 DEF Next, Swapping, Ledger!Next

(***************************************************************************)
(* A pool is a LiquidityLedger: ticks, nets and the loop of a swap         *)
(* together only implement that the liquidity in force is, after every     *)
(* transaction, that of the positions whose range holds the tick.          *)
(***************************************************************************)
THEOREM PoolImplementsLedger == Spec /\ []NetsNegatable => ImplementsLedger
<1>1. Init => Ledger!Init
  <2> SUFFICES ASSUME Init PROVE Ledger!Init
    OBVIOUS
  <2>1. /\ pool.liquidity = 0
        /\ \A p \in Position : positions[p] = ClosedPosition
    BY DEF Init, InitialPool
  <2>2. pool.tick_current_index \in CurrentTick
    BY InitInv DEF IInv, TypeOK, PoolType
  <2> QED BY <2>1, <2>2 DEF Ledger!Init, ClosedPosition
<1> QED BY <1>1, InitInv, NextInv, InitLedger, NextLedger, NextArraysLoaded, NextInForce,
           NextRefines, PTL DEF Spec, ImplementsLedger, Ledger!Spec
=============================================================================
