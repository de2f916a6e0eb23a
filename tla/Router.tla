------------------------------- MODULE Router -------------------------------
(***************************************************************************)
(* The SDK's router: the paths of one and two pools between two tokens,    *)
(* the quotes of parts of a trade on them, the combinations of quotes that *)
(* make up the whole trade, best first, and the transaction of a route.    *)
(*                                                                         *)
(* A market maps the address of a pool to its two mints, a and b, and its  *)
(* state.  Mints are numbers, in the order of their addresses.             *)
(***************************************************************************)
EXTENDS Integers, SequencesExt

CONSTANTS
    Native,                 \* The mint of wrapped SOL.
    Swapped(_, _, _, _)     \* (state, aToB, isInput, amount) -> what the quote of a swap
                            \* says, and the program does on the same state: whether it
                            \* succeeds (ok), what goes in and out, and the state after it.

MintsOf(market) == UNION {{market[pool].a, market[pool].b} : pool \in DOMAIN market}

----------------------------------------------------------------------------
(* utils/graphs/adjacency-list-pool-graph.ts.  A graph is built from a list  *)
(* of pools, in which a pool may be given more than once.                    *)

buildPoolGraph(market, pools) ==
    [mint \in MintsOf(market) |->
        LET ofMint == SelectSeq(pools, LAMBDA pool : mint \in {market[pool].a, market[pool].b})
            other(pool) == IF mint = market[pool].a THEN market[pool].b ELSE market[pool].a
            insert(edges, pool) ==
                IF \E n \in DOMAIN edges : edges[n].address = pool THEN edges
                ELSE Append(edges, [address |-> pool, otherToken |-> other(pool)])
        IN  FoldLeft(insert, <<>>, ofMint)]

\* Walks of one and of two pools, from the lesser mint to the greater; through: the tokens
\* that may be in between.
findWalks(graph, from, to, through) ==
    LET toEnds == {graph[to][n].address : n \in DOMAIN graph[to]}
        direct == SelectSeq(graph[from], LAMBDA edge : edge.address \in toEnds)
        firstHop == SelectSeq(graph[from],
                        LAMBDA edge : edge.address \notin toEnds /\ edge.otherToken \in through)
        secondHops(first) ==
            SelectSeq(graph[to], LAMBDA edge : edge.otherToken = first.otherToken)
    IN  [n \in DOMAIN direct |-> <<direct[n].address>>]
          \o FlattenSeq([n \in DOMAIN firstHop |->
                 LET second == secondHops(firstHop[n])
                 IN  [k \in DOMAIN second |-> <<firstHop[n].address, second[k].address>>]])

getPath(market, pools, startMint, endMint, through) ==
    LET graph == buildPoolGraph(market, pools)
        walks == findWalks(graph, Min({startMint, endMint}), Max({startMint, endMint}), through)
    IN  IF startMint = endMint THEN <<>>
        ELSE [n \in DOMAIN walks |-> IF startMint < endMint THEN walks[n] ELSE Reverse(walks[n])]

----------------------------------------------------------------------------
(* router/quote-map.ts and router/batch-swap-quote.ts.                       *)

Percents(percentIncrement) == {i * percentIncrement : i \in 1 .. 100 \div percentIncrement}
AmountOf(percent, amount) == (amount * percent) \div 100

\* One hop; token: what is put in, for an exact input, or taken out.
HopQuote(market, pool, token, isInput, amount) ==
    LET aToB == (token = market[pool].a) = isInput
        swapped == Swapped(market[pool].state, aToB, isInput, amount)
    IN  [ok |-> swapped.ok, pool |-> pool, aToB |-> aToB, isInput |-> isInput,
         inputMint |-> IF aToB THEN market[pool].a ELSE market[pool].b,
         outputMint |-> IF aToB THEN market[pool].b ELSE market[pool].a,
         amountIn |-> IF isInput THEN amount ELSE swapped.in,
         amountOut |-> IF isInput THEN swapped.out ELSE amount]

\* The hops of a path, each with what the one before it gives, or for an exact output the
\* one after it takes; no hop is quoted after one that failed.
PathQuote(market, trade, path, percent) ==
    LET quoteHop(done, pool) ==
            LET hop == HopQuote(market, pool, done.token, trade.isInput, done.amount)
            IN  IF ~done.ok THEN done
                ELSE IF trade.isInput
                THEN [ok |-> hop.ok, token |-> hop.outputMint, amount |-> hop.amountOut,
                      hops |-> Append(done.hops, hop)]
                ELSE [ok |-> hop.ok, token |-> hop.inputMint, amount |-> hop.amountIn,
                      hops |-> <<hop>> \o done.hops]
        quoted == FoldLeft(quoteHop,
                      [ok |-> TRUE, token |-> IF trade.isInput THEN trade.tokenIn ELSE trade.tokenOut,
                       amount |-> AmountOf(percent, trade.amount), hops |-> <<>>],
                      IF trade.isInput THEN path ELSE Reverse(path))
    IN  [ok |-> quoted.ok, splitPercent |-> percent, pools |-> ToSet(path), hops |-> quoted.hops,
         amountIn |-> Head(quoted.hops).amountIn, amountOut |-> Last(quoted.hops).amountOut]

getQuoteMap(market, trade, paths, opts) ==
    LET better(q, r) == IF trade.isInput THEN q.amountOut > r.amountOut ELSE q.amountIn < r.amountIn
        sorted(percent) ==
            SortSeq(SelectSeq([n \in DOMAIN paths |-> PathQuote(market, trade, paths[n], percent)],
                              LAMBDA q : q.ok), better)
    IN  [percent \in Percents(opts.percentIncrement) |->
            SubSeq(sorted(percent), 1, Min({opts.numTopPartialQuotes, Len(sorted(percent))}))]

----------------------------------------------------------------------------
(* router/convert-quote-map.ts                                               *)

EmptyRoute == [quotes |-> <<>>, splitPercent |-> 0, totalIn |-> 0, totalOut |-> 0]

Extended(route, quote) ==
    [quotes |-> Append(route.quotes, quote), splitPercent |-> route.splitPercent + quote.splitPercent,
     totalIn |-> route.totalIn + quote.amountIn, totalOut |-> route.totalOut + quote.amountOut]

\* (The first form of each, for a mutant.)
hasReusedLastPools(quote, quotes) == quotes # <<>> /\ quote.pools = Last(quotes).pools
hasReusedPools(quote, quotes) == \E n \in DOMAIN quotes : quote.pools \cap quotes[n].pools # {}

MayFollowStrictly(percent, quotes) == quotes # <<>> => percent < Last(quotes).splitPercent
MayFollow(percent, quotes) == quotes # <<>> => percent <= Last(quotes).splitPercent

\* Every way to make up 100 percent, its parts in decreasing order and of equal parts in the
\* order of their quotes.
RECURSIVE buildRoutes(_, _, _)
buildRoutes(quoteMap, maxSplits, route) ==
    LET percents == Reverse(SetToSortSeq(DOMAIN quoteMap, <))
        from(percent, j) ==
            LET next == Extended(route, quoteMap[percent][j])
                rest == [quoteMap EXCEPT ![percent] = SubSeq(@, j + 1, Len(@))]
            IN  IF hasReusedPools(quoteMap[percent][j], route.quotes) THEN <<>>
                ELSE IF next.splitPercent = 100 THEN <<next>>
                ELSE IF Len(next.quotes) # maxSplits THEN buildRoutes(rest, maxSplits, next)
                ELSE <<>>
        with(percent) ==
            IF route.splitPercent + percent > 100 \/ ~MayFollow(percent, route.quotes) THEN <<>>
            ELSE FlattenSeq([j \in DOMAIN quoteMap[percent] |-> from(percent, j)])
    IN  FlattenSeq([i \in DOMAIN percents |-> with(percents[i])])

\* The other amount of a trade, the less the better.
Cost(route, isInput) == IF isInput THEN -route.totalOut ELSE route.totalIn
SortedRoutes(routes, isInput) == SortSeq(routes, LAMBDA r, s : Cost(r, isInput) < Cost(s, isInput))

----------------------------------------------------------------------------
(* utils/math/k-smallest-partition.ts, with positions from 0; the sampling   *)
(* of more than 600 routes, which changes no result, is left out.            *)

Swap(array, i, j) == [array EXCEPT ![i + 1] = array[j + 1], ![j + 1] = array[i + 1]]

RECURSIVE Scan(_, _, _, _, _)
Scan(array, i, j, pivot, isInput) ==
    LET swapped == Swap(array, i, j)
        nextI == Min({n \in i + 1 .. Len(array) - 1 : Cost(swapped[n + 1], isInput) >= pivot})
        nextJ == Max({n \in 0 .. j - 1 : Cost(swapped[n + 1], isInput) <= pivot})
    IN  IF i >= j THEN [array |-> array, j |-> j]
        ELSE Scan(swapped, nextI, nextJ, pivot, isInput)

RECURSIVE kSmallestPartition(_, _, _, _, _)
kSmallestPartition(array, k, left, right, isInput) ==
    LET pivot == Cost(array[k + 1], isInput)
        moved == Swap(array, left, k)
        ready == IF Cost(moved[right + 1], isInput) > pivot THEN Swap(moved, left, right) ELSE moved
        scanned == Scan(ready, left, right, pivot, isInput)
        atLeft == Cost(scanned.array[left + 1], isInput) = pivot
        j == IF atLeft THEN scanned.j ELSE scanned.j + 1
        placed == Swap(scanned.array, IF atLeft THEN left ELSE right, j)
    IN  IF right <= left THEN array
        ELSE kSmallestPartition(placed, k, IF j <= k THEN j + 1 ELSE left,
                                IF k <= j THEN j - 1 ELSE right, isInput)

getRankedRoutes(quoteMap, isInput, topN, maxSplits) ==
    LET routes == buildRoutes(quoteMap, maxSplits, EmptyRoute)
        smallest == kSmallestPartition(routes, topN, 0, Len(routes) - 1, isInput)
    IN  IF Len(routes) <= topN THEN SortedRoutes(routes, isInput)
        ELSE SortedRoutes(SubSeq(smallest, 1, topN), isInput)

\* The whole trade in one pool, once more.
getSingleHopSplit(quoteMap) ==
    LET whole == IF 100 \in DOMAIN quoteMap
                 THEN SelectSeq(quoteMap[100], LAMBDA q : Len(q.hops) = 1) ELSE <<>>
    IN  [n \in DOMAIN whole |-> Extended(EmptyRoute, whole[n])]

getBestRoutesFromQuoteMap(quoteMap, isInput, opts) ==
    SortedRoutes(getRankedRoutes(quoteMap, isInput, opts.numTopRoutes, opts.maxSplits)
                   \o getSingleHopSplit(quoteMap), isInput)

\* router/router-impl.ts.  No routes stands for a rejection too.
findAllRoutes(market, pools, trade, opts) ==
    LET paths == getPath(market, pools, trade.tokenIn, trade.tokenOut, MintsOf(market))
    IN  IF paths = <<>> \/ trade.amount = 0 THEN <<>>
        ELSE getBestRoutesFromQuoteMap(getQuoteMap(market, trade, paths, opts), trade.isInput, opts)

----------------------------------------------------------------------------
(* instructions/composites/swap-with-route.ts.  The transaction of a route:  *)
(* the wrapped SOL it brings (none: -1), the token accounts it makes and     *)
(* those of them it closes at its end, and its swaps of one or two hops.     *)

\* utils/position-util.ts
adjustForSlippage(n, slippage, adjustUp) ==
    IF adjustUp THEN (n * (slippage.denominator + slippage.numerator)) \div slippage.denominator
    ELSE (n * slippage.denominator) \div (slippage.denominator + slippage.numerator)

\* The amount asked for and the threshold, of one hop or of two.
SwapOf(quote, slippage) ==
    LET first == Head(quote.hops)
        last == Last(quote.hops)
    IN  [hops |-> quote.hops, isInput |-> first.isInput,
         amount |-> IF first.isInput THEN first.amountIn ELSE last.amountOut,
         threshold |-> IF first.isInput THEN adjustForSlippage(last.amountOut, slippage, FALSE)
                       ELSE adjustForSlippage(first.amountIn, slippage, TRUE)]

MintsTraded(swaps) ==
    UNION {UNION {{swaps[n].hops[h].inputMint, swaps[n].hops[h].outputMint}
                     : h \in DOMAIN swaps[n].hops} : n \in DOMAIN swaps}
Intermediates(swaps) ==
    {swaps[n].hops[1].outputMint : n \in {m \in DOMAIN swaps : Len(swaps[m].hops) = 2}}

\* What the swaps take of SOL at most.
nativeMintAmount(swaps) ==
    FoldLeft(LAMBDA sum, swap :
                 IF Head(swap.hops).inputMint # Native THEN sum
                 ELSE sum + (IF swap.isInput THEN swap.amount ELSE swap.threshold), 0, swaps)

\* atas: the mints that the wallet has token accounts of, as far as is known.
cachedResolveOrCreateNonNativeATAs(mints, intermediates, atas) ==
    [create |-> mints \ atas, close |-> (mints \ atas) \cap intermediates]

getSwapFromRoute(route, slippage, atas) ==
    LET swaps == [n \in DOMAIN route.quotes |-> SwapOf(route.quotes[n], slippage)]
        wraps == Native \in MintsTraded(swaps)
    IN  [wrapped |-> IF wraps THEN nativeMintAmount(swaps) ELSE -1, swaps |-> swaps]
           @@ cachedResolveOrCreateNonNativeATAs(MintsTraded(swaps) \ {Native},
                                                 Intermediates(swaps), atas)

MEASURE_ROUTE_MAX == 100

\* router/public/router-utils.ts: the first route whose transaction is small enough, its size
\* being the number of its instructions; without lookup tables, and none is 0.
TxSize(tx) ==
    Cardinality(tx.create) + Cardinality(tx.close) + Len(tx.swaps) + (IF tx.wrapped = -1 THEN 0 ELSE 2)
selectFirstExecutableRoute(routes, atas, maxTransactionSize) ==
    LET fits(n) == TxSize(getSwapFromRoute(routes[n], [numerator |-> 0, denominator |-> 100], atas))
                       <= maxTransactionSize
        executable == {n \in DOMAIN routes : n <= MEASURE_ROUTE_MAX /\ fits(n)}
    IN  IF executable = {} THEN 0 ELSE Min(executable)

----------------------------------------------------------------------------
(* What the program does with it: one swap after the other, each on the      *)
(* pools as the ones before it left them.                                    *)

\* The hops in the order they are computed: the last one first for an exact output.
RunHops(pools, swap) ==
    LET runHop(done, hop) ==
            LET swapped == Swapped(done.pools[hop.pool].state, hop.aToB, swap.isInput, done.amount)
            IN  IF ~done.ok THEN done
                ELSE [ok |-> swapped.ok,
                      amount |-> IF swap.isInput THEN swapped.out ELSE swapped.in,
                      pools |-> [done.pools EXCEPT ![hop.pool].state = swapped.after]]
    IN  FoldLeft(runHop, [ok |-> TRUE, amount |-> swap.amount, pools |-> pools],
                 IF swap.isInput THEN swap.hops ELSE Reverse(swap.hops))

\* accounts: mint -> what the wallet's account holds, for the accounts there are.
RunSwap(done, swap) ==
    LET ran == RunHops(done.pools, swap)
        input == Head(swap.hops).inputMint
        output == Last(swap.hops).outputMint
        paid == IF swap.isInput THEN swap.amount ELSE ran.amount
        got == IF swap.isInput THEN ran.amount ELSE swap.amount
    IN  IF /\ done.ok /\ ran.ok
           /\ MintsTraded(<<swap>>) \subseteq DOMAIN done.accounts
           /\ paid <= done.accounts[input]
           /\ IF swap.isInput THEN got >= swap.threshold ELSE paid <= swap.threshold
        THEN [ok |-> TRUE, pools |-> ran.pools,
              accounts |-> [done.accounts EXCEPT ![input] = @ - paid, ![output] = @ + got]]
        ELSE [done EXCEPT !.ok = FALSE]

RunTransaction(market, accounts, tx) ==
    LET made == [mint \in tx.create \cup (IF tx.wrapped = -1 THEN {} ELSE {Native}) |->
                    IF mint = Native THEN tx.wrapped ELSE 0]
        ran == FoldLeft(RunSwap, [ok |-> tx.create \cap DOMAIN accounts = {}, pools |-> market,
                                  accounts |-> made @@ accounts], tx.swaps)
    IN  [ran EXCEPT !.ok = @ /\ \A mint \in tx.close : ran.accounts[mint] = 0]

----------------------------------------------------------------------------
(* What a search and a transaction must do                                   *)

\* The walks from one token to another, read off the pools alone.
Joins(market, pool, from, to) == from # to /\ {market[pool].a, market[pool].b} = {from, to}
Walks(market, from, to) ==
    {<<p>> : p \in {p \in DOMAIN market : Joins(market, p, from, to)}}
      \cup {pq \in (DOMAIN market) \X (DOMAIN market) :
               from # to /\ \E mint \in MintsOf(market) \ {from, to} :
                   Joins(market, pq[1], from, mint) /\ Joins(market, pq[2], mint, to)}

\* Every way to make up the trade of quotes that succeed and share no pool.
Combinations(market, trade, opts) ==
    LET quotes == {q \in {PathQuote(market, trade, path, percent) :
                             path \in Walks(market, trade.tokenIn, trade.tokenOut),
                             percent \in Percents(opts.percentIncrement)} : q.ok}
    IN  {chosen \in UNION {kSubset(k, quotes) : k \in 1 .. opts.maxSplits} :
            /\ MapThenSumSet(LAMBDA q : q.splitPercent, chosen) = 100
            /\ \A q, r \in chosen : q # r => q.pools \cap r.pools = {}}

\* The routes found are combinations, best first, and one that is left out is no better
\* than as many of them as were to be found.
AreBest(routes, market, trade, opts) ==
    LET combinations == Combinations(market, trade, opts)
        cost(chosen) == IF trade.isInput THEN -MapThenSumSet(LAMBDA q : q.amountOut, chosen)
                        ELSE MapThenSumSet(LAMBDA q : q.amountIn, chosen)
        found == {ToSet(routes[n].quotes) : n \in DOMAIN routes}
    IN  /\ found \subseteq combinations
        /\ \A n \in DOMAIN routes : Cost(routes[n], trade.isInput) = cost(ToSet(routes[n].quotes))
        /\ \A m, n \in DOMAIN routes :
               m < n => Cost(routes[m], trade.isInput) <= Cost(routes[n], trade.isInput)
        /\ \A left \in combinations \ found :
               opts.numTopRoutes <= Cardinality({chosen \in found : cost(chosen) <= cost(left)})

\* The transaction of a route, on pools as they are later (the quoted ones, or others),
\* changes the wallet's accounts as the route says within its slippage, and no others.
Delivers(route, market, later, trade, slippage, accounts) ==
    LET tx == getSwapFromRoute(route, slippage, DOMAIN accounts)
        ran == RunTransaction(later, accounts, tx)
        before == [mint \in DOMAIN ran.accounts |->
                      IF mint \in DOMAIN accounts THEN accounts[mint]
                      ELSE IF mint = Native THEN tx.wrapped ELSE 0]
        paid == before[trade.tokenIn] - ran.accounts[trade.tokenIn]
        got == ran.accounts[trade.tokenOut] - before[trade.tokenOut]
        thresholds == FoldLeft(LAMBDA sum, one : sum + one.threshold, 0, tx.swaps)
    IN  /\ later = market => ran.ok /\ paid = route.totalIn /\ got = route.totalOut
        /\ ran.ok =>
               /\ IF trade.isInput THEN paid = route.totalIn /\ got >= thresholds
                  ELSE got = route.totalOut /\ paid <= thresholds
               /\ \A mint \in DOMAIN before \ {trade.tokenIn, trade.tokenOut} :
                      ran.accounts[mint] = before[mint]
=============================================================================
