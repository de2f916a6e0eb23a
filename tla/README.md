# Verification of the Solana_Dex_V3 program and its SDK

This directory holds TLA+ models of the dex program in `programs/dex` (a
concentrated-liquidity market maker on Solana) and of the TypeScript SDK in `sdk/src`
that quotes, routes and builds its transactions, the TLC configurations that check
them on small instances, and theorems about them checked by the TLAPS proof system.
The models are read from the code; where a comment or a test says otherwise, the
difference is a finding.

- [The system](#the-system)
- [Modules](#modules)
- [How the models correspond to the code](#how-the-models-correspond-to-the-code)
- [Runs](#runs)
- [What disagrees](#what-disagrees)
- [Proofs](#proofs)
- [Only model-checked](#only-model-checked)
- [Not modelled](#not-modelled)

## The system

The program is a set of instructions on accounts. A Solana transaction locks the
accounts it writes and takes effect whole or not at all, so instructions on one pool
interleave but never overlap. What makes the program hard is not concurrency in the
small: it is that liquidity, fees and rewards are never added up anywhere. They are
followed by differences (the net of a tick, the growth outside of a tick, the
checkpoint of a position), and any sequence of instructions by any callers must keep
the differences consistent. Inside one instruction, `swap` runs a loop whose steps
depend on one another through rounded integer arithmetic.

| Component | State | Operations | Correct when |
|---|---|---|---|
| Pool (`state/pool.rs`, its instructions) | liquidity in force, price, current tick, fee rates, growth of fees and rewards, protocol fees owed, the reward clock | `initialize_pool`, `swap`, `set_fee_rate`, `set_protocol_fee_rate`, `collect_protocol_fees` | the liquidity in force is that of the positions around the price; the current tick is the price's; the vaults can pay everybody |
| Tick arrays (`state/tick.rs`) | per tick: initialized, gross and net liquidity, growth outside | `initialize_tick_array`; written by liquidity changes and swaps | gross and net are those of the positions that end there; a tick out of use has nothing left over |
| Tick sequence (`util/swap_tick_sequence.rs`) | the up to three arrays a swap was given | next initialized tick | it returns the nearest initialized tick ahead, or a place to stop, never a tick behind |
| Swap loop (`manager/swap_manager.rs`, `math/swap_math.rs`) | amounts left and computed, price, tick, liquidity, fee growth of the swap | one iteration per tick or until the amount is used up | the price only moves towards the limit; a step that stops early was the last; it ends |
| Positions (`state/position.rs`, the managers) | range, liquidity, checkpoints, what is owed | open, close, increase, decrease, update, collect fees, collect reward | a position earns fees only when the price was in its range; it is closed only when empty |
| Rewards (up to three per pool) | emissions per second, growth, vault | initialize, fund, set emissions, collect | nobody is paid twice for the same second; no more is earned than was emitted |
| Position bundles (`state/position_bundle.rs`) | a bitmap of open positions, one token | initialize, delete, open, close; transfers and approvals of the token | the bitmap and the accounts agree; no position is stranded |
| Two-hop swap | none of its own | two swaps in one transaction, in two versions | the second pool takes in exactly what arrives of what the first gives out (v2); the trader's accounts change as asked |
| Administration (configs, fee tiers, authorities) | three authorities and a default rate per config, a default rate per tier, an authority per reward slot | initialize and set; create pools and vaults | only the authority of the very config changes anything; the caps hold for every pool; slots are taken in order; one pool per pair |
| Config extensions and badges (v2) | two more authorities per config, a badge per config and mint | initialize, set, issue, delete | a pool never touches a mint its config did not vet |
| Token-2022 transfers (v2) | none of their own | the pool's instructions over Token-2022 mints | transfer fees are accounted for on both sides |
| SDK quotes (`sdk/src/quotes`, `utils/math`) | none: pure functions of fetched accounts | quotes of swaps, deposits, withdrawals, fees, rewards | a fresh quote is what the program does, and one with slippage holds as long as the price is within it |
| SDK instruction builders (`ix.ts`, `instructions`) | none | one per instruction of the program | whatever is asked for with the right accounts, the program accepts |
| SDK transaction builders (`impl`, `instructions/composites`) | a cache of accounts | open, increase, decrease, collect, collect everything, close, swap | what it builds succeeds, in whatever order the transactions arrive, although the chain moves on |
| SDK router (`router`, `utils/graphs`) | none | search for routes, selection, the transaction of a route | the best routes are found, and a route's transaction does what it says |
| SDK fetcher (`network`) | the cache | fetch and refresh | (external) |

How they interact: an instruction of the pool calls the managers, which are pure
functions from accounts to updates; the handler then writes the updates and transfers
tokens through the SPL token program. A swap reads the pool and up to three tick
arrays, runs the loop on copies (the ticks are updated in place, but a failing
transaction undoes that), and writes everything at the end. A bundle signs for its
positions with its own token, so a bundled position is used by the same liquidity
instructions as any other. A pool copies its rates and its first reward authorities
from its tier and its config when it is created, and each of them then lives its own
life; badges are looked at when a pool or a reward is created and never again. The SDK reads the accounts, repeats the program's
computation with arithmetic of its own, and sends a transaction that carries the result
as limits; between the reading and the execution anybody may change the accounts. Large
requests (collecting everything, closing a position) take several transactions, each
of which must make the token accounts it uses and settle the positions it collects from.

The behaviours that are hard to test, with the line where each bites and the
properties that cover it, are the `hazards` of `PROJECT.json`.

## Modules

| Module | What it models |
|---|---|
| `ClmmMath` | pure: amounts between prices, the price after an amount, `compute_swap`, fee split, with widths and rounding |
| `ClmmManagers` | pure: the updates of rewards, pool liquidity, ticks and positions |
| `SwapTickSequence` | pure: tick arrays, their bounds, and the search for the next tick |
| `ClmmSwap` | pure: one iteration of the swap loop, its errors, and the update after it |
| `ClmmPool` | the state machine: a pool with its positions, ticks, vaults, rewards and clock, one action per instruction and one per iteration of a swap |
| `LiquidityLedger` | the abstract specification of the pool's liquidity: the liquidity in force is the sum over the positions around the tick, always |
| `MCClmmPool` | the instances of the pool that are model-checked |
| `PositionBundle` | the state machine of bundles, their tokens and bundled positions |
| `MCPositionBundle` | its instance |
| `Administration` | the state machine of configs, fee tiers, extensions, badges, and of what they govern in pools: rates, reward slots, vaults, protocol fees |
| `Delegation` | the abstract specification of how authority is handed on |
| `MCAdministration` | the instances of the administration |
| `TransferFees` | pure: what arrives of a transfer, what must be sent, as the program and as the SDK compute it |
| `MCTransferFees` | all amounts of a small `u64`, one after the other |
| `TwoHopSwap` | the state machine of several pools over mints with transfer fees: the second version of the swap, liquidity and collection instructions, and both versions of the two-hop swap |
| `MCTwoHopSwap` | two pools that share a mint, and the trades |
| `SdkMath`, `SdkTicks` | pure: the SDK's own arithmetic, transfer fees, tick arrays and tick search |
| `SwapQuotes`, `PositionQuotes` | pure: the SDK's swap loop and its quotes, next to the program's |
| `PoolQuotes` | what a quote of fees and of rewards must be, for the pool's runs |
| `QuotedPool`, `MCQuotedPool` | the state machine of a client that quotes, waits and sends, composed with `ClmmPool` |
| `SupportedTokens` | pure: which mints the SDK says are supported |
| `Interface` | the interface description: accounts, signers and arguments of every instruction |
| `SdkInstructions` | pure: the builder of every instruction, and the derived addresses |
| `ProgramAccounts` | pure: what the program demands of the accounts of every instruction |
| `ClientTransactions` | pure: the transactions of every request, their packing and their token accounts |
| `ClientSession`, `MCClient` | the state machine of a session: reading, requesting, sending, and everybody else |
| `Router` | pure: paths, partial quotes, the search for the best routes, and the transaction of a route |
| `MCAlgorithms` | the inputs of the pure functions: transfer fees, instructions and routes |
| `TransferFeesProofs`, `AdministrationProofs`, `PositionBundleProofs` | the theorems about the module of that name |
| `TwoHopProofs` | the theorems about trades, of `TwoHopSwap`, and that its pools can pay, by an instance of `EarningsProofs` for one of them |
| `ClmmMathProofs`, `ClmmPoolProofs`, `EarningsProofs`, `QuoteProofs` | the theorems about the pool, each module on top of the one before: the arithmetic of a step; the search, the types, the price, and whose the liquidity is; who earns fees and rewards, and that the vaults can pay; what the SDK's quotes of fees, rewards, deposits and withdrawals are worth, and the client that sends them |

`ClmmMath`, `ClmmManagers`, `SwapTickSequence`, `ClmmSwap` and `ClmmPool` extend one
another in this order. `TwoHopSwap` extends `ClmmSwap` and `TransferFees`, and takes what
an instruction does to one pool from `ClmmPool`, by an instance with the pool as its
parameter. `Administration` stands beside `ClmmPool`: the two meet in the
pool's rates, reward slots and protocol fees, which `ClmmPool` takes as given by some
caller and `Administration` asks who that caller is. `QuotedPool` adds a client to
`ClmmPool`'s variables and actions; `ClientSession` has a world of its own, in which
positions have liquidity or not and things are due or not, because what can go wrong in
a session is the order of instructions and not the amounts. The modules with theorems
declare no RECURSIVE operator: the loops over arrays
and over the ticks of an array are in closed form (the first array that stops the
search, the nearest initialized tick), and sums over positions are a recursive
function, as is the SDK's swap loop (`SwapLoop`, over the states of its variables). Only
`Router` has recursive operators.

## How the models correspond to the code

**Numbers.** `Q64` is 2^64 in the code and 256 in the runs. A `u64` is below `Q64` and a
`u128` below its square, so every check, wrap and rounding of the code is in the same
place in the model; a Q64.64 number of the model has eight fractional bits.
`checked_*`, `try_into` and explicit bounds become `Err`; `wrapping_*` and the plain
`+=` on `protocol_fee_owed` (release builds do not check overflow) become a remainder.
The 256-bit intermediate products cannot overflow where they are used and are plain
integers. The table of tick prices is a constant, `SqrtPrice`, assumed increasing.

**State.** `pool`, `ticks` and `positions` are records with the source's fields; the
pairs of fields for tokens a and b, and the arrays for rewards, are functions from a
token or a reward. `arrays` holds the start ticks of the tick arrays that exist;
`vault` the balances of the two token vaults and the reward vaults; `now` the clock.
`swap` is the swap in progress. `budget` bounds a run, and `emitted` and `paid` are
history for the rewards: no action reads them.

**Actions.** Each instruction is one action whose guards are the handler's errors,
account constraints included, except the swap:

- `SwapBegin` - the checks before the loop. A missing or repeated tick array is refused
  here, as loading the accounts refuses it.
- `SwapStep` - one iteration: search, target price, `compute_swap`, fees, the tick
  crossed if the step reached an initialized one, and where the search goes on.
- `SwapCommit` - the threshold, the two transfers and `update_after_swap`.
- `SwapRevert` - any error in the loop or after it; the ticks, which the loop changed,
  are left as they were.

Nothing else happens while `swap` is not `NoSwap`, because the transaction holds the
accounts. The search keeps the code's peculiarities: a search to the right starts one
spacing early, a search without a result stops at the last tick of the last array
(which need not be usable), and an array that is not next to the previous one is an
error.

**Abstractions.** Who signs is left out of the pool (it is `Administration`'s); the slippage limits
of the liquidity instructions only turn a success into a failure that leaves no trace.
Closing a position returns its record to `ClosedPosition`. Anyone may fund a reward
vault (an SPL transfer). `Supply` tokens exist of each kind, which bounds vaults as
SPL's own `u64` supply does.

**Bundles.** A byte of the bitmap is the set of its one bits, so the bit operations are
set operations. What a bundled position holds is abstracted to two facts: whether it
has liquidity and whether anything is owed. The SPL token program is an environment
that transfers the bundle's token and approves delegates, for amounts 0 and 1.

**Administration.** An instruction is one action; its guards are the account constraints
(`address`, `has_one`, `init`, seeds) and the handler's errors. `signer` is the
authority the last instruction asked for. Where the code has accounts that the caller
chooses independently (a config and a pool, a config and an extension), the action has
a parameter for each, and `HasOne` is the check that they belong together. Accounts at
derived addresses are named by their seeds: a pool by its config, its two mints and
its tick spacing. The v1 and v2 forms of an instruction are one action: v1 takes
mints of the Token program only, all of which v2 takes too. Of a mint the model keeps
what `is_supported_token_mint` reads. `InitializePoolTokens` asks nothing of the
config and the pool but their addresses, as in the code, so vaults may come before the
pool. Of amounts there is one fact per pool, whether protocol fees are owed, and one
per slot, whether it emits.

**Transfer fees.** A mint has a rate in basis points and a maximum, both of which change
with the epoch (`SetTransferFee`, the environment's); no extension is a rate of zero. The
fee the token program withholds and its inverse are external
(`spl_token_2022`'s `TransferFee`), modelled as the 0.9.0 of `Cargo.lock` computes them. `Received` is a transfer as the receiver sees it, without the fee; the
receiver's balance stays a `u64` or the transfer fails (`CanReceive`). Mints in
`token2022`, fixed at the start, are the ones that can have a fee; the first version's
two-hop swap refuses them. The vaults of their pools are taken to exist: at this commit no instruction creates
them (see the findings), but everything the second version does presumes them.

**Trades.** `trade` is a swap of the second version, or a two-hop swap of either, in
progress: its arguments, the swap of each hop and the amount each was asked for.
`TradeBegin` has the checks on pools and mints and everything before the first loop,
`SwapIteration` is an iteration of whichever loop is current, `NextHop` computes what the
second loop is asked for, `TradeCommit` has the checks after the loops, the updates of the
pools and all transfers, in their order, and `TradeRevert` is an error anywhere. The hop
computed first is the first one for an exact input and the last one for an exact output.
`HopIn` and `HopOut` are `amount_a` and `amount_b` of the adjusted `PostSwapUpdate`, by
direction. One wallet stands for the trader, the owner of the positions and the receiver
of protocol fees; who that is matters nowhere.

**Quotes.** `SdkMath` to `PositionQuotes` are the SDK's functions by their own names, over
a snapshot of the accounts: pool, ticks, arrays that exist, transfer fees. The SDK's BN
integers have no width, so only the limits it checks itself are there; an exception is
`Err` or a quote that is not `ok`. `Decimal` is modelled where its rounding reaches an
amount (`RoundedTimesRoot`). In `QuotedPool` a client takes one quote, at any moment
between transactions, and sends it at any later one; `fresh` is whether any account it
read has changed. The program's side is `ClmmPool`'s own actions, with the arguments and the limits
the SDK derives from the quote.

**Instructions.** An address is the tuple of its seeds, and a token account says what it
holds. A builder is an operator from parameters to the accounts by name, the arguments,
the signers and the slices of accounts for transfer hooks; `AccountsAccepted` is the
constraints of the `Accounts` struct of the same instruction and the checks on
authority and slices at the head of its handler.

**Sessions.** `chain` is what is on chain, `seen` what the client's cache holds, `batch` the
transactions it was given and has not sent. A request builds from `seen`, or from the
chain where the code asks for `IGNORE_CACHE`; the lookups of token accounts and tick
arrays go to the chain, as in the code. Transactions of one request may be sent in any
order where the SDK says nothing of order, one after another otherwise; each happens
whole or not at all. Trades, time, new reward slots and another session of the same
owner happen in between. `sound` says whether what the request relied on still holds; it is the
precondition of the properties and is lost only by somebody else's action.

**Routes.** A market is pools between mints; what a swap gives is a parameter
(`Swapped`), the same for the quote and for the program, since `quotes` compares those two.
The search is the code's, with its order of parts, its pruning and its partition of the
routes; the transaction runs its swaps one after the other on the pools the earlier ones
left.

## Runs

Every run is an instance of the module named. Most runs have `CHECK_DEADLOCK FALSE`, because
nobody is obliged to send another instruction and the budgets and the amounts end; those
of the administration and of the sessions check for deadlock.

| Run | Instance | Checks | Shows |
|---|---|---|---|
| `bundle` | `MCPositionBundle` | `BitmapMirrorsAccounts`, `NothingStranded` | the bitmap always agrees with the accounts, and no sequence of transfers, approvals and deletions strands a position |
| `liquidity` | `MCClmmPool` | `LiquidityMatchesPositions`, `TicksMatchPositions`, `UnusedTicksAreDefault`, `PriceMatchesTick`, `PriceMovesTowardsLimit`, `ImplementsLedger` | the liquidity followed tick by tick is the sum over the positions, through any order of opening, changing, closing and swapping, in every iteration; the pool implements the ledger |
| `earnings` | `MCClmmPool` | `Solvent`, `RewardsNotOverdistributed`, `FeeQuoteForetells`, `RewardQuoteForetells`, `EarnsOnlyWhereTraded`, `RewardsSettledBeforeChange` | the vaults can always pay all liquidity, all fees and the protocol at once, whatever was rounded; only the ranges a swap touched earn its fee; no more reward is earned than was emitted; time is accounted for once, at the emissions and over the liquidity that were in force in it; what the SDK says a position is due is what an update gives it |
| `swap_ends` | `MCClmmPool` | `SwapTerminates` | every swap that begins commits or reverts |
| `two_hop` | `MCTwoHopSwap` | `Solvent`, `IntermediateConsumed`, `TradeIsAsAsked`, `IntermediateNotSpent` | with fees withheld from every transfer and changing in between, trades are exact at the end that was fixed; in the second version the second pool gets exactly what its swap took in; the first version draws on the trader's own holdings of the token in between only for an exact output whose first hop stopped at its limit; the vaults can always pay everybody |
| `authorities` | `MCAdministration` | `TypeOK`, `ChangesAreSigned`, `ImplementsDelegation` | whoever signs, nothing that exists changes unless it is the authority in force over that account; authority is handed on only by its holder or appointer; rates stay within their caps |
| `badges` | `MCAdministration` | `Rooted`, `RewardsInOrder`, `MintsWereVetted`, `SdkAgreesOnSupport` | what pools and rewards are made of, while extensions hand on their authorities and badges are issued and deleted; the SDK's list of supported mints is the program's |
| `quotes` | `MCQuotedPool` | `DepositSuffices`, `FreshSwapIsAccepted`, `FreshQuoteFromAToBIsExact`, `FreshQuoteFailsOnlyMisrounded`, `ExactOutputCostsAsQuoted`, `LiquidityQuoteHoldsWithinSlippage` | the swap of a fresh quote begins unless the price is at its limit already; from a to b it is exact to the unit; from b to a it fails in two cases only, which the property names, and an exact output costs no more than quoted but for what the SDK rounded to nothing; limits of deposits and withdrawals hold while the price is within the slippage, through any instruction of others |
| `client` | `MCClient` | `BuiltTransactionsSucceed`, `CollectedInFull`, `ClosingSucceeds` | as long as what it relied on holds, every transaction of a request succeeds in whatever order, and a collection leaves nothing behind that was due |
| `algorithms` | `MCAlgorithms` | `IncludedIsLeast`, `SdkAgrees`, `BuildersFitProgram`, `RoutesAreBest`, `RouteDelivers` | transfer fees are inverted to the least amount, by both implementations; the program accepts what each of the builders makes; the routes found are the best, and deliver |
| `token2022_vaults` | `MCAdministration` | `VaultsFollow` (violated) | a pool over a Token-2022 mint never gets vaults |
| `closing` | `MCClient` | `ClosingAlwaysSucceeds` (violated) | a position with rewards due in a later slot and not in an earlier one cannot be closed with the SDK |

**Bounds of the pool.** Seven ticks (-3 to 3), a spacing of two and arrays of two ticks:
there are two arrays, starting at -4 and 0, the first of which begins below the tick
range, so that the special cases of the first and last array happen; usable ticks are
-2, 0 and 2, one of which is the common end of two neighbouring ranges. Two positions,
over three ranges that touch, nest and share ends: the smallest set in which a tick is
upper end of one position and lower end of another, in which a swap crosses two
initialized ticks in a row, and in which it crosses a gap without liquidity. Swaps go
both ways, by exact input and exact output, small enough to end inside a range and
large enough to run to the end of the price range, with limits on a tick and between
ticks, with missing and misordered arrays, and with thresholds that fail. Two swaps may
happen, so that one can come back over the ticks of the other. With Q64 = 256 and
liquidity of 3 to 256, amounts are of one to a few dozen units, where rounding is as
large as it can be compared to the amounts. `Budgets` bounds the number of instructions
of each kind in a run; closing a position, settling and beginning a swap that fails
are not counted. `earnings` has two budgets, one for fees that change and one for two
rewards: no claim depends on both. There the ranges are two that nest, and the liquidity and
the emissions do not divide each other, so that the growth of a reward is rounded and one
that was settled over the wrong liquidity or at the wrong rate shows. An overflow of
the time times the emissions is not reached; the theorem covers it.

**Bounds of the quotes.** The pool's, with ranges that nest, two swaps of anybody and two
changes of liquidity besides the client's own, at prices that are further apart; the client trades amounts that end inside
a range and amounts that cross ticks, by either token and either end, and deposits or
withdraws with no slippage and ten percent, under both of the SDK's kinds of slippage.
Every action of the client happens fresh and stale, and every kind of transaction both
succeeds and fails in some run of it. Prices and liquidity are chosen so that the SDK
misrounds both ways: the liquidity of both positions is worth exactly 44 units of b on the
way from 152 to 196, and that of one position half a unit from 147 to 148. A fresh swap
fails in both of the cases of `FreshQuoteFailsOnlyMisrounded` there, in the second by exact
output and by exact input; and others drain the pool to the least price, where a quote is
refused as `FreshSwapIsAccepted` says. The properties of fresh swaps take for granted that the tokens to
be paid in exist and that two sums which the program checks and the SDK does not fit their integers
(`TokensExist`, `SumsFit`). Neither those sums nor a threshold that leaves a `u64` is
brought about in the run.

**Bounds of the transfer fees.** A `u64` of 0 to 127, every amount of it; twenty basis
points are everything; rates of none, a little, most and all, maxima from zero to the whole
range. Rounding, the cap, the overflow of the sum and the 100% case all happen, in every
combination.

**Bounds of the instructions.** Two configs, three mints of which one is of the second
token program and has a hook, a pool for every pair, two reward slots with different
mints, one bundle per config: every constraint that relates two accounts has a wrong
account of the right kind to tell from the right one. Every method of `WhirlpoolIx` is
asked for every pool its version can serve, swaps in both directions.

**Bounds of the routes.** Two pools of one pair and a path of two pools around it: the
least market in which a trade can be split three ways, in which parts of a trade are of
equal size, and in which a pool could be used twice. Sixteen choices of reserves, so that
each path is best in some; one pool is listed twice. All pairs of tokens in both
directions, equal ones included, one of them wrapped SOL; parts of 25 and 50 percent, two
or three of them; one and three routes wanted, so that the partition must choose. With
three paths there are never more quotes than the search keeps, so its pruning is modelled
and never bites in the run. The
wallet has any set of token accounts, and the pool may have moved when the transaction arrives.

**Bounds of the sessions.** One pool of a token and wrapped SOL, two reward slots (one of
them taken at the start, one in wrapped SOL), two open positions that share a tick array,
and one to be opened. A transaction holds seven instructions, so that collecting both
positions takes several and a position's collection may be cut in two. One request of the client and
one of another session of the same owner, anywhere between the reading, the building and
each sending. `closing` is the same instance.

**Bounds of the trades.** Two pools, x/m and m/y, of the prices and ticks of the pool's
runs, with a position each around the common price; three changes of liquidity, two
trades, one collection and two changes of fee (to a rate with no effective maximum, and to
100% of at most one unit). Either no mint is of Token-2022, or m and y are: the first
version's trades happen in the one case, fees in the other. The trades are of one hop and
two, each way, exact at either end; in some the first hop meets its price limit, in others
the second does, depending on the liquidity and the fees there are; some fail their
threshold, some never fit. Every trade that fits commits in some states and reverts in
others, and each version commits with a hop at its limit wherever it can.

**Bounds of the bundle.** Two bundles and two wallets, a bitmap of two bytes, and the
indexes 7, 8 (the last of the first byte and the first of the second) and 16 (the
first out of range).

**Bounds of the administration.** `authorities` has two configs and
two keys, the least with which an authority of one config can be the wrong one for the
other, and with which the holder of an office and its appointer differ; rates are zero,
the cap and the first beyond it. Keys are symmetric. It has one pool of one
config and one reward slot, and no extensions (`ExtendedConfigs` is empty): the product of
the two is too large, and they share only the fee authority, which both have. `badges` has one key,
so that the interest is in the mints: Token mints with and without what needs a badge, a
Token-2022 mint that needs one and one that is never supported, the same pair of mints
in either order, two reward slots, and extensions of both configs. That changes to
extensions and badges are signed, too, is proved.

**Fairness.** `swap_ends` needs `WF_vars(Swapping)`, a transaction that has
begun is run to its end. The runtime executes an instruction without interruption, so
this is what it means for the loop to be a loop; it says nothing about callers.
`token2022_vaults` assumes that somebody calls `initialize_tokens_pool` for a pool when
it can succeed (`WF_vars(InitializePoolTokens(pk))`); the program obliges nobody to, and
the fairness is there so that the counterexample shows more than a caller who forgot.

Every property of a passing run has a mutant in `PROJECT.json`: a definition changed the
way a plausible bug would change the code, under which TLC finds the property violated.
The mutated definitions stand beside the ones they replace, marked as faulty or "for a
mutant".

## What disagrees

Two runs are meant to fail.

`token2022_vaults`: `initialize_pool_v2` accepts Token-2022 mints (that is its purpose: it asks for their
badges) but takes the vaults as unchecked accounts and creates none. The only
instruction that does is `initialize_tokens_pool`, whose mints and vaults are accounts
of the Token program. The pool's vaults are at addresses derived from the program, so
nobody else can create them: the pool can be created and never used.
`sdk/tests/integration/v2/initialize_pool_v2.test.ts:116` expects the vaults right
after the instruction. In the run's counterexample such a pool stays without vaults
while everything that could be done about it is done; a pool of Token mints in the same
run gets its vaults.

`closing`: `getClosePositionIx` filters the rewards to those that are due and then uses a
reward's place among them as its slot and to find its vault. When a later slot is due and
an earlier one is not, the collection is made out for the wrong slot and fails, and the
transaction that was to close the position with it. `ClosingSucceeds` shows that this is the only case in
which the transactions of a close that nobody disturbs fail.

Smaller ones, met while modelling. Each is modelled as the code has it; none has a run of
its own, because only a comment is at stake, because a property of a passing run already
says how far it goes, or because the code never reaches it with a different result.

- `lib.rs:463` and `lib.rs:477` say that setting a reward authority fails unless the index
  is the lowest uninitialized one; `update_reward_authority` (`state/pool.rs:180`) only checks that it is
  below `NUM_REWARDS`. `state/pool.rs:288` documents `emissions_per_second_x64` as per
  unit of liquidity; it is of the whole pool.
- `checked_mul_shift_right_round_up_if` of the SDK (`utils/math/bit-math.ts`) rounds by
  the low bits of the quotient instead of the product's fraction: an amount of b that is
  exact becomes a unit too much, and one that is less than a unit becomes zero where the
  program takes one. So `simulateSwap`, which is to find the parameters "needed to
  successfully complete this trade on chain" (`quotes/swap/swap-quote-impl.ts:11`), may give ones that
  fail at once. `FreshQuoteFailsOnlyMisrounded` states the two ways, and
  `ExactOutputCostsAsQuoted` how far an exact output may be from its quote; room for
  slippage does not always help, because it is a share of an amount that may be zero.
- A swap whose limit is the present price is quoted with no tick arrays
  (`quotes/swap/tick-array-sequence.ts:73`, "Edge case: nothing was ever touched") and cannot be sent.
  A pool that was drained from a to b rests at the default limit of the next swap that way.
  `FreshSwapIsAccepted` names this case.
- `estimatedEndTickIndex` of a swap quote differs from the program's when the price has
  not moved after a crossing; `calculateProtocolFee` of `swap-manager.ts` is always zero;
  neither enters a transaction.
- A withdrawal quote for a pool at the tick below the first throws, where the program
  would pay; a reward quote throws where the program takes an overflowing growth as zero.
- `getInitializableTickIndex` rounds negative ticks towards zero.
- `collectRewards` (`impl/position-impl.ts`) stops at the first reward that was not asked
  for and leaves out later ones that were. `collectAllForPositionsTxns` takes the pools
  from the cache even when it reads the positions again, so the rewards of a new slot
  are collected only after a refresh. Closing leaves out the collection of fees of which the transfer fee would
  leave nothing; the close then fails.
- `collectFees`, `increaseLiquidity`, `decreaseLiquidity`, opening and routed swaps
  create token accounts with an instruction that fails if the account is there by then;
  `BuiltTransactionsSucceed` is about sessions without such a change.
- An exact output that is split over a route is split with floors, so the parts may add
  up to less than was asked for, and a route of cheaper, smaller parts may rank first;
  `RouteDelivers` compares with the route's own total. With a `percentIncrement` that does
  not divide 100 no route takes the whole trade.
- `isV2IxRequiredPool` and `isV2IxRequiredReward` (`token-extension-util.ts:216`) compare
  two `PublicKey` objects with `==`; `collectProtocolFees` reads `whirlpoolsConfig` of a
  pool whose field is `poolsConfig`, and always throws; `createPool` (`impl/whirlpool-client-impl.ts:266`) passes
  `initializePoolIx` other parameters than it takes, and no builder exists for
  `initialize_tokens_pool`.

## Proofs

The theorems hold for every value of the constants that satisfies the named
assumptions (`MathAssumption`, `RewardAssumption`, `TickAssumption`, `PoolAssumption`,
`TwoHopAssumption`, `ClientAssumption`, `BundleAssumption`, `AdminAssumption`, `BasisPointsAssumption`): any width `Q64`, any increasing table of tick prices, any tick
spacing and array size, any number of positions and rewards, any set of callers'
arguments of the right types, any number of configs, keys, mints and pools. TLC evaluates the assumptions in every run.

- `ClmmMathProofs!StepStaysBeforeTarget`: `compute_swap` never moves the price past its
  target. There is one lemma for each of the four price formulas (a token in or out,
  rounded up; b token in or out, rounded down): when an amount is less than what the way
  to the target takes, so rounded, the price it leads to lies before the target. This
  nonlinear argument about nested rounding is the heart of the swap, and the tests only
  sample it.
- `ClmmMathProofs!ShortStepTakesRest`: a computation that stops short of its target takes
  all that remains. For an exact output this is the other side of the rounding: the price
  moves at least as far as the amount asked for takes, so that the amount computed back
  from that price is no less (`AmountOfAOut`, `AmountOfBOut`), and the cap of the code makes
  it equal. For an exact input the rest becomes the fee; should the input exceed what
  remains, that subtraction is negative and the step fails.
- `ClmmPoolProofs!NextTickIsAhead`: the search returns a tick of the tick range that is
  ahead of the swap: to the left not after the current tick, to the right after it.
  The proof has the closed form of the two loops as its subject and an existence lemma
  for its CHOOSE operators (a nonempty set of integers with a bound has a least and a
  greatest element).
- `ClmmPoolProofs!SearchSkipsNothing`: an initialized tick that lies ahead, and not
  beyond the tick the search returns, is that tick, and the array the search ended at
  holds it, whatever arrays the caller passes. The ticks in use and the starts of
  the arrays are multiples of the spacing, which is why the last tick an array can hold
  and the last index its range covers, a spacing less one apart, leave no room for another.
- `ClmmPoolProofs!TypeCorrect`, `PriceCorrect`, `PriceTowardsLimit`: type correctness of
  everything, `PriceMatchesTick` and `PriceMovesTowardsLimit`. They are proved together,
  from the inductive invariant `IInv`, which is `TypeOK`, `PriceMatchesTick` and
  `SwapWithinLimits` (a swap in progress has the limit of its arguments on the right side
  of its price, and that limit is in range). None of the three is inductive alone: the
  price stays in its type only because it stays between the limit and where it was; it
  does so only because the target is on the right side of the price, which needs the tick
  found to be ahead of the *price* and so needs `PriceMatchesTick`; and that is kept
  because a step ends at its target or short of it.
- `ClmmPoolProofs!ShortStepsExhaust` and `IterationsMove`: `ShortStepExhausts` and
  `IterationsMoveOn`. An iteration ends at its target or with nothing left, and so one
  that is not the last ends at the price of the tick it found (at the limit the loop would be
  over), after which the tick is at least one further in the direction of the swap. No swap
  has more iterations than there are ticks: that is the safety half of `SwapTerminates`,
  for every width and table of prices. The two action properties are in no run; the
  run `swap_ends` checks what follows from them.
- `ClmmPoolProofs!UnusedTicksCorrect`: `UnusedTicksAreDefault`, from the invariant that
  a tick, in the pool and in the copy a swap works on, is the default or is initialized
  and in use.
- `ClmmPoolProofs!TicksCorrect`: `TicksMatchPositions`, from the invariant `LedgerInv`
  (positions with liquidity are open and in order, and every tick, in the accounts and in a
  swap's copies, matches and is clean). A sum over the positions is the last of its
  partial sums; that sums add up and that a change at one position changes the sum by as
  much is shown by refuting the least position where it would fail, which takes the
  place of an induction.
- `ClmmPoolProofs!LiquidityCorrect`: `LiquidityMatchesPositions`, in the pool and in every
  iteration of a swap. It needs everything above together: `TicksMatchPositions` and
  `SearchSkipsNothing`, so that the liquidity around a tick is the same up to the next
  initialized one; `StepStaysBeforeTarget`, so that a step that stops short stays on its
  side of that tick; and that crossing it adds what begins there less what ends there.
  The theorem has one hypothesis, `[]NetsNegatable`: in a swap, no tick's net is the least
  `i128`. The swap negates the net when it goes to the left, and in a
  release build the least `i128` is its own negation. To get there, positions of
  2^127 liquidity would have to end on one tick; the cheapest range at the code's prices takes about 2^80 tokens for
  that, and a token's supply is a `u64`. `TicksCorrect` has no such hypothesis.
- `ClmmPoolProofs!PoolImplementsLedger`: `ClmmPool` implements `LiquidityLedger`, under the
  same hypothesis: an instruction on a position sets a range or modifies, a swap, committed,
  trades, and all else stutters.
- `EarningsProofs!EarningsWhereTraded`: `EarnsOnlyWhereTraded`, with no hypothesis. A swap
  never looks at a position; what one has earned is computed later, from counters outside
  the two ends of its range that wrap and that every crossing turns over. The invariant
  `TradedInv` says of a swap in progress that it went its own way only, that inside a range
  it did not touch nothing has grown of any token, and nowhere anything of the output
  token or the rewards. That an iteration keeps it is one lemma about a move of the tick
  (`InsideMoves`): growth shows inside a range if and only if the tick was in it, although
  the differences are taken modulo 2^128, and it needs `SearchSkipsNothing` again, because
  an end that is passed without being crossed would not be turned over.
- `EarningsProofs!SettledBeforeChange`: `RewardsSettledBeforeChange`, with no hypothesis.
  Every step either settles or leaves the rewards' clock, growth and terms as they are
  (`Settles`, `Stands`), with one lemma per group of instructions; and what settling adds
  to the growth is what the old emissions give over the old liquidity, also where the
  growth wraps (`WrapBack`, `SettlesOnOldTerms`).
- `EarningsProofs!RewardsCorrect`: `RewardsNotOverdistributed`, under the hypothesis of
  `LiquidityCorrect`. The invariant is `RewardsBacked`: of each reward, what was collected,
  what the positions are owed in Q64.64 before any rounding, and what is outstanding
  (emissions times the time since the last update) are together no more than what was
  emitted. It is a sum over the positions, which an update of the rewards changes at all of
  them around the tick at once: the growth is what is outstanding over the liquidity in
  force, rounded down, and `LiquidityMatchesPositions` says that this is their liquidity.
  `UnusedSlots` (in a slot without a reward nothing has grown and nothing is emitted) and
  `ClockInv` (the time of the last update is not in the future) are proved with it: a
  position with liquidity is settled in all three slots, one without a reward too.
- `EarningsProofs!SolvencyCorrect`: `Solvent`, under the same hypothesis. The sum of the
  claims is not inductive: each is rounded, and a swap changes all of them. The proof keeps
  the account that the program does not keep, in full precision (`TokensBacked`): for each
  token, what the protocol is owed and what all positions are due (`Due`: what is recorded
  as owed, what has grown since, and what their liquidity is worth at the price, none of it
  rounded) is no more than what the vault holds; and so it is for a swap in progress, if it
  paid at this point. What liquidity is worth of token b between two prices is a difference
  of prices, and of token a one of their inverses. To have whole numbers, everything is
  counted in a common unit (`Unit`, made of a number that all prices divide), in which every
  price has a height (`Height`) for each token. Then: every amount paid in is worth at least
  the liquidity times the difference of heights, and every amount paid out at most
  (`PaidInWorth`, `PaidOutWorth`, for both formulas and both roundings);
  an iteration moves the price through the ranges that hold the tick and no others
  (`SpanMoves`), so that what the positions are due changes by the liquidity in force times
  the difference of heights plus the growth of the fees (`IterationDue`, `GainIsPaid`), which
  is what came in less the protocol's share; and a deposit or withdrawal changes what one
  position is due by no more than is paid (`SyncDue`, `LiquidityPaid`). A claim, rounded
  down, is at most what is due (`ClaimWorth`). So it is shown for every width, every table
  of prices and any number of positions that the vaults can pay everybody at once.
- `QuoteProofs!FeeQuotesCorrect` and `RewardQuotesCorrect`: `FeeQuoteForetells` and
  `RewardQuoteForetells`, for every position at every moment, under the same hypothesis. The
  SDK computes with integers of no width, and the program with growths modulo 2^128, a
  product that becomes zero when it overflows (the error is swallowed) and a `u64` that
  wraps. They agree because none of this happens, and that it does not is a consequence of
  `TokensBacked` and `RewardsBacked`: what a position is due of fees is in a vault that holds
  a `u64` (`PendingFeeFits`), and of a reward it is part of what was emitted
  (`PendingRewardFits`); only the counters themselves wrap, and there both sides subtract
  modulo 2^128 (`SdkInside`, `WrappedDifference`). For rewards the SDK also repeats the
  program's update of the growth up to the present second (`RewardGrowthQuoted`). Here one
  hypothesis more is needed, `EmittedFits`: all that was emitted of a reward since it began,
  in Q64.64, is a `u128`. Past that bound they really differ: the time since the last
  update times the emissions can overflow, upon which the program takes the growth to be zero
  and moves the clock on, where the SDK throws. No token with a `u64` supply can pay
  so much, but nothing stops an authority from setting such a rate with a day's worth in
  the vault.
- `QuoteProofs!ClientKeepsPool`: `TypeOK`, `PriceMatchesTick`, `TicksMatchPositions` and the
  rest of `IInv` and `LedgerInv` hold beside `QuotedPool`'s client too. The sets
  `LiquidityAmounts` and `SwapArgs` say what a run lets callers ask for, and what a quote comes to
  is in neither; so the two invariants are shown to be kept by any swap whose arguments have their
  types and any amount of liquidity of 128 bits (`AnyNext`, in `ClmmPoolProofs`), and what
  the client sends is shown to be such an instruction (`ClientIsAnyNext`).
- `QuoteProofs!DepositsSuffice`: `DepositSuffices`, with no hypothesis. The SDK turns the
  amount of one token into liquidity, rounding down, and the liquidity back into amounts of both
  tokens, rounding up. For token b each is one quotient; for token a the first is two, one
  after the other, over a different product than the second (`WorthOfA`, `LiquidityOfA`), and with the
  price inside the range the liquidity is the smaller of two. That the amount computed back is
  no more than what was given (`DepositCovers`) is what the round trip would lose first if a
  rounding were turned around.
- `QuoteProofs!LiquidityQuotesHold`: `LiquidityQuoteHoldsWithinSlippage`. The estimates
  of the SDK equal what the program computes, though the two compare the *price* and the
  *tick* with the ends of a range (`SdkEstimate`, `ProgramEstimate`: both are the worth of
  the liquidity at the price, moved into the range, which takes `PriceMatchesTick`).
  What liquidity is worth in token b grows with the price, and in token a shrinks, before and
  after rounding (`WorthMoves`); the SDK takes the largest, or the smallest, of the worths at both
  ends of the slippage and at the present price, so that its limit is on the right side at
  every price between (`QuotedBetween`). The ends are roots, rounded, and cut off at the
  ends of the price range: every price within the slippage, in squares, lies between them all
  the same (`RoundedRoot`, `SlippageBounds`). `IncreaseByPrice`, `IncreaseByTokens`,
  `DecreaseByPrice` and `DecreaseByTokens` say what each of the four quotes is good for, the
  older ones with a slippage of the amounts at the present price only. The invariant
  `QuoteInv` keeps it while others use the pool: until it is sent, the quote's limits are
  enough at every price it foresees, and its position's ends stay where they are
  (`PositionStays`). One hypothesis is needed, `[]AmountsFit`: the limits of an increase fit
  into `u64`, and what the program would pay for a decrease does. The SDK has no widths and
  can quote what no instruction can carry; and a withdrawal that was quoted before others took
  most of the position out is for liquidity that no vault has to cover, and may be worth more
  than a `u64`.
- `TransferFeesProofs!AskedIsLeast` and `SdkAsksTheSame`: `IncludedIsLeast` and `SdkAgrees`,
  for every rate, maximum, amount and width. What must be sent is a quotient rounded up, of
  which a share rounded up and capped is withheld again; the lemmas turn both roundings into
  the pair of inequalities that define them, and show that the quotient is the least number
  whose share leaves the amount, that below the cap the share of it is the difference, and
  that at the cap the amount and the maximum is as little as can be sent. That the
  verification in the code "should never happen" to fail is a consequence.
- `TwoHopProofs!IntermediateIsConsumed`, `TradesAreAsAsked`, `IntermediateIsNotSpent`:
  `IntermediateConsumed`, `TradeIsAsAsked` and `IntermediateNotSpent`, for any number of
  pools and mints, any fees and any widths. An amount is converted at every joint of a
  trade: what is sent into what arrives, to ask a pool for it; what a swap took in back into
  what must be sent; and what the first loop found into what the second is asked for. Three
  facts about the conversions carry it. More arrives of more (`ArrivesInOrder`: the fee,
  rounded up and capped, never grows faster than the amount, `FeeGrowsSlowly`); what the
  program asks to be sent, if it asks at all, is what lets the amount arrive
  (`AskedArrives`); and it is no more than anything that lets more arrive (`AskedNoMore`).
  The last is why a trade whose fixed input was not used up never sends more than the caller
  allowed, although the amount to send is found by going backwards. The invariant is
  `TradeInv`: every hop that has begun was asked for the amount that belongs to it, its swap
  has u64 amounts of which the fixed one is within what was asked (`SwapSound`, kept by
  `StepSound`), the first loop is done when the second has begun, and the second one's
  amount is the one the first found. It holds only because fees do not change inside a
  transaction, and needs `AccountsInv` (balances and claims are numbers, and a mint of the
  Token program withholds nothing). `WalletMoves` then takes the transfers of the commit
  apart, mint by mint: in both versions the token in between differs from both ends, and in
  the first it arrives whole. No property here needs the pools to be solvent: a transfer
  that a vault cannot make fails the transaction.
- `TwoHopProofs!PoolsAreSolvent`: `Solvent` of `TwoHopSwap`, for any number of pools, one by
  one: `ThePool` is a constant of which nothing is assumed but that it is a pool, and
  `Solvent!(ThePool)` is what `Solvent` says of it. (That the conjunction over the pools
  follows, since the constant can be any of them, is left to the reader: the prover hides what
  is proved of an instance with a parameter, so the theorem is about an instance for one pool.) The
  argument of `SolvencyCorrect` is not repeated. Seen from one pool, whatever happens is a step of
  a `ClmmPool` with one position or nothing at all: `One` is the instance of `EarningsProofs`
  in which the vaults are the pool's and the swap is the one hop of the trade that is in
  it and has begun (`Begun`, `SwapIn`), and its invariant `BackedInv` is kept by any such
  step (`NextBackedInv`). What had to be shown is that they are such steps. A trade does not swap
  twice in a pool (`BegunAlone`); each version's hop begins and goes on as a `ClmmPool`'s swap
  does (`BeginKeepsBacked`, `IterationKeepsBacked`, `NextHopKeepsBacked`), with the threshold
  of the trade in place of its own; a trade that fails, or waits for its other
  hop, leaves the pool alone (`OthersGoOn`, `DroppedAlone`); and when it is carried out,
  exactly what the swap took in has arrived in the vault, though more was sent
  (`VaultSwappedAlone`, `CommitKeepsBacked`). Of a deposit exactly
  what the liquidity is worth arrives, by the mint's fee at that time (`AskedArrives`); of a
  withdrawal the fee falls on the receiver. `PlaceInv` says which pool, position and arrays the
  instance is about. The hypothesis is that of `LiquidityCorrect`, for every hop of a trade.
- `PositionBundleProofs!TypeCorrect`, `BitmapCorrect`, `NeverStranded`: the bundle's type
  invariant, `BitmapMirrorsAccounts` and `NothingStranded`, for any bitmap length and any
  number of bundles and wallets. The strengthening is that a bundle exists exactly while its token
  is held by somebody.
- `AdministrationProofs!TypeCorrect`, `RootedAlways`, `RewardsInOrderAlways`,
  `MintsWereVettedAlways`, `OnePoolPerPairAlways`: the invariants. A pool or a slot is
  created under conditions that later steps may undo (the badge is deleted, the
  authorities change), so each proof needs what remains: of a badge, that the config has
  an extension (`Rooted`, which `MintsWereVetted` is proved with); of the order of the
  mints, `AllOrdered`, which is inductive where `OnePoolPerPair` is not.
- `AdministrationProofs!SdkAgreesOnSupportAlways`: `SdkAgreesOnSupport`, for any mint, extension by
  extension.
- `AdministrationProofs!ChangesAreSignedAlways`: `ChangesAreSigned`. One lemma per group of
  instructions shows that the accounts other than the one named are as before, and that
  the signature asked for is that of the config the changed account belongs to.
- `AdministrationProofs!ImplementsDelegationAlways`: `Administration` implements
  `Delegation` under the mapping `Holder`. The lemmas `ConfigHolders`,
  `ExtensionHolders`, `RewardHolders` and `Rules` say what the mapping is for each kind of
  office; then every step founds offices, hands on one, or (`OfficesKept`) leaves all.

## Only model-checked

- `SwapTerminates` is liveness under fairness, which stays with TLC. That the loop cannot go
  on forever is proved (`IterationsMove`); that it goes on at all is what fairness adds.
- The quotes of swaps: that a fresh one is exact compares two loops, iteration by iteration,
  and needs an induction over the SDK's.
- The instruction builders, the sessions and the routes: their loops and searches are
  recursive operators and folds over sequences, which the provers cannot reach, and the
  properties compare two computations on concrete accounts.

## Not modelled

- The bit-by-bit computation of tick prices and their logarithm, and the 256-bit
  arithmetic: the model takes the price table as given and has unbounded integers.
- What a transfer hook does, memos, and the slippage limits of the v2 liquidity
  instructions with transfer fees; `collect_reward` of v2 (its transfer fee falls on the
  receiver alone).
- The SDK's cache: its expiry and its batching are in a dependency that is not in the
  repository; sessions model that what is cached may be stale. Of the transaction
  builders: creating pools, collecting protocol fees (see above: neither works), and swaps with a
  developer's fee, which are a transfer beside a swap. Of the router: `getAllPaths`, the price
  impact, lookup tables, and the sampling of more than 600 routes.
- In `Administration`: the price a pool starts with, the amounts behind fees and emissions,
  who pays for accounts.
- Events, errors' wording, token metadata, rent and account sizes: they have no behaviour of
  their own. Anchor's account checks are modelled where they decide whether an instruction can succeed.
