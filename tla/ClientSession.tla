--------------------------- MODULE ClientSession ---------------------------
(***************************************************************************)
(* A wallet's session with the SDK: it reads the chain, builds             *)
(* transactions from what it has read and sends them, one, several in any  *)
(* order or one after another, while trades, time and the same owner's     *)
(* other sessions go on changing the chain.                                *)
(*                                                                         *)
(* The amounts are left out: a position holds liquidity or does not, its   *)
(* fees and each of its rewards are due or not.  `owed' is what the        *)
(* position's account says, `accrued' what an update would add to it; all  *)
(* positions are in range, and every token account of a transaction is one *)
(* of the wallet's.                                                        *)
(***************************************************************************)
EXTENDS ClientTransactions

CONSTANTS
    Opened,         \* The positions that are open at the start.
    StartAtas,      \* The token accounts the wallet may have at the start, and
    StartSlots,     \* how many reward slots may be taken.
    MaxRequests,    \* Bound on the requests of the session.
    MaxOthers       \* Bound on the transactions of the owner's other sessions.

VARIABLES
    chain,      \* The accounts: positions, slots taken, token accounts, tick arrays.
    seen,       \* What the client has cached of them.
    batch,      \* The transactions it has built and not sent.
    count       \* The requests it has made, and the others' transactions.

vars == <<chain, seen, batch, count>>

Items(slots) == {Fee} \cup {Reward(i) : i \in 0 .. slots - 1}

Due(p) == chain.positions[p].owed \cup chain.positions[p].accrued

\* A batch: its transactions and whether they must be sent one after another; what was
\* due, and knew the client, when it was built and has not been paid yet; whether the chain
\* is still what it was built for.
NoBatch == [kind |-> "none", txs |-> <<>>, serial |-> FALSE, idempotent |-> TRUE,
            positions |-> {}, due |-> {}, sound |-> FALSE, inOrder |-> TRUE]

----------------------------------------------------------------------------
(* What the program does with an instruction, given the accounts for wrapped *)
(* SOL there are in its transaction.                                         *)

Position(c, ix) == c.positions[ix.position]

\* A token account that is there and of the right mint.
Usable(s, account, mint) ==
    /\ MintOf(account) = mint
    /\ \/ account[1] = "ata" /\ mint \in s.chain.atas
       \/ account \in s.wrapped

UsesTokens(s, ix, pool) ==
    Usable(s, ix.a, TokensOf[pool][1]) /\ Usable(s, ix.b, TokensOf[pool][2])

\* Whether it succeeds.  Only an open position has liquidity, or anything due.
Succeeds(s, ix) ==
    LET c == s.chain
    IN  CASE ix.do = "createAta" -> ix.idempotent \/ ix.mint \notin c.atas
          [] ix.do = "createWrapped" -> ix.account \notin s.wrapped
          [] ix.do = "update" -> Position(c, ix).liquidity # 0
          [] ix.do = "collectFees" ->
                 Position(c, ix).status = "open" /\ UsesTokens(s, ix, PoolOf[ix.position])
          [] ix.do = "collectReward" ->
                 /\ Position(c, ix).status = "open"
                 /\ ix.index < c.slots[PoolOf[ix.position]]
                 /\ ix.vault = ix.index
                 /\ Usable(s, ix.account, RewardMint(PoolOf[ix.position], ix.index))
          [] ix.do = "increase" ->
                 /\ Position(c, ix).status = "open"
                 /\ ArraysOf[ix.position] \subseteq c.arrays
                 /\ UsesTokens(s, ix, PoolOf[ix.position])
          [] ix.do = "decrease" ->
                 /\ ix.liquidity \in 1 .. Position(c, ix).liquidity
                 /\ UsesTokens(s, ix, PoolOf[ix.position])
          [] ix.do = "open" -> Position(c, ix).status = "new"
          [] ix.do = "close" ->
                 /\ Position(c, ix).status = "open"
                 /\ Position(c, ix).liquidity = 0 /\ Position(c, ix).owed = {}
          [] ix.do = "initTickArray" -> ix.array \notin c.arrays
          [] ix.do = "swap" -> UsesTokens(s, ix, ix.pool)

Settled(pos) == [pos EXCEPT !.owed = @ \cup pos.accrued, !.accrued = {}]

\* A trade in the pool, or time passing, makes something due to whoever has liquidity.
Accrue(positions, pool, items) ==
    [p \in Positions |->
        IF PoolOf[p] = pool /\ positions[p].liquidity # 0
        THEN [positions[p] EXCEPT !.accrued = @ \cup items] ELSE positions[p]]

After(c, ix) ==
    CASE ix.do = "createAta" -> [c EXCEPT !.atas = @ \cup {ix.mint}]
      [] ix.do = "createWrapped" -> c
      [] ix.do = "update" -> [c EXCEPT !.positions[ix.position] = Settled(@)]
      [] ix.do = "collectFees" -> [c EXCEPT !.positions[ix.position].owed = @ \ {Fee}]
      [] ix.do = "collectReward" -> [c EXCEPT !.positions[ix.position].owed = @ \ {Reward(ix.index)}]
      [] ix.do = "increase" ->
             [c EXCEPT !.positions[ix.position] = [Settled(@) EXCEPT !.liquidity = 1]]
      [] ix.do = "decrease" ->
             [c EXCEPT !.positions[ix.position] = [Settled(@) EXCEPT !.liquidity = @ - ix.liquidity]]
      [] ix.do = "open" -> [c EXCEPT !.positions[ix.position].status = "open"]
      [] ix.do = "close" -> [c EXCEPT !.positions[ix.position].status = "closed"]
      [] ix.do = "initTickArray" -> [c EXCEPT !.arrays = @ \cup {ix.array}]
      [] ix.do = "swap" -> [c EXCEPT !.positions = Accrue(@, ix.pool, {Fee})]

\* What it pays out.
Paid(c, ix) ==
    IF ix.do = "collectFees" THEN {<<ix.position, Fee>>}
    ELSE IF ix.do = "collectReward" THEN {<<ix.position, Reward(ix.index)>>} ELSE {}
PaidDue(c, ix) == {d \in Paid(c, ix) : d[2] \in c.positions[d[1]].owed}

\* A transaction, all of it or nothing.
Run(c, ixs) ==
    FoldLeft(LAMBDA s, ix :
                 IF ~s.ok \/ ~Succeeds(s, ix) THEN [s EXCEPT !.ok = FALSE]
                 ELSE [ok |-> TRUE, chain |-> After(s.chain, ix),
                       wrapped |-> IF ix.do = "createWrapped" THEN s.wrapped \cup {ix.account}
                                   ELSE s.wrapped,
                       paid |-> s.paid \cup PaidDue(s.chain, ix)],
             [ok |-> TRUE, chain |-> c, wrapped |-> {}, paid |-> {}], ixs)

----------------------------------------------------------------------------
\* What a client reads with IGNORE_CACHE; otherwise it goes by what was read last.
SeenNow ==
    [slots |-> chain.slots, liquidity |-> [p \in Positions |-> chain.positions[p].liquidity],
     positions |-> {p \in Positions : chain.positions[p].status = "open"}]

Init ==
    /\ \E atas \in StartAtas, slots \in [Pools -> StartSlots] :
           chain = [positions |-> [p \in Positions |->
                           [status |-> IF p \in Opened THEN "open" ELSE "new",
                            liquidity |-> IF p \in Opened THEN 1 ELSE 0,
                            owed |-> {}, accrued |-> {}]],
                       slots |-> slots, atas |-> atas,
                       arrays |-> UNION {ArraysOf[p] : p \in Opened}]
    /\ seen = SeenNow
    /\ batch = NoBatch
    /\ count = [requests |-> 0, others |-> 0]

Refresh ==
    /\ batch.txs = <<>>
    /\ seen' = SeenNow /\ batch' = NoBatch
    /\ UNCHANGED <<chain, count>>

\* The liquidity that decides what a transaction needs is still what was read.
LiquidityAsSeen(positions, view) ==
    \A p \in positions : /\ chain.positions[p].status = "open"
                         /\ chain.positions[p].liquidity = view.liquidity[p]

\* What is due for the fees and for the slots that `view' knows of.
DueAsSeen(positions, view) ==
    UNION {{<<p, item>> : item \in Due(p) \cap Items(view.slots[PoolOf[p]])} : p \in positions}

\* A request that threw leaves no transactions.
Build(kind, built, positions, view, with) ==
    /\ batch.txs = <<>>
    /\ ~built.throws
    /\ seen' = view
    /\ batch' = with @@ [NoBatch EXCEPT !.kind = kind, !.txs = built.txs, !.positions = positions,
                                        !.sound = LiquidityAsSeen(positions, view)]
    /\ count.requests < MaxRequests
    /\ count' = [count EXCEPT !.requests = @ + 1]
    /\ UNCHANGED chain

CollectAll ==
    \E order \in SetToAllKPermutations(seen.positions) :
        /\ order # <<>>
        /\ Build("collectAll", collectAllForPositionsTxns(order, seen, chain.atas), ToSet(order), seen,
                 [due |-> DueAsSeen(ToSet(order), seen)])

CollectFeesOf(p) ==
    /\ p \in seen.positions
    /\ Build("collectFees", collectFees(p, TRUE, seen.liquidity[p], chain.atas), {p}, seen,
             [due |-> DueAsSeen({p}, seen) \cap {<<p, Fee>>}, idempotent |-> FALSE])

\* The pool is read again, the position is not.
CollectRewardsOf(p) ==
    LET view == [seen EXCEPT !.slots[PoolOf[p]] = chain.slots[PoolOf[p]]]
    IN  /\ p \in seen.positions
        /\ Build("collectRewards",
                 collectRewards(p, Mints, TRUE, seen.liquidity[p], view.slots[PoolOf[p]], chain.atas),
                 {p}, view, [due |-> DueAsSeen({p}, view) \ {<<p, Fee>>}, serial |-> TRUE])

\* The pool and the position are read again.  inOrder: no slot that is due comes after
\* one that is not.
ClosePosition(p) ==
    LET slots == chain.slots[PoolOf[p]]
        due == {i \in 0 .. slots - 1 : Reward(i) \in Due(p)}
    IN  /\ chain.positions[p].status = "open"
        /\ Build("close", getClosePositionIx(p, chain.positions[p].liquidity, Due(p), slots, chain.atas),
                 {p}, SeenNow,
                 [due |-> DueAsSeen({p}, SeenNow), serial |-> TRUE,
                  inOrder |-> \A i \in due : 0 .. i \subseteq due])

\* A position's arrays must be there, which initTickArrayForTicks can see to.
OpenPosition(p) ==
    /\ chain.positions[p].status = "new"
    /\ Build("open", getOpenPositionWithOptMetadataTx(p, chain.atas), {}, seen,
             [idempotent |-> FALSE, sound |-> ArraysOf[p] \subseteq chain.arrays])

InitTickArrays(p) ==
    Build("initTickArrays", initTickArrayForTicks(ArraysOf[p], chain.arrays), {}, seen, <<>>)

IncreaseLiquidity(p) ==
    /\ p \in seen.positions
    /\ Build("increase", increaseLiquidity(p, chain.atas), {p}, seen, [idempotent |-> FALSE])

DecreaseLiquidity(p) ==
    /\ p \in seen.positions /\ seen.liquidity[p] # 0
    /\ Build("decrease", decreaseLiquidity(p, seen.liquidity[p], chain.atas), {p}, seen,
             [idempotent |-> FALSE])

SwapIn(pool) ==
    Build("swap", swapAsync(pool, {}, chain.arrays, chain.atas), {}, seen, <<>>)

Forget ==
    /\ batch.txs # <<>>
    /\ batch' = NoBatch
    /\ UNCHANGED <<chain, seen, count>>

----------------------------------------------------------------------------
Sendable == IF batch.serial THEN 1 .. Min({1, Len(batch.txs)}) ELSE DOMAIN batch.txs

\* A transaction that fails leaves the rest without what it was to do.
Send(n) ==
    LET result == Run(chain, batch.txs[n])
    IN  /\ n \in Sendable
        /\ chain' = IF result.ok THEN result.chain ELSE chain
        /\ batch' = [batch EXCEPT !.txs = RemoveAt(@, n), !.sound = @ /\ result.ok,
                                  !.due = IF result.ok THEN @ \ result.paid ELSE @]
        /\ UNCHANGED <<seen, count>>

\* What is left of a batch when the chain changes under it: what was paid to others is no
\* longer due, and transactions that relied on what changed may fail.
Undisturbed(after) ==
    /\ \A p \in batch.positions :
          LET old == chain.positions[p]
              new == after.positions[p]
          IN  IF batch.kind = "close" THEN new = old
              ELSE new.liquidity = old.liquidity /\ new.status = old.status
    /\ batch.idempotent \/ after.atas = chain.atas
    /\ batch.kind \in {"open", "initTickArrays"} => after.arrays = chain.arrays

ChangedByOthers(after, paid) ==
    /\ chain' = after
    /\ batch' = [batch EXCEPT !.sound = @ /\ Undisturbed(after), !.due = @ \ paid]
    /\ UNCHANGED seen

Trade(pool) ==
    /\ ChangedByOthers([chain EXCEPT !.positions = Accrue(@, pool, {Fee})], {})
    /\ UNCHANGED count

\* Rewards accrue in the slots that are taken, in some or in all of them: emissions differ.
Time(pool) ==
    /\ \E slots \in SUBSET (0 .. chain.slots[pool] - 1) :
          ChangedByOthers([chain EXCEPT !.positions = Accrue(@, pool, {Reward(i) : i \in slots})], {})
    /\ UNCHANGED count

InitializeReward(pool) ==
    /\ chain.slots[pool] < Len(RewardMintsOf[pool])
    /\ ChangedByOthers([chain EXCEPT !.slots[pool] = @ + 1], {})
    /\ UNCHANGED count

\* Another session of the owner, or the owner of the authority it was given: it reads,
\* builds and sends a transaction at once.
OthersRequests ==
    UNION {{increaseLiquidity(p, chain.atas), initTickArrayForTicks(ArraysOf[p], chain.arrays),
            collectAllForPositionsTxns(<<p>>, SeenNow, chain.atas),
            getClosePositionIx(p, chain.positions[p].liquidity, Due(p), chain.slots[PoolOf[p]], chain.atas)}
           : p \in Positions}

OtherSession ==
    /\ count.others < MaxOthers
    /\ \E built \in OthersRequests :
          \E n \in DOMAIN built.txs :
              LET result == Run(chain, built.txs[n])
              IN  result.ok /\ ChangedByOthers(result.chain, result.paid)
    /\ count' = [count EXCEPT !.others = @ + 1]

Next ==
    \/ Refresh \/ Forget \/ CollectAll \/ OtherSession
    \/ \E p \in Positions :
          \/ CollectFeesOf(p) \/ CollectRewardsOf(p) \/ ClosePosition(p) \/ OpenPosition(p)
          \/ InitTickArrays(p) \/ IncreaseLiquidity(p) \/ DecreaseLiquidity(p)
    \/ \E pool \in Pools : SwapIn(pool) \/ Trade(pool) \/ Time(pool) \/ InitializeReward(pool)
    \/ \E n \in DOMAIN batch.txs : Send(n)

Spec == Init /\ [][Next]_vars

----------------------------------------------------------------------------
(* Properties                                                              *)

\* As long as nobody has changed the liquidity the client read, or made the token accounts
\* it found missing, every transaction it was given succeeds, in whatever order it sends
\* them, whatever trades are made meanwhile and however much time passes: each makes the
\* token accounts it uses, and updates only positions that can be updated.
BuiltTransactionsSucceed ==
    batch.sound /\ batch.kind # "close" => \A n \in Sendable : Run(chain, batch.txs[n]).ok

\* Once all transactions of a collection are sent, in whatever order, all that was due when
\* they were built has been paid: a position's update comes before what it makes due is
\* collected, in every transaction.
CollectedInFull ==
    batch.sound /\ batch.txs = <<>> => batch.due = {}

\* Closing a position that nothing happens to withdraws all it has and is due, and then
\* closes it, for rewards due without a gap.
ClosingSucceeds ==
    batch.kind = "close" /\ batch.sound /\ batch.inOrder =>
        \A n \in Sendable : Run(chain, batch.txs[n]).ok

\* The same for any rewards, as the client's documentation has it.
ClosingAlwaysSucceeds ==
    batch.kind = "close" /\ batch.sound => \A n \in Sendable : Run(chain, batch.txs[n]).ok

=============================================================================
