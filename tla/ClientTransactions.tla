------------------------- MODULE ClientTransactions -------------------------
(***************************************************************************)
(* The transactions the SDK builds for a wallet: which instructions, in    *)
(* which order and in how many transactions, from what the client has read *)
(* of the pools, the positions and the wallet's token accounts.            *)
(*                                                                         *)
(* A transaction is a sequence of instructions; an instruction is a record *)
(* with the accounts and arguments that decide whether it succeeds when    *)
(* the chain is not what the client has read.  The size of a transaction   *)
(* is the number of its instructions (Size), at most MaxTxSize.            *)
(*                                                                         *)
(* Every mint is one of the first token program, so every instruction is a *)
(* first version.                                                          *)
(***************************************************************************)
EXTENDS Integers, SequencesExt

CONSTANTS
    Pools,
    Mints,
    Native,         \* The mint of wrapped SOL, one of Mints.
    TokensOf,       \* Pool -> its two mints.
    RewardMintsOf,  \* Pool -> the mints of its reward slots, in the order they are taken.
    ArraysOf,       \* Position -> the tick arrays its range ends in.
    PoolOf,         \* Position -> its pool.
    MaxTxSize       \* Bound on the instructions of a transaction.

Positions == DOMAIN PoolOf
Nobody == "nobody"

----------------------------------------------------------------------------
\* What a position may be due: its fees, and the rewards of a slot.
Fee == <<"fee">>
Reward(i) == <<"reward", i>>
RewardMint(pool, i) == RewardMintsOf[pool][i + 1]

\* Token accounts: the associated account of a mint, and an account for wrapped SOL that
\* lives no longer than the k-th transaction it is made for.
Ata(mint) == <<"ata", mint>>
Wrapped(k) == <<"wrapped", k>>
MintOf(account) == IF account[1] = "wrapped" THEN Native ELSE account[2]

CreateAta(mint, idempotent) == [do |-> "createAta", mint |-> mint, idempotent |-> idempotent]
CreateWrapped(k) == [do |-> "createWrapped", account |-> Wrapped(k)]
Update(p) == [do |-> "update", position |-> p]
CollectFees(p, a, b) == [do |-> "collectFees", position |-> p, a |-> a, b |-> b]
CollectReward(p, i, vault, account) ==
    [do |-> "collectReward", position |-> p, index |-> i, vault |-> vault, account |-> account]
Increase(p, a, b) == [do |-> "increase", position |-> p, a |-> a, b |-> b]
Decrease(p, liquidity, a, b) ==
    [do |-> "decrease", position |-> p, liquidity |-> liquidity, a |-> a, b |-> b]
Open(p) == [do |-> "open", position |-> p]
Close(p) == [do |-> "close", position |-> p]
InitArray(array) == [do |-> "initTickArray", array |-> array]
Swap(pool, a, b) == [do |-> "swap", pool |-> pool, a |-> a, b |-> b]

\* An account for wrapped SOL is closed at the transaction's end by one more instruction.
Size(ixs) == Len(ixs) + Len(SelectSeq(ixs, LAMBDA ix : ix.do = "createWrapped"))

----------------------------------------------------------------------------
\* Which mints a client resolves for pools of which it has seen `slots' rewards taken.
getTokenMintsFromWhirlpools(pools, slots, mintTypes) ==
    (IF mintTypes = "REWARD_ONLY" THEN {}
        ELSE UNION {ToSet(TokensOf[pool]) : pool \in pools} \ {Native})
      \cup (IF mintTypes = "POOL_ONLY" THEN {}
              ELSE UNION {{RewardMint(pool, i) : i \in 0 .. slots[pool] - 1} : pool \in pools})

\* The account of a mint in the k-th transaction, and what makes it: nothing if it was
\* there when the client looked.
AccountIn(mint, k) == IF mint = Native THEN Wrapped(k) ELSE Ata(mint)
Resolve(mint, atas, k, idempotent) ==
    CASE mint = Native -> <<CreateWrapped(k)>>
      [] mint # Native /\ mint \in atas -> <<>>
      [] OTHER -> <<CreateAta(mint, idempotent)>>
ResolveEach(mints, touched, atas, k, idempotent) ==
    FlattenSeq([n \in DOMAIN mints |->
        IF mints[n] \in touched THEN <<>> ELSE Resolve(mints[n], atas, k, idempotent)])

----------------------------------------------------------------------------
(* Packing: tasks go one by one into the transaction at hand, and what does  *)
(* not fit any more starts a new one.  A transaction under way also says     *)
(* whose accounts it has resolved and which position it has updated.         *)

NewTransaction == [ixs |-> <<>>, touched |-> {}, updated |-> Nobody]

FreshTouched(full) == [NewTransaction EXCEPT !.touched = full.touched]
FreshUpdated(full) == [NewTransaction EXCEPT !.updated = full.updated]
Fresh(full) == NewTransaction

checkMergedTransactionSizeIsValid(tx) == Size(tx.ixs) <= MaxTxSize

\* extended(tx, task, k): the k-th transaction with the task added.  Throws when a task
\* does not fit a transaction of its own.
Pack(tasks, extended(_, _, _)) ==
    LET add(packed, task) ==
            LET k == Len(packed.full) + 1
                merged == extended(packed.pending, task, k)
                alone == extended(Fresh(packed.pending), task, k + 1)
            IN  CASE packed.throws -> packed
                  [] ~packed.throws /\ checkMergedTransactionSizeIsValid(merged) ->
                         [packed EXCEPT !.pending = merged]
                  [] ~packed.throws /\ ~checkMergedTransactionSizeIsValid(merged)
                         /\ checkMergedTransactionSizeIsValid(alone) ->
                         [packed EXCEPT !.full = Append(@, packed.pending.ixs), !.pending = alone]
                  [] OTHER -> [packed EXCEPT !.throws = TRUE]
        packed == FoldLeft(add, [full |-> <<>>, pending |-> NewTransaction, throws |-> FALSE], tasks)
    IN  [throws |-> packed.throws,
         txs |-> IF packed.throws \/ tasks = <<>> THEN <<>>
                 ELSE Append(packed.full, packed.pending.ixs)]

One(ixs) == [throws |-> FALSE, txs |-> <<ixs>>]
Throws == [throws |-> TRUE, txs |-> <<>>]

----------------------------------------------------------------------------
(* Collecting for several positions.  `seen' is what the client has cached:  *)
(* the slots taken of every pool and the liquidity of every position.        *)

CollectionTasks(positions, seen) ==
    FlattenSeq([n \in DOMAIN positions |->
        LET p == positions[n]
            slots == seen.slots[PoolOf[p]]
        IN  <<[position |-> p, item |-> Fee]>>
              \o [i \in 1 .. slots |-> [position |-> p, item |-> Reward(i - 1)]]])

MintsOfTask(task) ==
    IF task.item = Fee THEN TokensOf[PoolOf[task.position]]
    ELSE <<RewardMint(PoolOf[task.position], task.item[2])>>

CollectIx(task, k) ==
    LET mints == MintsOfTask(task)
    IN  IF task.item = Fee
        THEN CollectFees(task.position, AccountIn(mints[1], k), AccountIn(mints[2], k))
        ELSE CollectReward(task.position, task.item[2], task.item[2], AccountIn(mints[1], k))

constructCollectIxForPosition(task, tx, k, seen, atas) ==
    (IF seen.liquidity[task.position] # 0 /\ tx.updated # task.position
        THEN <<Update(task.position)>> ELSE <<>>)
      \o ResolveEach(MintsOfTask(task), tx.touched, atas, k, TRUE)
      \o <<CollectIx(task, k)>>

collectAllForPositionsTxns(positions, seen, atas) ==
    Pack(CollectionTasks(positions, seen),
         LAMBDA tx, task, k :
            [ixs |-> tx.ixs \o constructCollectIxForPosition(task, tx, k, seen, atas),
             touched |-> tx.touched \cup ToSet(MintsOfTask(task)),
             updated |-> task.position])

----------------------------------------------------------------------------
(* The other requests of several transactions hand their instructions to     *)
(* MultipleTransactionBuilderFactoryWithAccountResolver, together with the   *)
(* mints whose accounts an instruction uses.                                 *)

addInstructions(tasks, atas) ==
    Pack(tasks,
         LAMBDA tx, task, k :
            [ixs |-> tx.ixs \o ResolveEach(task.mints, tx.touched, atas, k, TRUE)
                       \o <<task.ix[k]>>,
             touched |-> tx.touched \cup ToSet(task.mints),
             updated |-> Nobody])

\* An instruction whose accounts depend on the transaction it lands in.  There are never
\* more transactions than tasks, and a request has at most MaxTasks of them.
MaxTasks == 8
Task(mints, ixIn(_)) == [mints |-> mints, ix |-> [k \in 1 .. MaxTasks |-> ixIn(k)]]

UpdateTask(p) == Task(<<>>, LAMBDA k : Update(p))

\* Stops at the first slot that is not wanted; the index counts the slots taken.
collectRewards(p, wanted, updateFeesAndRewards, liquidity, slots, atas) ==
    LET pool == PoolOf[p]
        unwanted == {i \in 0 .. slots - 1 : RewardMint(pool, i) \notin wanted}
        last == IF unwanted = {} THEN slots ELSE Min(unwanted)
        collect(i) == Task(<<RewardMint(pool, i)>>,
                           LAMBDA k : CollectReward(p, i, i, AccountIn(RewardMint(pool, i), k)))
    IN  addInstructions((IF updateFeesAndRewards /\ liquidity # 0 THEN <<UpdateTask(p)>> ELSE <<>>)
                            \o [i \in 1 .. last |-> collect(i - 1)], atas)

\* due: what the quotes say the position is due.  A reward to collect is found by its
\* place among those due, which is taken for its slot.
CloseTasks(p, liquidity, due, slots) ==
    LET pool == PoolOf[p]
        tokens == TokensOf[pool]
        rewardsToCollect == SelectSeq([i \in 1 .. slots |-> i - 1], LAMBDA i : Reward(i) \in due)
        collect(n) ==
            LET mint == RewardMint(pool, rewardsToCollect[n])
            IN  Task(<<mint>>, LAMBDA k : CollectReward(p, n - 1, n - 1, AccountIn(mint, k)))
    IN  [decrease |-> IF liquidity = 0 THEN <<>>
            ELSE <<Task(tokens, LAMBDA k : Decrease(p, liquidity, AccountIn(tokens[1], k),
                                                    AccountIn(tokens[2], k)))>>,
         fees |-> IF Fee \notin due THEN <<>>
            ELSE <<Task(tokens, LAMBDA k : CollectFees(p, AccountIn(tokens[1], k),
                                                       AccountIn(tokens[2], k)))>>,
         rewards |-> [n \in DOMAIN rewardsToCollect |-> collect(n)],
         close |-> <<Task(<<>>, LAMBDA k : Close(p))>>]

CloseOrderFeesFirst(tasks) == tasks.fees \o tasks.decrease \o tasks.rewards \o tasks.close
CloseOrder(tasks) == tasks.decrease \o tasks.fees \o tasks.rewards \o tasks.close

\* Which mints are resolved; an instruction with the account of another one throws.
CloseMintType(liquidity, due) ==
    LET ofPool == liquidity # 0 \/ Fee \in due
        ofRewards == due \ {Fee} # {}
    IN  CASE ofPool /\ ~ofRewards -> "POOL_ONLY"
          [] ~ofPool /\ ofRewards -> "REWARD_ONLY"
          [] OTHER -> "ALL"

getClosePositionIx(p, liquidity, due, slots, atas) ==
    LET pool == PoolOf[p]
        tasks == CloseOrder(CloseTasks(p, liquidity, due, slots))
        resolved == getTokenMintsFromWhirlpools({pool}, [q \in {pool} |-> slots],
                                                CloseMintType(liquidity, due)) \cup {Native}
    IN  IF \E n \in DOMAIN tasks : ~(ToSet(tasks[n].mints) \subseteq resolved) THEN Throws
        ELSE addInstructions(tasks, atas)

----------------------------------------------------------------------------
(* Requests of one transaction. *)

\* Both tokens' accounts, not created again if they are there, and an instruction.
WithTokens(before, pool, atas, idempotent, ix(_, _)) ==
    LET tokens == TokensOf[pool]
    IN  One(before \o ResolveEach(tokens, {}, atas, 1, idempotent)
               \o <<ix(AccountIn(tokens[1], 1), AccountIn(tokens[2], 1))>>)

increaseLiquidity(p, atas) ==
    WithTokens(<<>>, PoolOf[p], atas, FALSE, LAMBDA a, b : Increase(p, a, b))
decreaseLiquidity(p, liquidity, atas) ==
    WithTokens(<<>>, PoolOf[p], atas, FALSE, LAMBDA a, b : Decrease(p, liquidity, a, b))
getOpenPositionWithOptMetadataTx(p, atas) ==
    WithTokens(<<Open(p)>>, PoolOf[p], atas, FALSE, LAMBDA a, b : Increase(p, a, b))

\* With the arrays it has just looked up, or not at all.
swapAsync(pool, needed, arrays, atas) ==
    IF ~(needed \subseteq arrays) THEN Throws
    ELSE WithTokens(<<>>, pool, atas, TRUE, LAMBDA a, b : Swap(pool, a, b))

\* The accounts for wrapped SOL come last among the accounts, before the update.
resolveAtaForMints(mints, atas) == ResolveEach(mints, {}, atas, 1, FALSE)
collectFees(p, updateFeesAndRewards, liquidity, atas) ==
    LET tokens == TokensOf[PoolOf[p]]
        ofAtas == SelectSeq(tokens, LAMBDA mint : mint # Native)
    IN  One(resolveAtaForMints(ofAtas, atas)
              \o (IF Native \in ToSet(tokens) THEN <<CreateWrapped(1)>> ELSE <<>>)
              \o (IF updateFeesAndRewards /\ liquidity # 0 THEN <<Update(p)>> ELSE <<>>)
              \o <<CollectFees(p, AccountIn(tokens[1], 1), AccountIn(tokens[2], 1))>>)

\* No transaction if all are there.
initTickArrayForTicks(wanted, arrays) ==
    [throws |-> FALSE,
     txs |-> IF wanted \subseteq arrays THEN <<>>
             ELSE <<[n \in 1 .. Cardinality(wanted \ arrays) |->
                        InitArray(SetToSeq(wanted \ arrays)[n])]>>]

=============================================================================
