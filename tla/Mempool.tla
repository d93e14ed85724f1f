------------------------------ MODULE Mempool --------------------------------
(***************************************************************************)
(* node/src/mempool.ts with the admission of the chain engine around it,   *)
(* and the blocks that are picked from it.  A transaction is a record; its *)
(* gas and fees are small numbers.  maxFeePerGas is the cap, and the tip   *)
(* is added to the base fee up to the cap.                                 *)
(***************************************************************************)
EXTENDS Naturals, Integers, Sequences, SequencesExt, FiniteSets, FiniteSetsExt

CONSTANTS Txs,             \* [id, from, nonce, cap, tip, gas, value], id a number
          Senders,
          Balance,         \* balance of every sender at first
          BaseFees,        \* base fees that occur
          MinGasPrice, BlockGas, MaxTx,        \* limits of a block
          MaxSize, MaxPerSender, Batch, Bump,  \* MempoolConfig
          MaxHangs, MaxBlocks, MaxAdds         \* bounds

VARIABLES pool,      \* txs, in order of arrival (the order of the Map)
          byNonce,   \* transaction of a sender and nonce, 0 for none
          bySender,
          poisoned,  \* hashes that are never taken again
          calls,     \* transactions taken whose balance is being read
          used,      \* confirmed transactions (the nonce store)
          nonce, balance,   \* accounts of the chain
          plan,      \* the block that is being proposed
          blocks, adds, hangs      \* counters

chain == <<used, nonce, balance, blocks>>
vars == <<pool, byNonce, bySender, poisoned, calls, used, nonce, balance, plan, blocks, adds, hangs>>

Tx(id) == CHOOSE t \in Txs : t.id = id
Ids == {t.id : t \in Txs}
Nonces == {t.nonce : t \in Txs}
InPool(id) == id \in ToSet(pool)

Tables(p, n, s) == [pool |-> p, byNonce |-> n, bySender |-> s]
Empty == Tables(<<>>, [k \in Senders \X Nonces |-> 0], [s \in Senders |-> {}])
NoPlan == [stage |-> "none"]

Init ==
  /\ pool = Empty.pool /\ byNonce = Empty.byNonce /\ bySender = Empty.bySender
  /\ poisoned = {} /\ calls = {} /\ used = {}
  /\ nonce = [s \in Senders |-> 0] /\ balance = Balance
  /\ plan = NoPlan /\ blocks = 0 /\ adds = 0 /\ hangs = 0

Now == Tables(pool, byNonce, bySender)
Become(t) == pool' = t.pool /\ byNonce' = t.byNonce /\ bySender' = t.bySender

RemoveTx(t, id) ==
  IF id \notin ToSet(t.pool) THEN t
  ELSE Tables(SelectSeq(t.pool, LAMBDA i : i # id),
              [t.byNonce EXCEPT ![<<Tx(id).from, Tx(id).nonce>>] = 0],
              [t.bySender EXCEPT ![Tx(id).from] = @ \ {id}])

RemoveAll(t, ids) == FoldSet(LAMBDA id, acc : RemoveTx(acc, id), t, ids)

\* The cheapest of the pool, the oldest first; partialSelect finds them.
Cheaper(t, a, b) ==
  \/ Tx(a).cap < Tx(b).cap
  \/ Tx(a).cap = Tx(b).cap /\ \E i, j \in DOMAIN t.pool : i < j /\ t.pool[i] = a /\ t.pool[j] = b

EvictLowestFee(t) ==
  LET all == ToSet(t.pool)
      lowest == {a \in all : Cardinality({b \in all : Cheaper(t, b, a)}) < Batch}
  IN RemoveAll(t, lowest)

(***************************************************************************)
(* Admission: the pool takes the transaction, then the engine reads the    *)
(* balance and takes it out again when the sender cannot pay.              *)
(***************************************************************************)
Slot(tx) == <<tx.from, tx.nonce>>
MinPrice(old) == old.cap + (old.cap * Bump + 99) \div 100

MayReplace(tx) == \A old \in {byNonce[Slot(tx)]} \ {0} : tx.cap >= MinPrice(Tx(old))

Insert(tx) ==
  LET vacated == RemoveTx(Now, byNonce[Slot(tx)])
      roomy == IF Len(vacated.pool) >= MaxSize THEN EvictLowestFee(vacated) ELSE vacated
  IN Tables(Append(roomy.pool, tx.id), [roomy.byNonce EXCEPT ![Slot(tx)] = tx.id],
            [roomy.bySender EXCEPT ![tx.from] = @ \cup {tx.id}])

\* A replacement makes its own room, so only a new nonce can exceed the limit.
Admissible(tx) ==
  /\ tx.id \notin poisoned /\ MayReplace(tx)
  /\ byNonce[Slot(tx)] # 0 \/ Cardinality(bySender[tx.from]) < MaxPerSender

AddRawTx(tx) ==
  /\ adds < MaxAdds /\ adds' = adds + 1
  /\ tx.id \notin used /\ tx.nonce >= nonce[tx.from]
  /\ Admissible(tx)
  /\ Become(Insert(tx)) /\ calls' = calls \cup {tx}
  /\ UNCHANGED <<poisoned, chain, plan, hangs>>

CheckBalance(tx) ==
  /\ calls' = calls \ {tx}
  /\ Become(IF balance[tx.from] < tx.cap * tx.gas + tx.value THEN RemoveTx(Now, tx.id) ELSE Now)
  /\ UNCHANGED <<poisoned, chain, plan, adds, hangs>>

\* A finalized block hangs: its transactions are poisoned, the hashes are
\* appended to a file, and the process ends; the file is read at the start.
HungBlock(tx, written) ==
  /\ hangs < MaxHangs /\ hangs' = hangs + 1 /\ tx.nonce = nonce[tx.from]
  /\ poisoned' = IF written THEN poisoned \cup {tx.id} ELSE poisoned
  /\ Become(Empty) /\ calls' = {} /\ plan' = NoPlan
  /\ UNCHANGED <<chain, adds>>

(***************************************************************************)
(* pickForBlock: the pool by price, each transaction tried in turn; those  *)
(* whose nonce is ahead wait for their predecessor.                        *)
(***************************************************************************)
EffectivePrice(tx, base) == IF tx.tip > 0 THEN Min({tx.cap, base + tx.tip}) ELSE tx.cap

Before(base, a, b) ==
  LET x == Tx(a) y == Tx(b) px == EffectivePrice(x, base) py == EffectivePrice(y, base) IN
  px > py \/ (px = py /\ x.nonce < y.nonce)

Eligible(list, base) ==
  SelectSeq(list, LAMBDA i : Tx(i).cap >= base /\ EffectivePrice(Tx(i), base) >= MinGasPrice)

\* Ties are taken in the order of arrival: the sort is stable.
Sorted(all, base) ==
  LET list == Eligible(all, base)
      rank(i) == Cardinality({j \in DOMAIN list :
                   Before(base, list[j], list[i]) \/ (j <= i /\ ~Before(base, list[i], list[j]))})
  IN [n \in DOMAIN list |-> list[CHOOSE i \in DOMAIN list : rank(i) = n]]

Upfront(tx, base) == EffectivePrice(tx, base) * tx.gas + tx.value

\* The state of the loop; next is -1 for a sender whose nonce could not be read.
Start(base, next, funds) ==
  [base |-> base, next |-> next, funds |-> funds, picked |-> <<>>, gas |-> 0,
   spent |-> [s \in Senders |-> 0], waiting |-> [s \in Senders |-> {}], evicted |-> {}]

Full(s, tx) == Len(s.picked) >= MaxTx \/ s.gas + tx.gas > BlockGas
Affordable(s, tx) == s.spent[tx.from] + Upfront(tx, s.base) <= s.funds[tx.from]

Take(s, tx) ==
  [s EXCEPT !.picked = Append(@, tx.id), !.gas = @ + tx.gas,
            !.next[tx.from] = @ + 1, !.spent[tx.from] = @ + Upfront(tx, s.base)]

\* The queue of those that wait is ordered by nonce, hence a set here.
TryPickOne(s, tx) ==
  IF Full(s, tx) \/ s.next[tx.from] = -1 THEN s
  ELSE IF tx.nonce < s.next[tx.from] THEN [s EXCEPT !.evicted = @ \cup {tx.id}]
  ELSE IF tx.nonce > s.next[tx.from] THEN [s EXCEPT !.waiting[tx.from] = @ \cup {tx.id}]
  ELSE IF Affordable(s, tx) THEN Take(s, tx)
  ELSE IF s.funds[tx.from] < MinGasPrice * tx.gas THEN [s EXCEPT !.evicted = @ \cup {tx.id}]
  ELSE s


DrainDeferred(s, sender) ==
  LET step(acc, turn) ==
        LET ready == {i \in acc.waiting[sender] : Tx(i).nonce = acc.next[sender]} IN
        IF ready = {} THEN acc
        ELSE [TryPickOne(acc, Tx(Min(ready))) EXCEPT !.waiting[sender] = @ \ ready]
  IN FoldLeft(step, s, SetToSeq(s.waiting[sender]))

Visit(s, id) ==
  LET after == TryPickOne(s, Tx(id)) IN
  IF Len(after.picked) > Len(s.picked) THEN DrainDeferred(after, Tx(id).from) ELSE after

Pick(sorted, start) == FoldLeft(Visit, start, sorted)

(***************************************************************************)
(* A proposal reads the nonces, then the balances, and picks; a read that  *)
(* fails counts as an unknown nonce or as an empty balance.                *)
(***************************************************************************)
PickBegin(base, bad, old) ==
  /\ plan.stage = "none" /\ pool # <<>>
  /\ LET left == RemoveAll(Now, ToSet(SubSeq(pool, 1, old))) IN   \* evictExpired
     /\ Become(left)
     /\ plan' = [stage |-> "nonces", height |-> blocks, base |-> base, sorted |-> Sorted(left.pool, base),
                 next |-> [s \in Senders |-> IF s \in bad THEN -1 ELSE nonce[s]]]
  /\ UNCHANGED <<poisoned, calls, chain, adds, hangs>>

PickForBlock(bad) ==
  /\ plan.stage = "nonces"
  /\ LET end == Pick(plan.sorted, Start(plan.base, plan.next, [s \in Senders |-> IF s \in bad THEN 0 ELSE balance[s]])) IN
     /\ Become(RemoveAll(Now, end.evicted))
     /\ plan' = [stage |-> "picked", height |-> plan.height,
                 picked |-> end.picked, spent |-> end.spent]
  /\ UNCHANGED <<poisoned, calls, chain, adds, hangs>>

ProposeNextBlock(runs) ==
  /\ plan.stage = "picked" /\ blocks < MaxBlocks
  /\ plan' = NoPlan
  /\ Become(RemoveAll(Now, ToSet(plan.picked)))
  /\ blocks' = IF plan.height = blocks THEN blocks + 1 ELSE blocks
  /\ IF runs /\ plan.height = blocks
     THEN LET of(s) == {i \in ToSet(plan.picked) : Tx(i).from = s} IN
          /\ used' = used \cup ToSet(plan.picked)
          /\ nonce' = [s \in Senders |-> nonce[s] + Cardinality(of(s))]
          /\ balance' = [s \in Senders |-> balance[s] - plan.spent[s]]
     ELSE UNCHANGED <<used, nonce, balance>>
  /\ UNCHANGED <<poisoned, calls, adds, hangs>>

\* The proposal goes to the BFT coordinator instead, and is not applied here.
DeferApply ==
  /\ plan.stage = "picked" /\ plan' = NoPlan
  /\ UNCHANGED <<pool, byNonce, bySender, poisoned, calls, chain, adds, hangs>>

\* A block of another node, with a transaction that may never have been here.
ApplyOther(tx) ==
  /\ blocks < MaxBlocks /\ blocks' = blocks + 1
  /\ tx.nonce = nonce[tx.from] /\ balance[tx.from] >= tx.cap * tx.gas + tx.value
  /\ used' = used \cup {tx.id} /\ nonce' = [nonce EXCEPT ![tx.from] = @ + 1]
  /\ balance' = [balance EXCEPT ![tx.from] = @ - tx.cap * tx.gas - tx.value]
  /\ Become(RemoveTx(Now, tx.id))
  /\ UNCHANGED <<poisoned, calls, plan, adds, hangs>>

Unreadable == {{}} \cup {{s} : s \in Senders}

Next ==
  \/ \E tx \in Txs : AddRawTx(tx) \/ ApplyOther(tx) \/ \E written \in BOOLEAN : HungBlock(tx, written)
  \/ \E tx \in calls : CheckBalance(tx)
  \/ DeferApply
  \/ \E bad \in Unreadable :
       PickForBlock(bad) \/ \E base \in BaseFees, old \in {0, 1} : PickBegin(base, bad, old)
  \/ \E runs \in BOOLEAN : ProposeNextBlock(runs)

Spec == Init /\ [][Next]_vars
------------------------------------------------------------------------------
(***************************************************************************)
(* The three tables of the pool tell the same: one transaction per sender  *)
(* and nonce, the one that is indexed, within the limits of the            *)
(* configuration and none that was recorded as poisoned, through           *)
(* replacements, evictions, late removals and restarts.                    *)
(***************************************************************************)
PoolIsIndexed ==
  /\ \A k \in DOMAIN byNonce : byNonce[k] = 0 \/ (InPool(byNonce[k]) /\ Slot(Tx(byNonce[k])) = k)
  /\ \A i \in ToSet(pool) : byNonce[Slot(Tx(i))] = i /\ i \in bySender[Tx(i).from]
  /\ \A s \in Senders : bySender[s] \subseteq ToSet(pool) /\ Cardinality(bySender[s]) <= MaxPerSender
  /\ Len(pool) <= MaxSize /\ ToSet(pool) \cap poisoned = {}

(***************************************************************************)
(* What would be picked now can be executed in that order, and nothing     *)
(* that is ready is left out while there is room for it: the single pass   *)
(* over the prices, with the queue of those that wait for a predecessor,   *)
(* is as good as looking again after every pick.                           *)
(***************************************************************************)
PicksAllThatIsReady ==
  \A base \in BaseFees :
    LET end == Pick(Sorted(pool, base), Start(base, nonce, balance)) IN
    /\ \A i, j \in DOMAIN end.picked :
         LET a == Tx(end.picked[i]) b == Tx(end.picked[j]) IN
         i < j /\ a.from = b.from => a.nonce < b.nonce
    /\ \A s \in Senders : end.spent[s] <= balance[s]
    /\ end.gas <= BlockGas
    /\ \A i \in ToSet(Eligible(pool, base)) \ ToSet(end.picked) :
         \/ Tx(i).nonce # end.next[Tx(i).from]
         \/ Full(end, Tx(i)) \/ ~Affordable(end, Tx(i))
==============================================================================
