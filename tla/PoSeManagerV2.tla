---------------------------- MODULE PoSeManagerV2 ----------------------------
(***************************************************************************)
(* PoSeManagerV2.sol with PoSeManagerStorage.sol and EmissionSchedule.sol: *)
(* bonded nodes, batches of receipts that a witness quorum attests, commit *)
(* and reveal challenges that slash, and rewards per epoch.                *)
(*                                                                         *)
(* A transaction is one action; a call that reverts is no step.  A Merkle  *)
(* root is the set of its leaves, so a proof is membership.  Time runs in  *)
(* epochs.  Payments to outside accounts may fail; the code then credits   *)
(* the payee or reverts.  One format of witness signature stands for the   *)
(* three that are accepted.                                                *)
(***************************************************************************)
EXTENDS Integers, Sequences, Functions, FiniteSets, FiniteSetsExt, Totals

CONSTANTS
  Owner, Foundation,
  Accounts,        \* operators, aggregators and challengers; Owner, Foundation too
  NodeIds,
  EpochIds,        \* epochs that batches and rewards are about
  Draw(_, _),      \* the i-th hash drawn from a seed
  MinBond, MaxNodesPerOperator, ChallengeBond,
  DisputeWindow, RevealWindow, AdjudicationWindow, ClaimWindow,
  FinalizeBudget,  \* FINALIZE_BATCH_BUDGET
  AllowEmpty,      \* allowEmptyWitnessSubmission
  SupplyCap, EpochsPerYear, TargetNodes,   \* of EmissionSchedule
  MaxTime, MaxChallenges, MaxPool,         \* bounds of the model
  Workloads        \* bound: the inputs that one behaviour draws from, a set of records:
                   \*   register {<<account, node, endpoint>>}, seeds {seed},
                   \*   submit {<<account, epoch, root>>}, commit {<<account, leaf>>},
                   \*   insure {amount}, fund {amount}, genesis {epoch},
                   \*   reward {<<epoch, reward root, total>>}
                   \* a leaf is [epoch, node, code], a reward [node, amount]

Nobody == "nobody"

Leaf == [epoch : EpochIds, node : NodeIds, code : Nat]
Reward == [node : NodeIds, amount : Nat]

\* The inputs are about known accounts, nodes and epochs.
IsWorkload(w) ==
  /\ \A r \in w.register : r[1] \in Accounts /\ r[2] \in NodeIds
  /\ \A b \in w.submit : b[2] \in EpochIds
  /\ \A c \in w.commit : c[1] \in Accounts /\ c[2] \in Leaf
  /\ w.insure \subseteq Nat /\ w.fund \subseteq Nat
  /\ \A r \in w.reward : r[1] \in EpochIds /\ r[2] \subseteq Reward /\ r[3] \in Nat

ASSUME PoSeAssumption ==
  /\ IsFiniteSet(NodeIds) /\ IsFiniteSet(EpochIds) /\ IsFiniteSet(Accounts)
  /\ Foundation \in Accounts /\ Nobody \notin Accounts
  /\ ChallengeBond \in Nat /\ DisputeWindow \in Nat /\ RevealWindow \in Nat
  /\ ClaimWindow \in Nat /\ MaxTime \in Nat /\ MaxNodesPerOperator \in Nat
  /\ \A k \in 0 .. MaxNodesPerOperator - 1 : MinBond * 2^k \in Nat \ {0}
  /\ \A w \in Workloads : IsWorkload(w)

VARIABLES
  now,         \* the current epoch
  node,        \* [NodeIds -> [op, bond, active]]
  count,       \* operatorNodeCount
  active,      \* _activeNodeIds
  endpoints,   \* endpointCommitmentUsed
  epochs,      \* what the contract keeps per epoch
  sigUsed,     \* _witnessSigUsed
  challenges,  \* challenges in the order of _challengeCounter
  consumed,    \* consumedFaultEvidence: {<<epoch, root, leaf>>}
  slashed,     \* epochNodeSlashed
  money,       \* [pool, insurance, eth]; eth is the balance of the contract
  pending,     \* pendingWithdrawals
  token,       \* [enabled, genesis, minted, held]: emissionEnabled, genesisEpoch,
               \* totalMinted and balanceOf of this contract
  foundation,  \* foundationAddress is set
  workload,    \* the member of Workloads, fixed
  sunk         \* history: money of the contract that nobody can claim any more

vars == <<now, node, count, active, endpoints, epochs, sigUsed, challenges, consumed, slashed,
          money, pending, token, foundation, workload, sunk>>
nodeVars == <<node, count, active, endpoints>>
cash == <<money, pending, sunk>>
setup == <<token, foundation, workload>>
rest == <<sigUsed, setup>>

NewEpoch == [nonce |-> 0, batches |-> <<>>, cursor |-> 0, valid |-> 0, finalized |-> FALSE,
             at |-> 0, root |-> {}, total |-> 0, claimed |-> 0, claimers |-> {}, swept |-> FALSE]

Init ==
  /\ now = 0
  /\ node = [n \in NodeIds |-> [op |-> Nobody, bond |-> 0, active |-> FALSE]]
  /\ count = [a \in Accounts |-> 0]
  /\ active = <<>>
  /\ endpoints = {}
  /\ epochs = [e \in EpochIds |-> NewEpoch]
  /\ sigUsed = {}
  /\ challenges = <<>>
  /\ consumed = {}
  /\ slashed = [e \in EpochIds |-> [n \in NodeIds |-> 0]]
  /\ money = [pool |-> 0, insurance |-> 0, eth |-> 0]
  /\ pending = [a \in Accounts |-> 0]
  /\ token = [enabled |-> FALSE, genesis |-> 0, minted |-> 0, held |-> 0]
  /\ foundation = FALSE
  /\ workload \in Workloads
  /\ sunk = 0

Share(amount, bps) == (amount * bps) \div 10000

\* Pay out with whatever else happens to the pools: m is money after the rest of the
\* call.  A refused payment is credited.
PayOrCredit(m, to, amount) ==
  \/ /\ money' = [m EXCEPT !.eth = @ - amount]
     /\ UNCHANGED pending
  \/ /\ amount > 0
     /\ money' = m
     /\ pending' = [pending EXCEPT ![to] = @ + amount]
------------------------------------------------------------------------------
RequiredBond(n) == MinBond * 2^n

RegisterNode(a, n, endpoint) ==
  LET bond == RequiredBond(count[a]) IN
  /\ count[a] < MaxNodesPerOperator
  /\ ~node[n].active
  /\ endpoint \notin endpoints
  /\ endpoints' = endpoints \cup {endpoint}
  /\ node' = [node EXCEPT ![n] = [op |-> a, bond |-> bond, active |-> TRUE]]
  /\ count' = [count EXCEPT ![a] = @ + 1]
  /\ active' = Append(active, n)
  /\ money' = [money EXCEPT !.eth = @ + bond]
  /\ UNCHANGED <<now, epochs, challenges, consumed, slashed, pending, sunk, rest>>

\* The last node takes the place of the one that leaves.
RemoveActiveNode(s, n) ==
  LET i == CHOOSE i \in DOMAIN s : s[i] = n
  IN  SubSeq([s EXCEPT ![i] = s[Len(s)]], 1, Len(s) - 1)

InitEpochNonce(e, seed) ==
  /\ epochs[e].nonce = 0
  /\ epochs' = [epochs EXCEPT ![e].nonce = seed]
  /\ UNCHANGED <<now, nodeVars, challenges, consumed, slashed, cash, rest>>

Sqrt(n) == CHOOSE m \in 0 .. n : m * m >= n /\ \A k \in 0 .. m - 1 : k * k < n

\* The square root of the active nodes, rounded up, drawn with the seed of the epoch;
\* a node drawn again is skipped, and after three draws per node the set stays short.
WitnessSet(e) ==
  LET size == Len(active)
      m == Min({Sqrt(size), 32})
      drawn(i) == active[(Draw(epochs[e].nonce, i - 1) % size) + 1]
      ws[i \in 0 .. 3 * size] ==
        IF i = 0 THEN <<>>
        ELSE LET sofar == ws[i - 1]
             IN  IF Len(sofar) = m \/ drawn(i) \in Range(sofar) THEN sofar
                 ELSE Append(sofar, drawn(i))
  IN  ws[3 * size]

Required(m) == (2 * m + 2) \div 3

\* The replay keys: who attested which receipt from which place in the witness set.
Attestations(e, ws, att, root) == {<<e, ws[i], att[i], i>> : i \in DOMAIN att}

\* att: the receipt that each witness of the bitmap attests.
ValidWitnessQuorum(a, e, root, ws, att) ==
  LET bits == DOMAIN att IN
  IF bits = {} THEN a = Owner /\ (ws = <<>> \/ AllowEmpty)
  ELSE /\ Cardinality(bits) >= Required(Len(ws))
       /\ \A i, j \in bits : node[ws[i]].op = node[ws[j]].op => i = j
       /\ Attestations(e, ws, att, root) \cap sigUsed = {}

SubmitBatch(a, e, root) ==
  /\ e <= now
  /\ ~epochs[e].finalized
  /\ \A i \in DOMAIN epochs[e].batches : epochs[e].batches[i].root # root
  /\ LET ws == WitnessSet(e) IN
     \E bits \in SUBSET DOMAIN ws : \E att \in [bits -> root] :
       /\ ValidWitnessQuorum(a, e, root, ws, att)
       /\ sigUsed' = sigUsed \cup Attestations(e, ws, att, root)
       /\ epochs' = [epochs EXCEPT ![e].batches =
            Append(@, [root |-> root, deadline |-> now + DisputeWindow, finalized |-> FALSE,
                       by |-> {<<ws[i], att[i], i>> : i \in bits}])]
  /\ UNCHANGED <<now, nodeVars, challenges, consumed, slashed, cash, setup>>
------------------------------------------------------------------------------
\* The commit binds a leaf; a leaf with code 0 shows no fault.
OpenChallenge(a, leaf) ==
  /\ Len(challenges) < MaxChallenges
  /\ challenges' = Append(challenges,
       [by |-> a, leaf |-> leaf, bond |-> ChallengeBond, deadline |-> now + RevealWindow,
        revealed |-> FALSE, settled |-> FALSE])
  /\ money' = [money EXCEPT !.eth = @ + ChallengeBond]
  /\ UNCHANGED <<now, nodeVars, epochs, consumed, slashed, pending, sunk, rest>>

\* The fault type is determined by the code of the leaf.
MayReveal(c, e, batch) ==
  /\ ~c.revealed
  /\ now <= c.deadline
  /\ now <= batch.deadline
  /\ c.leaf \in batch.root
  /\ c.leaf.epoch = e
  /\ c.leaf.code # 0
  /\ <<e, batch.root, c.leaf>> \notin consumed

RevealChallenge(i, e, batch) ==
  /\ MayReveal(challenges[i], e, batch)
  /\ challenges' = [challenges EXCEPT ![i].revealed = TRUE]
  /\ consumed' = consumed \cup {<<e, batch.root, challenges[i].leaf>>}
  /\ UNCHANGED <<now, nodeVars, epochs, slashed, cash, rest>>

\* Past the reveal deadline the bond goes to the insurance.
SettleUnrevealed(i) ==
  /\ ~challenges[i].settled /\ ~challenges[i].revealed
  /\ now > challenges[i].deadline
  /\ challenges' = [challenges EXCEPT ![i].settled = TRUE]
  /\ money' = [money EXCEPT !.insurance = @ + challenges[i].bond]
  /\ UNCHANGED <<now, nodeVars, epochs, consumed, slashed, pending, sunk, rest>>

\* A plausible slip: the cap is taken of the bond for every challenge anew.
SlashAmountEach(n, e) == Share(node[n].bond, 500)

\* Five per cent of the bond, less what the node lost for the same epoch.
SlashAmount(n, e) == Max({Share(node[n].bond, 500) - slashed[e][n], 0})

\* Of what is cut from the bond half is burnt and three tenths go to the challenger, who
\* also has the bond back; the insurance has the rest.
ApplySlash(c, cut) ==
  LET n == c.leaf.node
      burnt == Share(cut, 5000)
      reward == Share(cut, 3000)
      left == node[n].bond - cut
  IN
  /\ PayOrCredit([money EXCEPT !.insurance = @ + cut - burnt - reward], c.by, c.bond + reward)
  /\ node' = [node EXCEPT ![n].bond = left, ![n].active = left > 0]
  /\ active' = IF left > 0 THEN active ELSE RemoveActiveNode(active, n)
  /\ slashed' = [slashed EXCEPT ![c.leaf.epoch][n] = @ + cut]
  /\ sunk' = sunk + burnt

\* A challenge whose node is gone forfeits the bond.
SettleRevealed(i) ==
  LET c == challenges[i]
      n == c.leaf.node
  IN
  /\ ~c.settled /\ c.revealed
  /\ now >= c.deadline + AdjudicationWindow
  /\ challenges' = [challenges EXCEPT ![i].settled = TRUE]
  /\ IF node[n].active /\ node[n].bond > 0
     THEN ApplySlash(c, SlashAmount(n, c.leaf.epoch))
     ELSE /\ money' = [money EXCEPT !.insurance = @ + c.bond]
          /\ UNCHANGED <<pending, node, active, slashed, sunk>>
  /\ UNCHANGED <<now, count, endpoints, epochs, consumed, rest>>
------------------------------------------------------------------------------
\* A page of the batches from the cursor on: those whose window is over are final,
\* the others are passed over for good.
ProcessBatches(s, max) ==
  LET end == Min({s.cursor + max, Len(s.batches)})
      Elapsed(i) == i \in s.cursor + 1 .. end /\ now > s.batches[i].deadline
  IN  [s EXCEPT !.batches = [i \in DOMAIN @ |-> IF Elapsed(i) THEN [@[i] EXCEPT !.finalized = TRUE]
                                                ELSE @[i]],
                !.valid = @ + Cardinality({i \in DOMAIN s.batches : Elapsed(i)}),
                !.cursor = end]

\* Anyone may call it.
ProcessEpochBatches(e, max) ==
  /\ ~epochs[e].finalized
  /\ now > e + DisputeWindow
  /\ epochs' = [epochs EXCEPT ![e] = ProcessBatches(@, max)]
  /\ UNCHANGED <<now, nodeVars, challenges, consumed, slashed, cash, rest>>

AnnualRate(year) == IF year = 0 THEN 500 ELSE IF year = 1 THEN 400 ELSE IF year = 2 THEN 300
                    ELSE IF year = 3 THEN 250 ELSE 200

\* getEpochEmission: scaled down while there are few nodes, and cut at the cap.
EpochEmission(e, minted, size) ==
  LET base == (SupplyCap * AnnualRate(e \div EpochsPerYear)) \div (10000 * EpochsPerYear)
      scaled == IF size < TargetNodes THEN (base * size) \div TargetNodes ELSE base
  IN  IF minted >= SupplyCap THEN 0 ELSE Min({scaled, SupplyCap - minted})

FinalizeEpoch(e, root, total) ==
  LET s == ProcessBatches(epochs[e], FinalizeBudget)
      mint == IF token.enabled THEN EpochEmission(Max({e - token.genesis, 0}), token.minted, Len(active)) ELSE 0
  IN
  /\ ~epochs[e].finalized
  /\ now > e + DisputeWindow
  /\ total > 0 => root # {}
  /\ total <= money.pool
  /\ s.cursor = Len(s.batches)
  /\ token.minted + mint <= SupplyCap
  /\ epochs' = [epochs EXCEPT ![e] =
       [s EXCEPT !.finalized = TRUE, !.at = now, !.root = root, !.total = total]]
  /\ token' = [token EXCEPT !.minted = @ + mint, !.held = @ + mint]
  /\ money' = [money EXCEPT !.pool = @ - total]
  /\ UNCHANGED <<now, nodeVars, sigUsed, challenges, consumed, slashed, pending, foundation,
                 workload, sunk>>
------------------------------------------------------------------------------
MayClaim(s, r) ==
  /\ s.finalized
  /\ r.amount > 0
  /\ r.node \notin s.claimers
  /\ now <= s.at + ClaimWindow
  /\ r \in s.root
  /\ s.claimed + r.amount <= s.total

\* The reward goes to the operator; if the payment fails the call reverts.
Claim(e, r) ==
  /\ MayClaim(epochs[e], r)
  /\ node[r.node].op # Nobody
  /\ epochs' = [epochs EXCEPT ![e].claimed = @ + r.amount, ![e].claimers = @ \cup {r.node}]
  /\ money' = [money EXCEPT !.eth = @ - r.amount]
  /\ UNCHANGED <<now, nodeVars, challenges, consumed, slashed, pending, sunk, rest>>

\* After the claim window, once: a tenth to the foundation, the rest burnt in tokens.
SweepExpiredRewards(e) ==
  LET s == epochs[e]
      unclaimed == s.total - s.claimed
      tithe == IF foundation THEN Share(unclaimed, 1000) ELSE 0
      toBurn == IF token.enabled THEN unclaimed - Share(unclaimed, 1000) ELSE 0
  IN
  /\ s.finalized /\ ~s.swept
  /\ now > s.at + ClaimWindow
  /\ toBurn <= token.held
  /\ epochs' = [epochs EXCEPT ![e].swept = TRUE]
  /\ PayOrCredit(money, Foundation, tithe)
  /\ token' = [token EXCEPT !.held = @ - toBurn]
  /\ sunk' = sunk + unclaimed - tithe
  /\ UNCHANGED <<now, nodeVars, sigUsed, challenges, consumed, slashed, foundation, workload>>
------------------------------------------------------------------------------
WithdrawPayments(a) ==
  /\ pending[a] > 0
  /\ pending' = [pending EXCEPT ![a] = 0]
  /\ money' = [money EXCEPT !.eth = @ - pending[a]]
  /\ UNCHANGED <<now, nodeVars, epochs, challenges, consumed, slashed, sunk, rest>>

DepositRewardPool(v) ==
  /\ money.pool + v <= MaxPool
  /\ money' = [money EXCEPT !.pool = @ + v, !.eth = @ + v]
  /\ UNCHANGED <<now, nodeVars, epochs, challenges, consumed, slashed, pending, sunk, rest>>

DepositInsurance(v) ==
  /\ money.insurance + v <= MaxPool
  /\ money' = [money EXCEPT !.insurance = @ + v, !.eth = @ + v]
  /\ UNCHANGED <<now, nodeVars, epochs, challenges, consumed, slashed, pending, sunk, rest>>

EnableEmission(e) ==
  /\ ~token.enabled
  /\ token' = [token EXCEPT !.enabled = TRUE, !.genesis = e]
  /\ UNCHANGED <<now, nodeVars, epochs, sigUsed, challenges, consumed, slashed, cash, foundation,
                 workload>>

SetFoundationAddress ==
  /\ ~foundation
  /\ foundation' = TRUE
  /\ UNCHANGED <<now, nodeVars, epochs, sigUsed, challenges, consumed, slashed, cash, token,
                 workload>>

Tick ==
  /\ now < MaxTime
  /\ now' = now + 1
  /\ UNCHANGED <<nodeVars, epochs, challenges, consumed, slashed, cash, rest>>

Next ==
  \/ \E r \in workload.register : RegisterNode(r[1], r[2], r[3])
  \/ \E e \in EpochIds, seed \in workload.seeds : InitEpochNonce(e, seed)
  \/ \E b \in workload.submit : SubmitBatch(b[1], b[2], b[3])
  \/ \E c \in workload.commit : OpenChallenge(c[1], c[2])
  \/ \E i \in DOMAIN challenges, e \in EpochIds :
       \E batch \in Range(epochs[e].batches) : RevealChallenge(i, e, batch)
  \/ \E i \in DOMAIN challenges : SettleUnrevealed(i) \/ SettleRevealed(i)
  \/ \E e \in EpochIds : ProcessEpochBatches(e, 1)
  \/ \E r \in workload.reward : FinalizeEpoch(r[1], r[2], r[3])
  \/ \E e \in EpochIds : \E r \in epochs[e].root : Claim(e, r)
  \/ \E e \in EpochIds : SweepExpiredRewards(e)
  \/ \E a \in Accounts : WithdrawPayments(a)
  \/ \E v \in workload.fund : DepositRewardPool(v)
  \/ \E v \in workload.insure : DepositInsurance(v)
  \/ \E e \in workload.genesis : EnableEmission(e) \/ SetFoundationAddress
  \/ Tick

Spec == Init /\ [][Next]_vars
------------------------------------------------------------------------------
\* What is owed, row by row: the bonds of nodes, of challenges that are open, and the
\* rewards that can still be claimed; and what a node has lost, epoch by epoch.
Bonds == [n \in NodeIds |-> node[n].bond]
OpenBonds == [i \in DOMAIN challenges |-> IF challenges[i].settled THEN 0 ELSE challenges[i].bond]
Claimable == [e \in EpochIds |-> IF epochs[e].swept THEN 0 ELSE epochs[e].total - epochs[e].claimed]
Lost(n) == [e \in EpochIds |-> slashed[e][n]]

TypeOK ==
  /\ now \in 0 .. MaxTime
  /\ node \in [NodeIds -> [op : Accounts \cup {Nobody}, bond : Nat, active : BOOLEAN]]
  /\ active \in Seq(NodeIds)
  /\ \A n \in NodeIds : node[n].active <=> n \in Range(active)
  /\ \A i, j \in DOMAIN active : active[i] = active[j] => i = j
  /\ money \in [pool : Nat, insurance : Nat, eth : Nat]
  /\ pending \in [Accounts -> Nat]

\* Every unit the contract holds has one owner: the bonds of nodes and of open
\* challenges, the two pools, the rewards that can still be claimed, credited
\* payments, and what was burnt or swept.  So no call, whichever payments fail, pays
\* out money that belongs to someone else, and the balance covers every claim, even
\* if a reward root promises more than finalization took out of the pool.  No amount
\* falls below zero.
Conserved ==
  /\ TypeOK
  /\ \A e \in EpochIds : epochs[e].claimed <= epochs[e].total
  /\ money.eth = money.pool + money.insurance + sunk
       + Total(Bonds) + Total(OpenBonds) + Total(Claimable) + Total(pending)

\* However many challenges hit a node for one epoch, it loses at most five per cent
\* of the bond it registered with (settleChallenge, SLASH_EPOCH_CAP_BPS).
SlashCapHolds ==
  \A n \in NodeIds, e \in EpochIds :
    slashed[e][n] <= Share(node[n].bond + Total(Lost(n)), 500)

\* "The same signature cannot be re-used across batches in an epoch": no attestation
\* of a receipt counts towards the quorum of two batches.
AttestationsCountOnce ==
  \A e \in EpochIds : \A i, j \in DOMAIN epochs[e].batches :
    i # j => epochs[e].batches[i].by \cap epochs[e].batches[j].by = {}

\* The contract holds what it owes, slashes within the cap and counts an attestation once.
SettlementIsSound == Conserved /\ SlashCapHolds /\ AttestationsCountOnce

\* Finalization is the end of the dispute: no evidence is accepted any more against a
\* batch that was counted, although the two compare the deadline in different calls.
SparesFinalBatches ==
  \A e \in EpochIds : \A i \in DOMAIN epochs[e].batches :
    epochs[e].batches[i].finalized =>
      \A k \in consumed' \ consumed : <<k[1], k[2]>> # <<e, epochs[e].batches[i].root>>
FinalBatchesAreSafe == [][SparesFinalBatches]_vars

\* A challenger whose fault proof against a registered node was accepted gets the
\* bond back at settlement, whatever other challenges did to the node in between.
RefundsProven ==
  \A i \in DOMAIN challenges :
    LET c == challenges[i] IN
    c.revealed /\ ~c.settled /\ challenges'[i].settled /\ node[c.leaf.node].op # Nobody =>
      (money.eth - money'.eth) + (pending'[c.by] - pending[c.by]) >= c.bond
ProvenChallengesAreRefunded == [][RefundsProven]_vars
==============================================================================
