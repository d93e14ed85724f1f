--------------------------- MODULE PoSeEpochProofs ---------------------------
(***************************************************************************)
(* The accounts, nodes, challenges and epochs of PoSeManagerV2.sol: the    *)
(* two parts of the invariant that speak of no sums, what each transaction *)
(* does to them, and the two theorems they carry: no evidence is accepted  *)
(* against a final batch, and who proved a fault is refunded.              *)
(***************************************************************************)
EXTENDS PoSeManagerV2, SequenceTheorems, TLAPS

\* The entries of the tables.
NodeRec == [op : Accounts \cup {Nobody}, bond : Nat, active : BOOLEAN]
Challenge == [by : Accounts, leaf : Leaf, bond : Nat, deadline : Nat, revealed : BOOLEAN,
              settled : BOOLEAN]

\* A record of these fields, a sequence of something: all that the proofs need to know of
\* the values that the witness draw makes.
IsEpoch(s) ==
  s = [nonce |-> s.nonce, batches |-> s.batches, cursor |-> s.cursor, valid |-> s.valid,
       finalized |-> s.finalized, at |-> s.at, root |-> s.root, total |-> s.total,
       claimed |-> s.claimed, claimers |-> s.claimers, swept |-> s.swept]
IsBatch(b) ==
  b = [root |-> b.root, deadline |-> b.deadline, finalized |-> b.finalized, by |-> b.by]
IsSeq(s) == s \in Seq(Range(s))

\* What the contract keeps of the accounts, nodes and challenges.  A registered node has a
\* bond: a slash is never all of it.
TypeInv ==
  /\ now \in 0 .. MaxTime
  /\ node \in [NodeIds -> NodeRec]
  /\ \A n \in NodeIds : node[n].active <=> node[n].bond > 0
  /\ \A n \in NodeIds : node[n].op # Nobody => node[n].active
  /\ count \in [Accounts -> Nat]
  /\ active \in Seq(NodeIds)
  /\ \A n \in NodeIds : node[n].active <=> \E i \in DOMAIN active : active[i] = n
  /\ \A i, j \in DOMAIN active : active[i] = active[j] => i = j
  /\ challenges \in Seq(Challenge)
  /\ slashed \in [EpochIds -> [NodeIds -> Nat]]
  /\ money \in [pool : Nat, insurance : Nat, eth : Int]
  /\ pending \in [Accounts -> Nat]
  /\ sunk \in Nat
  /\ workload \in Workloads

\* The rewards of an epoch at time t: none before it is final, none swept before the claim
\* window is over.
RewardsOK(s, t) ==
  /\ IsEpoch(s)
  /\ s.finalized \in BOOLEAN /\ s.swept \in BOOLEAN
  /\ s.total \in Nat /\ s.claimed \in Nat /\ s.at \in Nat
  /\ s.claimed <= s.total
  /\ s.root \subseteq Reward
  /\ ~s.finalized => s.total = 0 /\ ~s.swept
  /\ s.swept => t > s.at + ClaimWindow

\* The batches of epoch e at time t: every attestation is among the used ones, no two
\* batches share a root or an attestation, and a final batch is past its deadline.
BatchesOK(e, bs, t, used) ==
  /\ IsSeq(bs)
  /\ \A i \in DOMAIN bs :
       /\ IsBatch(bs[i]) /\ bs[i].deadline \in Nat
       /\ bs[i].finalized => t > bs[i].deadline
       /\ \A w, a, k : <<w, a, k>> \in bs[i].by => <<e, w, a, k>> \in used
  /\ \A i, j \in DOMAIN bs :
       i # j => bs[i].root # bs[j].root /\ bs[i].by \cap bs[j].by = {}

\* What the contract keeps of the epochs.
EpochInv ==
  /\ epochs = [e \in EpochIds |-> epochs[e]]
  /\ \A e \in EpochIds : RewardsOK(epochs[e], now)
  /\ \A e \in EpochIds : BatchesOK(e, epochs[e].batches, now, sigUsed)

------------------------------------------------------------------------------
\* What an epoch's rewards still owe.
Due(s) == IF s.swept THEN 0 ELSE s.total - s.claimed

\* What the proofs use of the constants, the bonds apart.
LEMMA Setting ==
  /\ IsFiniteSet(NodeIds) /\ IsFiniteSet(EpochIds) /\ IsFiniteSet(Accounts)
  /\ Foundation \in Accounts
  /\ ChallengeBond \in Nat /\ DisputeWindow \in Nat /\ RevealWindow \in Nat
  /\ ClaimWindow \in Nat /\ MaxTime \in Nat /\ MaxNodesPerOperator \in Nat
  /\ \A w \in Workloads : IsWorkload(w)
BY PoSeAssumption, Zenon

\* A challenge that is settled is a challenge.
LEMMA SettledType ==
  ASSUME TypeInv, NEW i \in DOMAIN challenges,
         challenges' = [challenges EXCEPT ![i].settled = TRUE]
  PROVE  challenges[i].bond \in Nat /\ challenges' \in Seq(Challenge)
<1>1. /\ challenges \in Seq(Challenge) /\ challenges[i] \in Challenge
      /\ challenges'[i] = [challenges[i] EXCEPT !.settled = TRUE]
  BY DEF TypeInv
<1>2. challenges'[i] \in Challenge /\ challenges[i].bond \in Nat
  BY <1>1, Zenon DEF Challenge
<1>3. challenges' = [challenges EXCEPT ![i] = challenges'[i]]
  BY <1>1, Zenon
<1> QED BY <1>1, <1>2, <1>3

------------------------------------------------------------------------------
\* The part of the state that TypeInv is about.
typed == <<now, node, count, active, challenges, slashed, money, pending, sunk, workload>>

\* What a well typed state says of time, of money and of the transactions to come.
LEMMA Basics ==
  ASSUME TypeInv
  PROVE  /\ now \in Nat /\ IsWorkload(workload) /\ sunk \in Nat
         /\ money \in [pool : Nat, insurance : Nat, eth : Int]
         /\ money.pool \in Nat /\ money.insurance \in Nat /\ money.eth \in Int
<1>1. /\ now \in 0 .. MaxTime /\ workload \in Workloads /\ sunk \in Nat
      /\ money \in [pool : Nat, insurance : Nat, eth : Int]
  BY Zenon DEF TypeInv
<1>2. now \in Nat
  BY <1>1, Setting
<1>3. IsWorkload(workload)
  BY <1>1, Setting, Zenon
<1>4. money.pool \in Nat /\ money.insurance \in Nat /\ money.eth \in Int
  BY <1>1, Zenon
<1> QED BY <1>1, <1>2, <1>3, <1>4, Zenon

\* A payment, made or credited.
Paid(eth, to, amount) ==
  \/ money'.eth = eth - amount /\ pending' = pending
  \/ money'.eth = eth /\ pending' = [pending EXCEPT ![to] = pending[to] + amount]

\* A payment keeps the accounts.
LEMMA PayTypes ==
  ASSUME TypeInv, NEW m \in [pool : Nat, insurance : Nat, eth : Int], NEW to \in Accounts,
         NEW amount \in Nat, PayOrCredit(m, to, amount)
  PROVE  /\ money' \in [pool : Nat, insurance : Nat, eth : Int]
         /\ pending' \in [Accounts -> Nat]
         /\ money'.pool = m.pool /\ money'.insurance = m.insurance
         /\ Paid(m.eth, to, amount)
<1>1. CASE money' = [m EXCEPT !.eth = @ - amount] /\ UNCHANGED pending
  <2> DEFINE left == m.eth - amount
  <2>1. left \in Int /\ money' = [m EXCEPT !.eth = left]
    BY <1>1
  <2> HIDE DEF left
  <2> QED BY <1>1, <2>1, Zenon DEF TypeInv, Paid, left
<1>2. CASE money' = m /\ pending' = [pending EXCEPT ![to] = @ + amount]
  <2>1. PICK v : v = pending[to] + amount
    BY Zenon
  <2>2. pending' = [pending EXCEPT ![to] = v] /\ v \in Nat
    BY <1>2, <2>1 DEF TypeInv
  <2>3. pending' \in [Accounts -> Nat]
    BY <2>2, Zenon DEF TypeInv
  <2> QED BY <1>2, <2>1, <2>2, <2>3, Zenon DEF Paid
<1> QED BY <1>1, <1>2, Zenon DEF PayOrCredit

\* A registration brings a bond and a node that was not active.
LEMMA RegisterTypes ==
  ASSUME TypeInv, NEW a \in Accounts, NEW n \in NodeIds, NEW p, RegisterNode(a, n, p)
  PROVE  TypeInv'
<1> DEFINE bond == RequiredBond(count[a])
           w == [op |-> a, bond |-> bond, active |-> TRUE]
<1>1. bond \in Nat \ {0}
  <2>1. count[a] \in 0 .. MaxNodesPerOperator - 1
    <3>1. count[a] < MaxNodesPerOperator
      BY Zenon DEF RegisterNode
    <3>2. count[a] \in Nat
      BY Zenon DEF TypeInv
    <3> QED BY <3>1, <3>2, Setting
  <2> QED BY <2>1, PoSeAssumption, Zenon DEF RequiredBond
<1>2. /\ node' = [node EXCEPT ![n] = w] /\ ~node[n].active
      /\ count' = [count EXCEPT ![a] = @ + 1]
      /\ active' = Append(active, n)
      /\ money' = [money EXCEPT !.eth = @ + bond]
      /\ UNCHANGED <<now, challenges, slashed, pending, sunk, workload>>
  BY Zenon DEF RegisterNode, rest, setup
<1> HIDE DEF bond
<1>3. w \in NodeRec /\ w.active /\ w.bond > 0
  BY <1>1 DEF NodeRec
<1> HIDE DEF w
<1>4. node' \in [NodeIds -> NodeRec] /\ count' \in [Accounts -> Nat]
  BY <1>2, <1>3 DEF TypeInv
<1>5. \A x \in NodeIds : /\ node'[x].active <=> node'[x].bond > 0
                         /\ node'[x].op # Nobody => node'[x].active
  BY <1>2, <1>3, Zenon DEF TypeInv
<1>6. /\ active' \in Seq(NodeIds)
      /\ DOMAIN active' = DOMAIN active \cup {Len(active) + 1}
      /\ Len(active) + 1 \notin DOMAIN active
      /\ \A i \in DOMAIN active : active'[i] = active[i]
      /\ active'[Len(active) + 1] = n
  BY <1>2 DEF TypeInv
<1>7. \A i \in DOMAIN active : active[i] # n
  BY <1>2, Zenon DEF TypeInv
<1>8. \A i, j \in DOMAIN active' : active'[i] = active'[j] => i = j
  BY <1>6, <1>7, Zenon DEF TypeInv
<1>9. ASSUME NEW x \in NodeIds
      PROVE  node'[x].active <=> \E i \in DOMAIN active' : active'[i] = x
  <2>1. CASE x = n
    BY <1>2, <1>3, <1>6, <2>1 DEF TypeInv
  <2>2. CASE x # n
    <3>1. node'[x] = node[x]
      BY <1>2, <2>2, Zenon DEF TypeInv
    <3>2. (\E i \in DOMAIN active' : active'[i] = x) <=> \E i \in DOMAIN active : active[i] = x
      BY <1>6, <2>2, Zenon
    <3> QED BY <3>1, <3>2, Zenon DEF TypeInv
  <2> QED BY <2>1, <2>2, Zenon
<1>10. money' \in [pool : Nat, insurance : Nat, eth : Int]
  <2>1. money \in [pool : Nat, insurance : Nat, eth : Int] /\ money.eth + bond \in Int
    BY <1>1 DEF TypeInv
  <2> QED BY <1>2, <2>1, Zenon
<1> QED BY <1>2, <1>4, <1>5, <1>6, <1>8, <1>9, <1>10, Zenon DEF TypeInv

\* What a slash takes is less than the bond.
LEMMA SlashLeavesBond ==
  ASSUME TypeInv, NEW n \in NodeIds, NEW e \in EpochIds, node[n].active
  PROVE  /\ SlashAmount(n, e) \in Nat
         /\ SlashAmount(n, e) < node[n].bond
         /\ slashed[e][n] + SlashAmount(n, e) <= Share(node[n].bond, 500)
              \/ SlashAmount(n, e) = 0
<1> DEFINE b == node[n].bond
           cap == Share(b, 500)
           old == slashed[e][n]
<1>1. b \in Nat \ {0} /\ old \in Nat
  BY DEF TypeInv, NodeRec
<1>2. cap \in Nat /\ cap < b
  <2> HIDE DEF b
  <2> QED BY <1>1 DEF Share
<1> HIDE DEF b, cap, old
<1>3. SlashAmount(n, e) = Max({cap - old, 0})
  BY Zenon DEF SlashAmount, b, cap, old
<1>4. Max({cap - old, 0}) = IF cap - old >= 0 THEN cap - old ELSE 0
  BY <1>1, <1>2 DEF Max
<1>5. /\ SlashAmount(n, e) \in Nat /\ SlashAmount(n, e) < b
      /\ old + SlashAmount(n, e) <= cap \/ SlashAmount(n, e) = 0
  BY <1>1, <1>2, <1>3, <1>4
<1> QED BY <1>5, Zenon DEF b, cap, old

\* The challenge names an account, a node and an epoch.
LEMMA ChallengeTypes ==
  ASSUME TypeInv, NEW i \in DOMAIN challenges
  PROVE  /\ challenges[i] \in Challenge
         /\ challenges[i].by \in Accounts /\ challenges[i].bond \in Nat
         /\ challenges[i].leaf.node \in NodeIds /\ challenges[i].leaf.epoch \in EpochIds
<1>1. challenges[i] \in Challenge
  BY DEF TypeInv
<1>2. challenges[i].leaf \in Leaf
  BY <1>1, Zenon DEF Challenge
<1> QED BY <1>1, <1>2, Zenon DEF Challenge, Leaf

\* The slash that settling challenge i makes: cut from the bond, of which burnt is sunk,
\* reward goes to the challenger with the bond, and the insurance has the rest.
Slashes(i, cut, burnt, reward, w) ==
  LET c == challenges[i]
      n == c.leaf.node
  IN
  /\ node[n].active
  /\ cut = SlashAmount(n, c.leaf.epoch)
  /\ burnt + reward <= cut
  /\ w \in NodeRec /\ w.op = node[n].op /\ w.bond = node[n].bond - cut /\ w.bond > 0 /\ w.active
  /\ node' = [node EXCEPT ![n] = w]
  /\ active' = active
  /\ slashed' = [slashed EXCEPT ![c.leaf.epoch][n] = @ + cut]
  /\ PayOrCredit([money EXCEPT !.insurance = @ + cut - burnt - reward], c.by, c.bond + reward)
  /\ sunk' = sunk + burnt

\* settleChallenge forfeits the bond when the node is gone, and slashes otherwise; the node
\* stays in the active set.
LEMMA SettleEffect ==
  ASSUME TypeInv, NEW i \in DOMAIN challenges, SettleRevealed(i)
  PROVE  \/ /\ ~node[challenges[i].leaf.node].active
            /\ money' = [money EXCEPT !.insurance = @ + challenges[i].bond]
            /\ UNCHANGED <<pending, node, active, slashed, sunk>>
         \/ \E cut, burnt, reward \in Nat : \E w : Slashes(i, cut, burnt, reward, w)
<1> DEFINE c == challenges[i]
           n == c.leaf.node
           e == c.leaf.epoch
<1>1. n \in NodeIds /\ e \in EpochIds /\ node[n] \in NodeRec
  BY ChallengeTypes, Zenon DEF TypeInv
<1>2. CASE ~node[n].active
  BY <1>2, Zenon DEF SettleRevealed
<1>3. CASE node[n].active
  <2> DEFINE cut == SlashAmount(n, e)
             burnt == Share(cut, 5000)
             reward == Share(cut, 3000)
             left == node[n].bond - cut
             w == [node[n] EXCEPT !.bond = left, !.active = TRUE]
  <2>1. cut \in Nat /\ cut < node[n].bond /\ cut = SlashAmount(n, e)
    BY <1>1, <1>3, SlashLeavesBond, Zenon
  <2>2. node[n].bond \in Nat /\ node[n].bond > 0
    BY <1>1, <1>3 DEF TypeInv, NodeRec
  <2>3. /\ PayOrCredit([money EXCEPT !.insurance = @ + cut - burnt - reward], c.by, c.bond + reward)
        /\ node' = [node EXCEPT ![n].bond = left, ![n].active = left > 0]
        /\ active' = IF left > 0 THEN active ELSE RemoveActiveNode(active, n)
        /\ slashed' = [slashed EXCEPT ![e][n] = @ + cut]
        /\ sunk' = sunk + burnt
    <3>1. node[n].active /\ node[n].bond > 0
      BY <1>3, <2>2, Zenon
    <3>2. ApplySlash(c, cut)
      BY <3>1 DEF SettleRevealed
    <3> QED BY <3>2 DEF ApplySlash
  <2> HIDE DEF cut, n, e
  <2>4. burnt \in Nat /\ reward \in Nat /\ burnt + reward <= cut
    BY <2>1 DEF Share
  <2>5. left \in Nat /\ left > 0
    BY <2>1, <2>2
  <2> HIDE DEF left, burnt, reward
  <2>6. w \in NodeRec /\ w.op = node[n].op /\ w.bond = left /\ w.active
    BY <1>1, <2>5, Zenon DEF NodeRec
  <2>7. active' = active /\ node' = [node EXCEPT ![n] = w]
    <3>1. (left > 0) = TRUE
      BY <2>5, Zenon
    <3> QED BY <2>3, <2>5, <3>1, Zenon
  <2> HIDE DEF w
  <2>8. Slashes(i, cut, burnt, reward, w)
    BY <1>3, <2>3, <2>4, <2>5, <2>6, <2>7, <2>1, Zenon DEF Slashes, left, n, e
  <2> QED BY <2>1, <2>4, <2>8, Zenon
<1> QED BY <1>2, <1>3, Zenon

\* A slash keeps the registered nodes registered and bonded.
LEMMA SlashTypes ==
  ASSUME TypeInv, NEW i \in DOMAIN challenges, NEW cut \in Nat, NEW burnt \in Nat,
         NEW reward \in Nat, NEW w, Slashes(i, cut, burnt, reward, w)
  PROVE  /\ node' \in [NodeIds -> NodeRec] /\ active' = active
         /\ \A n \in NodeIds : /\ node'[n].active = node[n].active /\ node'[n].op = node[n].op
                               /\ node'[n].active <=> node'[n].bond > 0
         /\ slashed' \in [EpochIds -> [NodeIds -> Nat]]
         /\ money' \in [pool : Nat, insurance : Nat, eth : Int]
         /\ money'.pool = money.pool
         /\ money'.insurance = money.insurance + cut - burnt - reward
         /\ pending' \in [Accounts -> Nat]
         /\ Paid(money.eth, challenges[i].by, challenges[i].bond + reward)
         /\ sunk' \in Nat
<1> DEFINE c == challenges[i]
           n == c.leaf.node
           e == c.leaf.epoch
           insured == money.insurance + cut - burnt - reward
           m == [money EXCEPT !.insurance = insured]
           amount == c.bond + reward
<1>1. n \in NodeIds /\ e \in EpochIds /\ c.by \in Accounts /\ c.bond \in Nat
  BY ChallengeTypes, Zenon
<1>2. /\ node[n].active /\ burnt + reward <= cut
      /\ w \in NodeRec /\ w.op = node[n].op /\ w.bond > 0 /\ w.active
      /\ node' = [node EXCEPT ![n] = w] /\ active' = active
      /\ slashed' = [slashed EXCEPT ![e][n] = @ + cut]
      /\ PayOrCredit(m, c.by, amount)
      /\ sunk' = sunk + burnt
  BY Zenon DEF Slashes
<1>3. amount \in Nat /\ insured \in Nat
  <2>1. money.insurance \in Nat /\ burnt + reward <= cut
    BY <1>2, Zenon DEF TypeInv
  <2> QED BY <1>1, <2>1
<1>4. /\ m \in [pool : Nat, insurance : Nat, eth : Int]
      /\ m.pool = money.pool /\ m.eth = money.eth /\ m.insurance = insured
  <2> HIDE DEF insured
  <2> QED BY <1>3, Zenon DEF TypeInv
<1> HIDE DEF m, amount, insured
<1>5. /\ money' \in [pool : Nat, insurance : Nat, eth : Int]
      /\ pending' \in [Accounts -> Nat]
      /\ money'.pool = m.pool /\ money'.insurance = m.insurance
      /\ Paid(m.eth, c.by, amount)
  <2> HIDE DEF c
  <2> QED BY <1>1, <1>2, <1>3, <1>4, PayTypes, Zenon
<1>6. slashed' \in [EpochIds -> [NodeIds -> Nat]]
  <2>1. slashed \in [EpochIds -> [NodeIds -> Nat]]
    BY Zenon DEF TypeInv
  <2> DEFINE row == [slashed[e] EXCEPT ![n] = slashed[e][n] + cut]
  <2>2. row \in [NodeIds -> Nat]
    BY <1>1, <2>1
  <2>3. slashed' = [slashed EXCEPT ![e] = row]
    BY <1>2, Zenon
  <2> HIDE DEF row
  <2> QED BY <1>1, <2>1, <2>2, <2>3, Zenon
<1>7. /\ node' \in [NodeIds -> NodeRec]
      /\ \A x \in NodeIds : /\ node'[x].active = node[x].active /\ node'[x].op = node[x].op
                            /\ node'[x].active <=> node'[x].bond > 0
  <2> HIDE DEF n, e
  <2>1. node \in [NodeIds -> NodeRec] /\ \A x \in NodeIds : node[x].active <=> node[x].bond > 0
    BY Zenon DEF TypeInv
  <2>2. node[n].active = TRUE /\ w.active = TRUE
    BY <1>1, <1>2, <2>1, Zenon DEF NodeRec
  <2> QED BY <1>1, <1>2, <2>1, <2>2, Zenon
<1>8. sunk' \in Nat
  BY <1>2 DEF TypeInv
<1> QED BY <1>2, <1>4, <1>5, <1>6, <1>7, <1>8, Zenon DEF amount, insured

\* The other transactions that move money do so in one or two fields.
LEMMA MoneyTypes ==
  ASSUME TypeInv, NEW m \in [pool : Nat, insurance : Nat, eth : Int], NEW s \in Nat,
         NEW q \in [Accounts -> Nat], NEW cs \in Seq(Challenge), NEW t \in 0 .. MaxTime,
         money' = m, sunk' = s, pending' = q, challenges' = cs, now' = t,
         UNCHANGED <<node, count, active, slashed, workload>>
  PROVE  TypeInv'
BY Zenon DEF TypeInv

\* A settled or revealed challenge is a challenge.
LEMMA MarkedChallenge ==
  ASSUME TypeInv, NEW i \in DOMAIN challenges, NEW c \in Challenge
  PROVE  [challenges EXCEPT ![i] = c] \in Seq(Challenge)
BY DEF TypeInv

\* Every transaction keeps what the contract keeps of accounts, nodes and challenges.
LEMMA StepType ==
  ASSUME TypeInv, EpochInv, [Next]_vars
  PROVE  TypeInv'
<1>1. ASSUME UNCHANGED typed PROVE TypeInv'
  BY <1>1, Zenon DEF TypeInv, typed
<1>2. /\ money \in [pool : Nat, insurance : Nat, eth : Int] /\ sunk \in Nat
      /\ pending \in [Accounts -> Nat] /\ challenges \in Seq(Challenge)
      /\ now \in 0 .. MaxTime /\ IsWorkload(workload)
      /\ money.pool \in Nat /\ money.insurance \in Nat /\ money.eth \in Int
  BY Basics, Zenon DEF TypeInv
<1>3. ASSUME NEW r \in workload.register, RegisterNode(r[1], r[2], r[3]) PROVE TypeInv'
  BY <1>2, <1>3, RegisterTypes, Zenon DEF IsWorkload
<1>4. ASSUME NEW x \in workload.commit, OpenChallenge(x[1], x[2]) PROVE TypeInv'
  <2> DEFINE c == [by |-> x[1], leaf |-> x[2], bond |-> ChallengeBond,
                   deadline |-> now + RevealWindow, revealed |-> FALSE, settled |-> FALSE]
             paid == money.eth + ChallengeBond
  <2>1. c \in Challenge
    <3>1. x[1] \in Accounts /\ x[2] \in Leaf
      BY <1>2, Zenon DEF IsWorkload
    <3>2. now + RevealWindow \in Nat /\ ChallengeBond \in Nat
      BY <1>2, Setting
    <3> QED BY <3>1, <3>2, Zenon DEF Challenge
  <2>2. /\ challenges' = Append(challenges, c) /\ money' = [money EXCEPT !.eth = paid]
        /\ UNCHANGED <<now, node, count, active, slashed, pending, sunk, workload>>
    BY <1>4, Zenon DEF OpenChallenge, nodeVars, rest, setup
  <2>3. paid \in Int
    BY <1>2, Setting
  <2> HIDE DEF c, paid
  <2>4. Append(challenges, c) \in Seq(Challenge) /\ [money EXCEPT !.eth = paid] \in [pool : Nat, insurance : Nat, eth : Int]
    BY <1>2, <2>1, <2>3
  <2> QED BY <1>2, <2>2, <2>4, MoneyTypes, Zenon
<1>5. ASSUME NEW i \in DOMAIN challenges, NEW e, NEW b, RevealChallenge(i, e, b) PROVE TypeInv'
  <2> DEFINE c == [challenges[i] EXCEPT !.revealed = TRUE]
  <2>1. c \in Challenge
    BY ChallengeTypes, Zenon DEF Challenge
  <2>2. /\ challenges' = [challenges EXCEPT ![i] = c]
        /\ UNCHANGED <<now, node, count, active, slashed, money, pending, sunk, workload>>
    BY <1>5, Zenon DEF RevealChallenge, nodeVars, cash, rest, setup
  <2> HIDE DEF c
  <2>3. [challenges EXCEPT ![i] = c] \in Seq(Challenge)
    BY <2>1, MarkedChallenge, Zenon
  <2> QED BY <1>2, <2>2, <2>3, MoneyTypes, Zenon
<1>6. ASSUME NEW i \in DOMAIN challenges, SettleUnrevealed(i) PROVE TypeInv'
  <2> DEFINE insured == money.insurance + challenges[i].bond
  <2>1. /\ challenges' = [challenges EXCEPT ![i].settled = TRUE] /\ ~challenges[i].settled
        /\ money' = [money EXCEPT !.insurance = insured]
        /\ UNCHANGED <<now, node, count, active, slashed, pending, sunk, workload>>
    BY <1>6, Zenon DEF SettleUnrevealed, nodeVars, rest, setup
  <2>2. challenges' \in Seq(Challenge) /\ insured \in Nat
    <3>1. challenges' \in Seq(Challenge) /\ challenges[i].bond \in Nat
      BY <2>1, SettledType, Zenon
    <3> QED BY <1>2, <3>1
  <2> HIDE DEF insured
  <2>3. [money EXCEPT !.insurance = insured] \in [pool : Nat, insurance : Nat, eth : Int]
    BY <1>2, <2>2, Zenon
  <2> QED BY <1>2, <2>1, <2>2, <2>3, MoneyTypes, Zenon
<1>7. ASSUME NEW i \in DOMAIN challenges, SettleRevealed(i) PROVE TypeInv'
  <2>1. /\ challenges' = [challenges EXCEPT ![i].settled = TRUE] /\ ~challenges[i].settled
        /\ UNCHANGED <<now, count, workload>>
    BY <1>7, Zenon DEF SettleRevealed, rest, setup
  <2>2. challenges' \in Seq(Challenge) /\ challenges[i].bond \in Nat
    BY <2>1, SettledType, Zenon
  <2>3. CASE /\ money' = [money EXCEPT !.insurance = @ + challenges[i].bond]
             /\ UNCHANGED <<pending, node, active, slashed, sunk>>
    <3> DEFINE insured == money.insurance + challenges[i].bond
    <3>1. insured \in Nat /\ money' = [money EXCEPT !.insurance = insured]
      BY <1>2, <2>2, <2>3
    <3> HIDE DEF insured
    <3>2. [money EXCEPT !.insurance = insured] \in [pool : Nat, insurance : Nat, eth : Int]
      BY <1>2, <3>1, Zenon
    <3> QED BY <1>2, <2>1, <2>2, <2>3, <3>1, <3>2, MoneyTypes, Zenon
  <2>4. ASSUME NEW cut \in Nat, NEW burnt \in Nat, NEW reward \in Nat, NEW w,
               Slashes(i, cut, burnt, reward, w)
        PROVE  TypeInv'
    <3>1. /\ node' \in [NodeIds -> NodeRec] /\ active' = active
          /\ \A n \in NodeIds : /\ node'[n].active = node[n].active /\ node'[n].op = node[n].op
                                /\ node'[n].active <=> node'[n].bond > 0
          /\ slashed' \in [EpochIds -> [NodeIds -> Nat]]
          /\ money' \in [pool : Nat, insurance : Nat, eth : Int]
          /\ pending' \in [Accounts -> Nat] /\ sunk' \in Nat
      BY <2>4, SlashTypes, Zenon
    <3> QED BY <2>1, <2>2, <3>1, Zenon DEF TypeInv
  <2> QED BY <1>7, <2>3, <2>4, SettleEffect, Zenon
<1>8. ASSUME NEW e, NEW root, NEW total \in Nat, FinalizeEpoch(e, root, total) PROVE TypeInv'
  <2> DEFINE left == money.pool - total
  <2>1. /\ total <= money.pool /\ money' = [money EXCEPT !.pool = left]
        /\ UNCHANGED <<now, node, count, active, slashed, challenges, pending, sunk, workload>>
    BY <1>8, Zenon DEF FinalizeEpoch, nodeVars
  <2>2. left \in Nat
    BY <1>2, <2>1
  <2> HIDE DEF left
  <2>3. [money EXCEPT !.pool = left] \in [pool : Nat, insurance : Nat, eth : Int]
    BY <1>2, <2>2, Zenon
  <2> QED BY <1>2, <2>1, <2>3, MoneyTypes, Zenon
<1>9. ASSUME NEW e \in EpochIds, NEW r \in epochs[e].root, Claim(e, r) PROVE TypeInv'
  <2> DEFINE left == money.eth - r.amount
  <2>1. /\ money' = [money EXCEPT !.eth = left]
        /\ UNCHANGED <<now, node, count, active, slashed, challenges, pending, sunk, workload>>
    BY <1>9, Zenon DEF Claim, nodeVars, rest, setup
  <2>2. left \in Int
    BY <1>2 DEF EpochInv, RewardsOK, Reward
  <2> HIDE DEF left
  <2>3. [money EXCEPT !.eth = left] \in [pool : Nat, insurance : Nat, eth : Int]
    BY <1>2, <2>2, Zenon
  <2> QED BY <1>2, <2>1, <2>3, MoneyTypes, Zenon
<1>10. ASSUME NEW e \in EpochIds, SweepExpiredRewards(e) PROVE TypeInv'
  <2> DEFINE unclaimed == epochs[e].total - epochs[e].claimed
             tithe == IF foundation THEN Share(unclaimed, 1000) ELSE 0
  <2>1. unclaimed \in Nat
    BY DEF EpochInv, RewardsOK
  <2>2. tithe \in Nat /\ tithe <= unclaimed
    <3> HIDE DEF unclaimed
    <3> QED BY <2>1 DEF Share
  <2>3. /\ PayOrCredit(money, Foundation, tithe) /\ sunk' = sunk + unclaimed - tithe
        /\ UNCHANGED <<now, node, count, active, slashed, challenges, workload>>
    BY <1>10, Zenon DEF SweepExpiredRewards, nodeVars
  <2> HIDE DEF unclaimed, tithe
  <2>4. money' \in [pool : Nat, insurance : Nat, eth : Int] /\ pending' \in [Accounts -> Nat]
    BY <1>2, <2>2, <2>3, PayTypes, Setting
  <2>5. sunk + unclaimed - tithe \in Nat
    BY <1>2, <2>1, <2>2
  <2> QED BY <1>2, <2>3, <2>4, <2>5, MoneyTypes, Zenon
<1>11. ASSUME NEW a \in Accounts, WithdrawPayments(a) PROVE TypeInv'
  <2> DEFINE left == money.eth - pending[a]
  <2>1. /\ money' = [money EXCEPT !.eth = left] /\ pending' = [pending EXCEPT ![a] = 0]
        /\ UNCHANGED <<now, node, count, active, slashed, challenges, sunk, workload>>
    BY <1>11, Zenon DEF WithdrawPayments, nodeVars, rest, setup
  <2>2. left \in Int /\ [pending EXCEPT ![a] = 0] \in [Accounts -> Nat]
    BY <1>2
  <2> HIDE DEF left
  <2>3. [money EXCEPT !.eth = left] \in [pool : Nat, insurance : Nat, eth : Int]
    BY <1>2, <2>2, Zenon
  <2> QED BY <1>2, <2>1, <2>2, <2>3, MoneyTypes, Zenon
<1>12. ASSUME NEW v \in Nat, DepositRewardPool(v) \/ DepositInsurance(v) PROVE TypeInv'
  <2> DEFINE pool == money.pool + v
             insured == money.insurance + v
             paid == money.eth + v
  <2>1. /\ \/ money' = [money EXCEPT !.pool = pool, !.eth = paid]
           \/ money' = [money EXCEPT !.insurance = insured, !.eth = paid]
        /\ UNCHANGED <<now, node, count, active, slashed, challenges, pending, sunk, workload>>
    BY <1>12, Zenon DEF DepositRewardPool, DepositInsurance, nodeVars, rest, setup
  <2>2. pool \in Nat /\ insured \in Nat /\ paid \in Int
    BY <1>2
  <2> HIDE DEF pool, insured, paid
  <2>3. money' \in [pool : Nat, insurance : Nat, eth : Int]
    BY <1>2, <2>1, <2>2, Zenon
  <2> QED BY <1>2, <2>1, <2>3, MoneyTypes, Zenon
<1>13. CASE Tick
  <2>1. now' \in 0 .. MaxTime
        /\ UNCHANGED <<node, count, active, slashed, challenges, money, pending, sunk, workload>>
    BY <1>2, <1>13, Setting DEF Tick, nodeVars, cash, rest, setup
  <2> QED BY <1>2, <2>1, MoneyTypes, Zenon
<1>14. ASSUME NEW x, NEW y, InitEpochNonce(x, y) \/ ProcessEpochBatches(x, y) \/ EnableEmission(x)
                               \/ SetFoundationAddress \/ UNCHANGED vars
       PROVE  TypeInv'
  <2>1. UNCHANGED typed
    BY <1>14, Zenon DEF InitEpochNonce, ProcessEpochBatches, EnableEmission, SetFoundationAddress, vars,
                 typed, nodeVars, cash, rest, setup
  <2> QED BY <1>1, <2>1, Zenon
<1>15. ASSUME NEW a, NEW e, NEW root, SubmitBatch(a, e, root) PROVE TypeInv'
  <2>1. UNCHANGED typed
    BY <1>15, Zenon DEF SubmitBatch, typed, nodeVars, cash, setup
  <2> QED BY <1>1, <2>1, Zenon
<1>16. /\ workload.insure \subseteq Nat /\ workload.fund \subseteq Nat
       /\ \A r \in workload.reward : r[3] \in Nat
  BY <1>2, Zenon DEF IsWorkload
<1> QED
  BY <1>3, <1>4, <1>5, <1>6, <1>7, <1>8, <1>9, <1>10, <1>11, <1>12, <1>13, <1>14, <1>15, <1>16, Zenon
     DEF Next
------------------------------------------------------------------------------
\* What holds of an epoch holds of it later.
LEMMA EpochLasts ==
  ASSUME NEW e, NEW s, NEW t \in Nat, NEW u \in Nat, t <= u, NEW used, NEW more, used \subseteq more,
         RewardsOK(s, t), BatchesOK(e, s.batches, t, used)
  PROVE  RewardsOK(s, u) /\ BatchesOK(e, s.batches, u, more)
<1>1. RewardsOK(s, u)
  BY Setting DEF RewardsOK
<1>2. BatchesOK(e, s.batches, u, more)
  BY DEF BatchesOK
<1> QED BY <1>1, <1>2, Zenon

\* A step that replaces one epoch.
LEMMA EpochChanges ==
  ASSUME EpochInv, now \in Nat, now' \in Nat, now <= now', sigUsed \subseteq sigUsed',
         NEW e \in EpochIds, NEW s, epochs' = [epochs EXCEPT ![e] = s],
         RewardsOK(s, now'), BatchesOK(e, s.batches, now', sigUsed')
  PROVE  EpochInv'
<1>1. epochs' = [x \in EpochIds |-> IF x = e THEN s ELSE epochs[x]]
  BY Zenon DEF EpochInv
<1>2. epochs' = [x \in EpochIds |-> epochs'[x]]
  BY <1>1, Zenon
<1>3. ASSUME NEW x \in EpochIds
      PROVE  RewardsOK(epochs'[x], now') /\ BatchesOK(x, epochs'[x].batches, now', sigUsed')
  <2>1. CASE x = e
    BY <1>1, <2>1, Zenon
  <2>2. CASE x # e
    <3>1. epochs'[x] = epochs[x]
      BY <1>1, <2>2, Zenon
    <3>2. RewardsOK(epochs[x], now) /\ BatchesOK(x, epochs[x].batches, now, sigUsed)
      BY Zenon DEF EpochInv
    <3> QED BY <3>1, <3>2, EpochLasts, Zenon
  <2> QED BY <2>1, <2>2, Zenon
<1> QED BY <1>2, <1>3, Zenon DEF EpochInv

\* A step that leaves the epochs alone.
LEMMA EpochsStay ==
  ASSUME EpochInv, now \in Nat, now' \in Nat, now <= now', sigUsed' = sigUsed, epochs' = epochs
  PROVE  EpochInv'
<1>1. ASSUME NEW x \in EpochIds
      PROVE  RewardsOK(epochs[x], now') /\ BatchesOK(x, epochs[x].batches, now', sigUsed)
  <2>1. RewardsOK(epochs[x], now) /\ BatchesOK(x, epochs[x].batches, now, sigUsed)
    BY Zenon DEF EpochInv
  <2> QED BY <2>1, EpochLasts, Zenon
<1> QED BY <1>1, Zenon DEF EpochInv

\* Appending to a sequence.
LEMMA AppendIsSeq ==
  ASSUME NEW s, IsSeq(s), NEW x
  PROVE  /\ IsSeq(Append(s, x))
         /\ Len(s) + 1 \notin DOMAIN s
         /\ DOMAIN Append(s, x) = DOMAIN s \cup {Len(s) + 1}
         /\ \A i \in DOMAIN s : Append(s, x)[i] = s[i]
         /\ Append(s, x)[Len(s) + 1] = x
<1> DEFINE S == Range(s) \cup {x}
           t == Append(s, x)
<1>1. s \in Seq(S) /\ x \in S
  BY DEF IsSeq
<1> HIDE DEF S
<1>2. /\ t \in Seq(S)
      /\ Len(s) + 1 \notin DOMAIN s
      /\ DOMAIN t = DOMAIN s \cup {Len(s) + 1}
      /\ \A i \in DOMAIN s : t[i] = s[i]
      /\ t[Len(s) + 1] = x
  BY <1>1
<1> HIDE DEF t
<1>3. t \in Seq(Range(t))
  <2>3. Len(t) \in Nat /\ t \in [1 .. Len(t) -> S] /\ DOMAIN t = 1 .. Len(t)
    BY <1>2, LenProperties, Zenon
  <2>1. Len(t) \in Nat /\ DOMAIN t = 1 .. Len(t) /\ t = [i \in 1 .. Len(t) |-> t[i]]
    BY <2>3, Zenon
  <2>2. \A i \in 1 .. Len(t) : t[i] \in Range(t)
    BY <2>1, Zenon DEF Range
  <2> QED BY <2>1, <2>2
<1> QED BY <1>2, <1>3, Zenon DEF IsSeq, t

\* Mapping a sequence.
LEMMA MapIsSeq ==
  ASSUME NEW s, IsSeq(s), NEW t, t = [i \in DOMAIN s |-> t[i]]
  PROVE  IsSeq(t) /\ DOMAIN t = DOMAIN s
<1>1. DOMAIN s = 1 .. Len(s) /\ Len(s) \in Nat
  BY DEF IsSeq
<1>2. t = [i \in 1 .. Len(s) |-> t[i]] /\ DOMAIN t = 1 .. Len(s)
  BY <1>1, Zenon
<1>3. \A i \in 1 .. Len(s) : t[i] \in Range(t)
  BY <1>2, Zenon DEF Range
<1> QED BY <1>1, <1>2, <1>3 DEF IsSeq

\* A page of batches changes nothing but which of the batches past their deadline are final.
LEMMA ProcessKeeps ==
  ASSUME NEW e, NEW s, NEW max, RewardsOK(s, now), BatchesOK(e, s.batches, now, sigUsed)
  PROVE  /\ RewardsOK(ProcessBatches(s, max), now)
         /\ BatchesOK(e, ProcessBatches(s, max).batches, now, sigUsed)
         /\ ProcessBatches(s, max).finalized = s.finalized
         /\ ProcessBatches(s, max).total = s.total
         /\ ProcessBatches(s, max).claimed = s.claimed
         /\ ProcessBatches(s, max).swept = s.swept
<1> DEFINE end == Min({s.cursor + max, Len(s.batches)})
           Elapsed(i) == i \in s.cursor + 1 .. end /\ now > s.batches[i].deadline
           bs == s.batches
           b2 == [i \in DOMAIN bs |-> IF Elapsed(i) THEN [bs[i] EXCEPT !.finalized = TRUE] ELSE bs[i]]
           v2 == s.valid + Cardinality({i \in DOMAIN s.batches : Elapsed(i)})
           t == ProcessBatches(s, max)
<1>1. t = [s EXCEPT !.batches = b2, !.valid = v2, !.cursor = end]
  BY Zenon DEF ProcessBatches
<1>2. \A i \in DOMAIN bs : b2[i] = bs[i] \/ (now > bs[i].deadline /\ b2[i] = [bs[i] EXCEPT !.finalized = TRUE])
  BY Zenon
<1>3. b2 = [i \in DOMAIN bs |-> b2[i]]
  BY Zenon
<1> HIDE DEF b2, v2, end, t
<1>4. s = [nonce |-> s.nonce, batches |-> s.batches, cursor |-> s.cursor, valid |-> s.valid,
           finalized |-> s.finalized, at |-> s.at, root |-> s.root, total |-> s.total,
           claimed |-> s.claimed, claimers |-> s.claimers, swept |-> s.swept]
  BY Zenon DEF RewardsOK, IsEpoch
<1>5. t = [nonce |-> s.nonce, batches |-> b2, cursor |-> end, valid |-> v2,
           finalized |-> s.finalized, at |-> s.at, root |-> s.root, total |-> s.total,
           claimed |-> s.claimed, claimers |-> s.claimers, swept |-> s.swept]
  BY <1>1, <1>4, Zenon
<1>6. /\ t.nonce = s.nonce /\ t.batches = b2 /\ t.cursor = end /\ t.valid = v2
      /\ t.finalized = s.finalized /\ t.at = s.at /\ t.root = s.root /\ t.total = s.total
      /\ t.claimed = s.claimed /\ t.claimers = s.claimers /\ t.swept = s.swept
  BY <1>5, Zenon
<1>7. RewardsOK(t, now)
  <2>1. IsEpoch(t)
    BY <1>5, <1>6, Zenon DEF IsEpoch
  <2> QED BY <1>6, <2>1, Zenon DEF RewardsOK
<1>8. BatchesOK(e, b2, now, sigUsed)
  <2>1. IsSeq(b2) /\ DOMAIN b2 = DOMAIN bs
    BY <1>3, MapIsSeq, Zenon DEF BatchesOK
  <2>2. ASSUME NEW i \in DOMAIN bs
        PROVE  /\ IsBatch(b2[i]) /\ b2[i].deadline = bs[i].deadline /\ b2[i].root = bs[i].root
               /\ b2[i].by = bs[i].by
               /\ b2[i].finalized => now > bs[i].deadline
    <3>1. /\ bs[i] = [root |-> bs[i].root, deadline |-> bs[i].deadline,
                      finalized |-> bs[i].finalized, by |-> bs[i].by]
          /\ bs[i].finalized => now > bs[i].deadline
      BY Zenon DEF BatchesOK, IsBatch
    <3>2. CASE b2[i] = bs[i]
      BY <3>1, <3>2, Zenon DEF IsBatch
    <3>3. CASE now > bs[i].deadline /\ b2[i] = [bs[i] EXCEPT !.finalized = TRUE]
      <4>1. b2[i] = [root |-> bs[i].root, deadline |-> bs[i].deadline,
                     finalized |-> TRUE, by |-> bs[i].by]
        BY <3>1, <3>3, Zenon
      <4>2. /\ b2[i].root = bs[i].root /\ b2[i].deadline = bs[i].deadline
            /\ b2[i].finalized = TRUE /\ b2[i].by = bs[i].by
        BY <4>1
      <4> QED BY <3>3, <4>1, <4>2, Zenon DEF IsBatch
    <3> QED BY <1>2, <3>2, <3>3, Zenon
  <2> HIDE DEF bs
  <2>3. BatchesOK(e, bs, now, sigUsed)
    BY Zenon DEF bs
  <2>4. ASSUME NEW i \in DOMAIN b2
        PROVE  /\ IsBatch(b2[i]) /\ b2[i].deadline \in Nat
               /\ b2[i].finalized => now > b2[i].deadline
               /\ \A w, a, k : <<w, a, k>> \in b2[i].by => <<e, w, a, k>> \in sigUsed
    BY <2>1, <2>2, <2>3, Zenon DEF BatchesOK
  <2>5. \A i, j \in DOMAIN b2 :
          i # j => b2[i].root # b2[j].root /\ b2[i].by \cap b2[j].by = {}
    BY <2>1, <2>2, <2>3 DEF BatchesOK
  <2> QED BY <2>1, <2>4, <2>5, Zenon DEF BatchesOK
<1> QED BY <1>6, <1>7, <1>8, Zenon DEF t

\* A batch comes with attestations that no batch before it has, or with none.
LEMMA SubmitKeepsEpochs ==
  ASSUME TypeInv, EpochInv, NEW a, NEW e \in EpochIds, NEW root, SubmitBatch(a, e, root)
  PROVE  EpochInv'
<1> DEFINE ws == WitnessSet(e)
           bs == epochs[e].batches
<1>a. PICK bits \in SUBSET DOMAIN ws : \E att \in [bits -> root] :
        /\ ValidWitnessQuorum(a, e, root, ws, att)
        /\ sigUsed' = sigUsed \cup Attestations(e, ws, att, root)
        /\ epochs' = [epochs EXCEPT ![e].batches =
             Append(@, [root |-> root, deadline |-> now + DisputeWindow, finalized |-> FALSE,
                        by |-> {<<ws[i], att[i], i>> : i \in bits}])]
  BY Zenon DEF SubmitBatch
<1>1. PICK att \in [bits -> root] :
        /\ ValidWitnessQuorum(a, e, root, ws, att)
        /\ sigUsed' = sigUsed \cup Attestations(e, ws, att, root)
        /\ epochs' = [epochs EXCEPT ![e].batches =
             Append(@, [root |-> root, deadline |-> now + DisputeWindow, finalized |-> FALSE,
                        by |-> {<<ws[i], att[i], i>> : i \in bits}])]
  BY <1>a, Zenon
<1> DEFINE b == [root |-> root, deadline |-> now + DisputeWindow, finalized |-> FALSE,
                 by |-> {<<ws[i], att[i], i>> : i \in bits}]
           b2 == Append(bs, b)
           s == [epochs[e] EXCEPT !.batches = b2]
<1>2. /\ \A i \in DOMAIN bs : bs[i].root # root
      /\ now' = now /\ now \in Nat /\ now + DisputeWindow \in Nat
  BY Setting DEF SubmitBatch, TypeInv
<1>3. RewardsOK(epochs[e], now) /\ BatchesOK(e, bs, now, sigUsed)
  BY Zenon DEF EpochInv
<1>4. epochs' = [epochs EXCEPT ![e] = s]
  BY <1>1, Zenon DEF EpochInv
<1> HIDE DEF ws
<1>5. Attestations(e, ws, att, root) = {<<e, ws[i], att[i], i>> : i \in bits}
  BY Zenon DEF Attestations
<1>6. \A i \in bits : <<e, ws[i], att[i], i>> \notin sigUsed
  <2>1. CASE bits = {}
    BY <2>1, Zenon
  <2>2. CASE bits # {}
    <3>1. Attestations(e, ws, att, root) \cap sigUsed = {}
      BY <1>1, <2>2, Zenon DEF ValidWitnessQuorum
    <3> QED BY <1>5, <3>1, Zenon
  <2> QED BY <2>1, <2>2, Zenon
<1>7. /\ b.root = root /\ b.deadline \in Nat /\ b.finalized = FALSE /\ IsBatch(b)
      /\ b.by = {<<ws[i], att[i], i>> : i \in bits}
  BY <1>2, Zenon DEF IsBatch
<1>8. ASSUME NEW w, NEW x, NEW k, <<w, x, k>> \in b.by
      PROVE  <<e, w, x, k>> \in sigUsed' /\ <<e, w, x, k>> \notin sigUsed
  <2>1. PICK i \in bits : <<w, x, k>> = <<ws[i], att[i], i>>
    BY <1>7, <1>8, Zenon
  <2>2. w = ws[i] /\ x = att[i] /\ k = i
    BY <2>1, Zenon
  <2> QED BY <1>1, <1>5, <1>6, <2>2, Zenon
<1>9. ASSUME NEW y \in b.by PROVE \E w, x, k : y = <<w, x, k>>
  BY <1>7, Zenon
<1> HIDE DEF b
<1>10. /\ IsSeq(b2) /\ Len(bs) + 1 \notin DOMAIN bs
       /\ DOMAIN b2 = DOMAIN bs \cup {Len(bs) + 1}
       /\ \A i \in DOMAIN bs : b2[i] = bs[i]
       /\ b2[Len(bs) + 1] = b
  <2>1. IsSeq(bs)
    BY <1>3, Zenon DEF BatchesOK
  <2> HIDE DEF bs
  <2> QED BY <2>1, AppendIsSeq
<1> HIDE DEF b2, bs
<1>11. ASSUME NEW i \in DOMAIN bs PROVE bs[i].by \cap b.by = {}
  <2> SUFFICES ASSUME NEW y \in bs[i].by, y \in b.by PROVE FALSE
    BY Zenon
  <2>1. PICK w, x, k : y = <<w, x, k>>
    BY <1>9, Zenon
  <2>2. <<e, w, x, k>> \in sigUsed
    BY <1>3, <2>1, Zenon DEF BatchesOK
  <2>3. <<w, x, k>> \in b.by
    BY <2>1, Zenon
  <2> QED BY <1>8, <2>2, <2>3, Zenon
<1>12. BatchesOK(e, b2, now, sigUsed')
  <2>1. ASSUME NEW i \in DOMAIN b2
        PROVE  /\ IsBatch(b2[i]) /\ b2[i].deadline \in Nat
               /\ b2[i].finalized => now > b2[i].deadline
               /\ \A w, x, k : <<w, x, k>> \in b2[i].by => <<e, w, x, k>> \in sigUsed'
    <3>1. CASE i \in DOMAIN bs
      <4>1. b2[i] = bs[i] /\ sigUsed \subseteq sigUsed'
        BY <1>1, <1>10, <3>1, Zenon
      <4> QED BY <1>3, <3>1, <4>1, Zenon DEF BatchesOK
    <3>2. CASE i = Len(bs) + 1
      <4>1. b2[i] = b
        BY <1>10, <3>2, Zenon
      <4> QED BY <1>7, <1>8, <4>1, Zenon
    <3> QED BY <1>10, <3>1, <3>2, Zenon
  <2>2. ASSUME NEW i \in DOMAIN b2, NEW j \in DOMAIN b2, i # j
        PROVE  b2[i].root # b2[j].root /\ b2[i].by \cap b2[j].by = {}
    <3>1. CASE i \in DOMAIN bs /\ j \in DOMAIN bs
      BY <1>3, <1>10, <2>2, <3>1, Zenon DEF BatchesOK
    <3>2. CASE i \in DOMAIN bs /\ j = Len(bs) + 1
      <4>1. b2[i] = bs[i] /\ b2[j] = b
        BY <1>10, <3>2, Zenon
      <4>2. bs[i].root # root
        BY <1>2, <3>2, Zenon DEF bs
      <4> QED BY <1>7, <1>11, <3>2, <4>1, <4>2, Zenon
    <3>3. CASE j \in DOMAIN bs /\ i = Len(bs) + 1
      <4>1. b2[j] = bs[j] /\ b2[i] = b
        BY <1>10, <3>3, Zenon
      <4>2. bs[j].root # root
        BY <1>2, <3>3, Zenon DEF bs
      <4> QED BY <1>7, <1>11, <3>3, <4>1, <4>2, Zenon
    <3> QED BY <1>10, <2>2, <3>1, <3>2, <3>3, Zenon
  <2> QED BY <1>10, <2>1, <2>2, Zenon DEF BatchesOK
<1>13. RewardsOK(s, now) /\ s.batches = b2
  <2> DEFINE o == epochs[e]
  <2>1. o = [nonce |-> o.nonce, batches |-> o.batches, cursor |-> o.cursor, valid |-> o.valid,
             finalized |-> o.finalized, at |-> o.at, root |-> o.root, total |-> o.total,
             claimed |-> o.claimed, claimers |-> o.claimers, swept |-> o.swept]
    BY <1>3, Zenon DEF RewardsOK, IsEpoch
  <2>2. RewardsOK(o, now)
    BY <1>3, Zenon
  <2> HIDE DEF o
  <2>3. s = [nonce |-> o.nonce, batches |-> b2, cursor |-> o.cursor, valid |-> o.valid,
             finalized |-> o.finalized, at |-> o.at, root |-> o.root, total |-> o.total,
             claimed |-> o.claimed, claimers |-> o.claimers, swept |-> o.swept]
    <3>1. s = [o EXCEPT !.batches = b2]
      BY Zenon DEF o
    <3> QED BY <2>1, <3>1
  <2> HIDE DEF s
  <2>4. /\ s.nonce = o.nonce /\ s.batches = b2 /\ s.cursor = o.cursor /\ s.valid = o.valid
        /\ s.finalized = o.finalized /\ s.at = o.at /\ s.root = o.root /\ s.total = o.total
        /\ s.claimed = o.claimed /\ s.claimers = o.claimers /\ s.swept = o.swept
    BY <2>3, Zenon
  <2>5. IsEpoch(s)
    BY <2>3, <2>4, Zenon DEF IsEpoch
  <2> QED BY <2>2, <2>4, <2>5, Zenon DEF RewardsOK
<1> HIDE DEF s
<1> QED
  <2>1. sigUsed \subseteq sigUsed'
    BY <1>1, Zenon
  <2>2. RewardsOK(s, now') /\ BatchesOK(e, s.batches, now', sigUsed') /\ now <= now' /\ now' \in Nat
    BY <1>2, <1>12, <1>13
  <2> QED BY <1>2, <1>4, <2>1, <2>2, EpochChanges, Zenon

\* The seed of an epoch.
LEMMA NonceKeepsEpoch ==
  ASSUME NEW o, NEW seed, NEW s, s = [o EXCEPT !.nonce = seed], NEW t, RewardsOK(o, t)
  PROVE  RewardsOK(s, t) /\ s.batches = o.batches /\ Due(s) = Due(o)
<1>1. IsEpoch(o)
  BY Zenon DEF RewardsOK
<1>0. o = [nonce |-> o.nonce, batches |-> o.batches, cursor |-> o.cursor, valid |-> o.valid,
           finalized |-> o.finalized, at |-> o.at, root |-> o.root, total |-> o.total,
           claimed |-> o.claimed, claimers |-> o.claimers, swept |-> o.swept]
  BY <1>1, Zenon DEF IsEpoch
<1>2. s = [nonce |-> seed, batches |-> o.batches, cursor |-> o.cursor, valid |-> o.valid,
           finalized |-> o.finalized, at |-> o.at, root |-> o.root, total |-> o.total,
           claimed |-> o.claimed, claimers |-> o.claimers, swept |-> o.swept]
  BY <1>0, Zenon
<1>3. /\ s.nonce = seed /\ s.batches = o.batches /\ s.cursor = o.cursor /\ s.valid = o.valid
      /\ s.finalized = o.finalized /\ s.at = o.at /\ s.root = o.root /\ s.total = o.total
      /\ s.claimed = o.claimed /\ s.claimers = o.claimers /\ s.swept = o.swept
  BY <1>2, Zenon
<1>9. IsEpoch(s)
  BY <1>2, <1>3, Zenon DEF IsEpoch
<1> QED BY <1>3, <1>9 DEF RewardsOK, Due

\* What is swept is owed no more.
LEMMA SweepKeepsEpoch ==
  ASSUME NEW o, NEW t, RewardsOK(o, t), o.finalized, ~o.swept, t > o.at + ClaimWindow, NEW s,
         s = [o EXCEPT !.swept = TRUE]
  PROVE  RewardsOK(s, t) /\ s.batches = o.batches /\ Due(s) = 0 /\ Due(o) = o.total - o.claimed
<1>1. IsEpoch(o)
  BY Zenon DEF RewardsOK
<1>0. o = [nonce |-> o.nonce, batches |-> o.batches, cursor |-> o.cursor, valid |-> o.valid,
           finalized |-> o.finalized, at |-> o.at, root |-> o.root, total |-> o.total,
           claimed |-> o.claimed, claimers |-> o.claimers, swept |-> o.swept]
  BY <1>1, Zenon DEF IsEpoch
<1>2. s = [nonce |-> o.nonce, batches |-> o.batches, cursor |-> o.cursor, valid |-> o.valid,
           finalized |-> o.finalized, at |-> o.at, root |-> o.root, total |-> o.total,
           claimed |-> o.claimed, claimers |-> o.claimers, swept |-> TRUE]
  BY <1>0, Zenon
<1>3. /\ s.nonce = o.nonce /\ s.batches = o.batches /\ s.cursor = o.cursor /\ s.valid = o.valid
      /\ s.finalized = o.finalized /\ s.at = o.at /\ s.root = o.root /\ s.total = o.total
      /\ s.claimed = o.claimed /\ s.claimers = o.claimers /\ s.swept = TRUE
  BY <1>2, Zenon
<1>9. IsEpoch(s)
  BY <1>2, <1>3, Zenon DEF IsEpoch
<1> QED BY <1>3, <1>9, Zenon DEF RewardsOK, Due

\* The transactions that change the rewards of an epoch, and what they change of its debt.
LEMMA FinalizeEffect ==
  ASSUME EpochInv, now \in Nat, NEW e \in EpochIds, NEW root \in SUBSET Reward,
         NEW total \in Nat, FinalizeEpoch(e, root, total)
  PROVE  \E s : /\ epochs' = [epochs EXCEPT ![e] = s]
               /\ RewardsOK(s, now) /\ BatchesOK(e, s.batches, now, sigUsed)
               /\ Due(epochs[e]) = 0 /\ Due(s) = total
<1>1. RewardsOK(epochs[e], now) /\ BatchesOK(e, epochs[e].batches, now, sigUsed)
  BY Zenon DEF EpochInv
<1>2. PICK o : o = ProcessBatches(epochs[e], FinalizeBudget)
  BY Zenon
<1>3. RewardsOK(o, now) /\ BatchesOK(e, o.batches, now, sigUsed) /\ o.finalized = epochs[e].finalized
  BY <1>1, <1>2, ProcessKeeps
<1>4. PICK s : s = [o EXCEPT !.finalized = TRUE, !.at = now, !.root = root, !.total = total]
  BY Zenon
<1>5. epochs' = [epochs EXCEPT ![e] = s] /\ ~epochs[e].finalized
  BY <1>2, <1>4, Zenon DEF FinalizeEpoch
<1>6. RewardsOK(s, now) /\ s.batches = o.batches /\ Due(s) = total
  <2>1. IsEpoch(o)
    BY <1>3, Zenon DEF RewardsOK
  <2>0. o = [nonce |-> o.nonce, batches |-> o.batches, cursor |-> o.cursor, valid |-> o.valid,
             finalized |-> o.finalized, at |-> o.at, root |-> o.root, total |-> o.total,
             claimed |-> o.claimed, claimers |-> o.claimers, swept |-> o.swept]
    BY <2>1, Zenon DEF IsEpoch
  <2>2. s = [nonce |-> o.nonce, batches |-> o.batches, cursor |-> o.cursor, valid |-> o.valid,
             finalized |-> TRUE, at |-> now, root |-> root, total |-> total,
             claimed |-> o.claimed, claimers |-> o.claimers, swept |-> o.swept]
    BY <1>4, <2>0, Zenon
  <2>3. /\ s.nonce = o.nonce /\ s.batches = o.batches /\ s.cursor = o.cursor /\ s.valid = o.valid
        /\ s.finalized = TRUE /\ s.at = now /\ s.root = root /\ s.total = total
        /\ s.claimed = o.claimed /\ s.claimers = o.claimers /\ s.swept = o.swept
    BY <2>2, Zenon
  <2>9. IsEpoch(s)
    BY <2>2, <2>3, Zenon DEF IsEpoch
  <2>4. o.claimed = 0 /\ o.total = 0 /\ ~o.swept /\ o.swept \in BOOLEAN
    <3>1. ~o.finalized /\ RewardsOK(o, now)
      BY <1>3, <1>5, Zenon
    <3>2. o.total = 0 /\ ~o.swept /\ o.swept \in BOOLEAN /\ o.claimed \in Nat /\ o.claimed <= o.total
      BY <3>1, Zenon DEF RewardsOK
    <3>3. o.claimed = 0
      BY <3>2
    <3> QED BY <3>2, <3>3, Zenon
  <2>5. s.swept = FALSE /\ s.claimed = 0
    BY <2>3, <2>4, Zenon
  <2>6. RewardsOK(s, now)
    <3>1. /\ s.finalized = TRUE /\ s.swept = FALSE /\ s.total \in Nat /\ s.claimed = 0
          /\ s.at \in Nat /\ s.root \subseteq Reward
      BY <2>3, <2>5, Zenon
    <3>2. s.claimed \in Nat /\ s.claimed <= s.total
      BY <3>1
    <3> QED BY <2>9, <3>1, <3>2, Zenon DEF RewardsOK
  <2>7. Due(s) = total
    <3>1. Due(s) = s.total - s.claimed
      BY <2>5, Zenon DEF Due
    <3> QED BY <2>3, <2>5, <3>1
  <2> QED BY <2>3, <2>6, <2>7, Zenon
<1>7. Due(epochs[e]) = 0
  BY <1>1, <1>5 DEF RewardsOK, Due
<1> QED BY <1>3, <1>5, <1>6, <1>7, Zenon

\* A claim pays what is due.
LEMMA ClaimEffect ==
  ASSUME EpochInv, now \in Nat, NEW e \in EpochIds, NEW r \in epochs[e].root, Claim(e, r)
  PROVE  /\ r \in Reward
         /\ \E s : /\ epochs' = [epochs EXCEPT ![e] = s]
                  /\ RewardsOK(s, now) /\ s.batches = epochs[e].batches
                  /\ Due(s) = Due(epochs[e]) - r.amount
<1>1. PICK o : o = epochs[e]
  BY Zenon
<1>2. RewardsOK(o, now)
  BY <1>1, Zenon DEF EpochInv
<1>3. r \in Reward
  BY <1>1, <1>2, Zenon DEF RewardsOK
<1>4. PICK paid, who : paid = o.claimed + r.amount /\ who = o.claimers \cup {r.node}
  BY Zenon
<1>5. PICK s : s = [o EXCEPT !.claimed = paid, !.claimers = who]
  BY Zenon
<1>6. epochs' = [epochs EXCEPT ![e] = s] /\ MayClaim(o, r)
  BY <1>1, <1>4, <1>5, Zenon DEF Claim
<1>7. RewardsOK(s, now) /\ s.batches = o.batches /\ Due(s) = Due(o) - r.amount
  <2>1. IsEpoch(o)
    BY <1>2, Zenon DEF RewardsOK
  <2>0. o = [nonce |-> o.nonce, batches |-> o.batches, cursor |-> o.cursor, valid |-> o.valid,
             finalized |-> o.finalized, at |-> o.at, root |-> o.root, total |-> o.total,
             claimed |-> o.claimed, claimers |-> o.claimers, swept |-> o.swept]
    BY <2>1, Zenon DEF IsEpoch
  <2>2. paid \in Nat /\ paid <= o.total /\ r.amount \in Nat
    BY <1>2, <1>3, <1>4, <1>6 DEF MayClaim, RewardsOK, Reward
  <2>4. s = [nonce |-> o.nonce, batches |-> o.batches, cursor |-> o.cursor, valid |-> o.valid,
             finalized |-> o.finalized, at |-> o.at, root |-> o.root, total |-> o.total,
             claimed |-> paid, claimers |-> who, swept |-> o.swept]
    BY <1>5, <2>0, Zenon
  <2>5. /\ s.nonce = o.nonce /\ s.batches = o.batches /\ s.cursor = o.cursor /\ s.valid = o.valid
        /\ s.finalized = o.finalized /\ s.at = o.at /\ s.root = o.root /\ s.total = o.total
        /\ s.claimed = paid /\ s.claimers = who /\ s.swept = o.swept
    BY <2>4, Zenon
  <2>9. IsEpoch(s)
    BY <2>4, <2>5, Zenon DEF IsEpoch
  <2>6. ~o.swept
    <3>1. now <= o.at + ClaimWindow
      BY <1>6, Zenon DEF MayClaim
    <3>2. o.at \in Nat /\ (o.swept => now > o.at + ClaimWindow)
      BY <1>2, Zenon DEF RewardsOK
    <3>3. now \in Nat /\ ClaimWindow \in Nat
      BY Setting, Zenon
    <3> QED BY <3>1, <3>2, <3>3
  <2>7. RewardsOK(s, now)
    BY <1>2, <1>6, <2>2, <2>5, <2>6, <2>9, Zenon DEF RewardsOK, MayClaim
  <2>8. Due(s) = Due(o) - r.amount
    <3>1. Due(s) = s.total - s.claimed /\ Due(o) = o.total - o.claimed
      BY <1>6, <2>5, <2>6, Zenon DEF Due, MayClaim
    <3>2. o.total \in Nat /\ o.claimed \in Nat /\ s.total = o.total /\ s.claimed = paid
      BY <1>2, <2>5, Zenon DEF RewardsOK
    <3> QED BY <1>4, <2>2, <3>1, <3>2
  <2> QED BY <2>5, <2>7, <2>8, Zenon
<1> QED BY <1>1, <1>3, <1>6, <1>7, Zenon

\* Every transaction keeps the epochs in order.
LEMMA StepEpoch ==
  ASSUME TypeInv, EpochInv, [Next]_vars
  PROVE  EpochInv'
<1>1. now \in Nat /\ IsWorkload(workload)
  BY Basics, Zenon
<1>2. ASSUME NEW e \in EpochIds
      PROVE  RewardsOK(epochs[e], now) /\ BatchesOK(e, epochs[e].batches, now, sigUsed)
  BY Zenon DEF EpochInv
<1>3. ASSUME NEW e \in EpochIds, NEW s, epochs' = [epochs EXCEPT ![e] = s], RewardsOK(s, now),
             BatchesOK(e, s.batches, now, sigUsed), now' = now, sigUsed' = sigUsed
      PROVE  EpochInv'
  <2>1. /\ now' \in Nat /\ now <= now' /\ sigUsed \subseteq sigUsed'
        /\ RewardsOK(s, now') /\ BatchesOK(e, s.batches, now', sigUsed')
    BY <1>1, <1>3
  <2> QED BY <1>1, <1>3, <2>1, EpochChanges, Zenon
<1>4. ASSUME NEW e \in EpochIds, NEW seed, InitEpochNonce(e, seed) PROVE EpochInv'
  <2>1. PICK s : s = [epochs[e] EXCEPT !.nonce = seed]
    BY Zenon
  <2>2. epochs' = [epochs EXCEPT ![e] = s] /\ now' = now /\ sigUsed' = sigUsed
    BY <1>4, <2>1, Zenon DEF InitEpochNonce, rest
  <2>3. RewardsOK(s, now) /\ s.batches = epochs[e].batches
    BY <1>2, <2>1, NonceKeepsEpoch
  <2> QED BY <1>2, <1>3, <2>2, <2>3, Zenon
<1>5. ASSUME NEW a, NEW e \in EpochIds, NEW root, SubmitBatch(a, e, root) PROVE EpochInv'
  BY <1>5, SubmitKeepsEpochs, Zenon
<1>6. ASSUME NEW e \in EpochIds, NEW max, ProcessEpochBatches(e, max) PROVE EpochInv'
  <2>1. PICK s : s = ProcessBatches(epochs[e], max)
    BY Zenon
  <2>2. epochs' = [epochs EXCEPT ![e] = s] /\ now' = now /\ sigUsed' = sigUsed
    BY <1>6, <2>1, Zenon DEF ProcessEpochBatches, rest
  <2>3. RewardsOK(s, now) /\ BatchesOK(e, s.batches, now, sigUsed)
    BY <1>1, <1>2, <2>1, ProcessKeeps, Zenon
  <2> QED BY <1>3, <2>2, <2>3, Zenon
<1>7. ASSUME NEW e \in EpochIds, NEW root \in SUBSET Reward, NEW total \in Nat,
             FinalizeEpoch(e, root, total)
      PROVE  EpochInv'
  <2>1. PICK s : /\ epochs' = [epochs EXCEPT ![e] = s]
                 /\ RewardsOK(s, now) /\ BatchesOK(e, s.batches, now, sigUsed)
    BY <1>1, <1>7, FinalizeEffect, Zenon
  <2>2. now' = now /\ sigUsed' = sigUsed
    BY <1>7, Zenon DEF FinalizeEpoch
  <2> QED BY <1>3, <2>1, <2>2, Zenon
<1>8. ASSUME NEW e \in EpochIds, NEW r \in epochs[e].root, Claim(e, r) PROVE EpochInv'
  <2>1. PICK s : /\ epochs' = [epochs EXCEPT ![e] = s]
                 /\ RewardsOK(s, now) /\ s.batches = epochs[e].batches
    BY <1>1, <1>8, ClaimEffect, Zenon
  <2>2. now' = now /\ sigUsed' = sigUsed
    BY <1>8, Zenon DEF Claim, rest
  <2> QED BY <1>2, <1>3, <2>1, <2>2, Zenon
<1>9. ASSUME NEW e \in EpochIds, SweepExpiredRewards(e) PROVE EpochInv'
  <2>1. PICK s : s = [epochs[e] EXCEPT !.swept = TRUE]
    BY Zenon
  <2>2. /\ epochs' = [epochs EXCEPT ![e] = s] /\ now' = now /\ sigUsed' = sigUsed
        /\ epochs[e].finalized /\ ~epochs[e].swept /\ now > epochs[e].at + ClaimWindow
    BY <1>9, <2>1, Zenon DEF SweepExpiredRewards
  <2>3. RewardsOK(s, now) /\ s.batches = epochs[e].batches
    BY <1>2, <2>1, <2>2, SweepKeepsEpoch, Zenon
  <2> QED BY <1>2, <1>3, <2>2, <2>3, Zenon
<1>10. ASSUME now' = now \/ now' = now + 1, sigUsed' = sigUsed, epochs' = epochs PROVE EpochInv'
  BY <1>1, <1>10, EpochsStay
<1>11. ASSUME NEW x, NEW y, NEW z, RegisterNode(x, y, z) PROVE EpochInv'
  BY <1>10, <1>11, Zenon DEF RegisterNode, rest
<1>12. ASSUME NEW x, NEW y, NEW z,
              \/ OpenChallenge(x, y) \/ RevealChallenge(x, y, z) \/ SettleUnrevealed(x)
              \/ WithdrawPayments(x) \/ DepositRewardPool(x) \/ DepositInsurance(x)
              \/ EnableEmission(x) \/ SetFoundationAddress \/ Tick \/ UNCHANGED vars
       PROVE  EpochInv'
  <2>1. (now' = now \/ now' = now + 1) /\ sigUsed' = sigUsed /\ epochs' = epochs
    BY <1>12, Zenon DEF OpenChallenge, RevealChallenge, SettleUnrevealed, WithdrawPayments,
                 DepositRewardPool, DepositInsurance, EnableEmission, SetFoundationAddress, Tick,
                 vars, rest
  <2> QED BY <1>10, <2>1, Zenon
<1>13. ASSUME NEW i, SettleRevealed(i) PROVE EpochInv'
  BY <1>10, <1>13, Zenon DEF SettleRevealed, rest
<1>14. /\ \A b \in workload.submit : b[2] \in EpochIds
       /\ \A r \in workload.reward : r[1] \in EpochIds /\ r[2] \in SUBSET Reward /\ r[3] \in Nat
  BY <1>1, Zenon DEF IsWorkload
<1> QED BY <1>4, <1>5, <1>6, <1>7, <1>8, <1>9, <1>11, <1>12, <1>13, <1>14, Zenon DEF Next
------------------------------------------------------------------------------
\* A new contract has well-formed types and epochs.
LEMMA InitTypes ==
  ASSUME Init
  PROVE  TypeInv /\ EpochInv /\ \A e \in EpochIds : epochs[e].total = 0 /\ epochs[e].claimed = 0
                                                      /\ ~epochs[e].swept
<1>1. TypeInv
  <2>1. /\ now \in 0 .. MaxTime /\ node \in [NodeIds -> NodeRec] /\ count \in [Accounts -> Nat]
        /\ active \in Seq(NodeIds) /\ challenges \in Seq(Challenge)
        /\ slashed \in [EpochIds -> [NodeIds -> Nat]]
        /\ money \in [pool : Nat, insurance : Nat, eth : Int] /\ pending \in [Accounts -> Nat]
        /\ sunk \in Nat /\ workload \in Workloads
    <3>1. 0 \in 0 .. MaxTime /\ 0 \in Nat /\ 0 \in Int
      BY Setting
    <3>2. [op |-> Nobody, bond |-> 0, active |-> FALSE] \in NodeRec
      BY <3>1, Zenon DEF NodeRec
    <3>3. <<>> \in Seq(NodeIds) /\ <<>> \in Seq(Challenge)
      OBVIOUS
    <3> QED BY <3>1, <3>2, <3>3, Zenon DEF Init
  <2>2. \A n \in NodeIds : node[n].op = Nobody /\ node[n].bond = 0 /\ node[n].active = FALSE
    BY Zenon DEF Init
  <2>3. DOMAIN active = {}
    BY DEF Init
  <2> QED BY <2>1, <2>2, <2>3 DEF TypeInv
<1>2. \A e \in EpochIds : epochs[e] = NewEpoch
  BY Zenon DEF Init
<1>3. /\ NewEpoch.batches = <<>> /\ NewEpoch.finalized = FALSE /\ NewEpoch.at = 0
      /\ NewEpoch.root = {} /\ NewEpoch.total = 0 /\ NewEpoch.claimed = 0 /\ NewEpoch.swept = FALSE
      /\ IsEpoch(NewEpoch)
  BY Zenon DEF NewEpoch, IsEpoch
<1>4. EpochInv
  <2>1. RewardsOK(NewEpoch, now)
    <3>1. 0 \in Nat /\ 0 <= 0 /\ {} \subseteq Reward
      OBVIOUS
    <3>2. /\ NewEpoch.total \in Nat /\ NewEpoch.claimed \in Nat /\ NewEpoch.at \in Nat
          /\ NewEpoch.claimed <= NewEpoch.total /\ NewEpoch.root \subseteq Reward
          /\ NewEpoch.finalized \in BOOLEAN /\ NewEpoch.swept \in BOOLEAN
      BY <1>3, <3>1, Zenon
    <3>3. NewEpoch.total = 0 /\ ~NewEpoch.swept
      BY <1>3, Zenon
    <3> QED BY <1>3, <3>2, <3>3, Zenon DEF RewardsOK
  <2>2. \A e : BatchesOK(e, <<>>, now, sigUsed)
    BY DEF BatchesOK, IsSeq
  <2>3. epochs = [e \in EpochIds |-> epochs[e]]
    BY Zenon DEF Init
  <2> QED BY <1>2, <1>3, <2>1, <2>2, <2>3, Zenon DEF EpochInv
<1> QED BY <1>1, <1>2, <1>3, <1>4, Zenon

\* The types and the epochs are inductive without the money.
LEMMA EpochsHold == Spec => [](TypeInv /\ EpochInv)
<1>1. TypeInv /\ EpochInv /\ [Next]_vars => (TypeInv /\ EpochInv)'
  BY StepType, StepEpoch, Zenon
<1>2. Init => TypeInv /\ EpochInv
  BY InitTypes, Zenon
<1> QED BY <1>1, <1>2, PTL DEF Spec

\* Only a reveal adds evidence, and only before the deadline of its batch, which a final
\* batch is past; no two batches of an epoch have one root, so the evidence is not against
\* another batch either (revealChallenge and _processEpochBatches).
THEOREM FinalBatchesAreSafeThm == Spec => FinalBatchesAreSafe
<1>1. TypeInv /\ EpochInv /\ [Next]_vars => [SparesFinalBatches]_vars
  <2> SUFFICES ASSUME TypeInv, EpochInv, Next PROVE SparesFinalBatches
    BY Zenon
  <2>1. EpochInv /\ now \in Nat
    BY DEF TypeInv
  <2>2. ASSUME consumed' = consumed PROVE SparesFinalBatches
    BY <2>2, Zenon DEF SparesFinalBatches
  <2>3. ASSUME NEW c \in DOMAIN challenges, NEW e \in EpochIds,
               NEW batch \in Range(epochs[e].batches), RevealChallenge(c, e, batch)
        PROVE  SparesFinalBatches
    <3> SUFFICES ASSUME NEW d \in EpochIds, NEW i \in DOMAIN epochs[d].batches,
                        epochs[d].batches[i].finalized, NEW k \in consumed' \ consumed,
                        <<k[1], k[2]>> = <<d, epochs[d].batches[i].root>>
                 PROVE  FALSE
      BY Zenon DEF SparesFinalBatches
    <3>1. k = <<e, batch.root, challenges[c].leaf>> /\ now <= batch.deadline
      BY <2>3, Zenon DEF RevealChallenge, MayReveal
    <3>2. PICK j \in DOMAIN epochs[e].batches : batch = epochs[e].batches[j]
      BY Zenon DEF Range
    <3>3. k[1] = d /\ k[2] = epochs[d].batches[i].root
      BY Zenon
    <3>4. d = e /\ epochs[e].batches[i].root = epochs[e].batches[j].root
      BY <3>1, <3>2, <3>3, Zenon
    <3>5. BatchesOK(e, epochs[e].batches, now, sigUsed)
      BY <2>1, Zenon DEF EpochInv
    <3>6. i = j
      BY <3>2, <3>4, <3>5, Zenon DEF BatchesOK
    <3>7. now > batch.deadline /\ batch.deadline \in Nat
      BY <3>2, <3>4, <3>5, <3>6, Zenon DEF BatchesOK
    <3> QED BY <2>1, <3>1, <3>7
  <2>4. ASSUME NEW x, NEW y, NEW z,
               \/ InitEpochNonce(x, y) \/ SubmitBatch(x, y, z) \/ OpenChallenge(x, y)
               \/ SettleUnrevealed(x) \/ ProcessEpochBatches(x, y)
               \/ Claim(x, y) \/ WithdrawPayments(x) \/ DepositRewardPool(x) \/ DepositInsurance(x)
               \/ EnableEmission(x) \/ SetFoundationAddress \/ Tick
        PROVE  SparesFinalBatches
    <3>1. consumed' = consumed
      BY <2>4, Zenon DEF InitEpochNonce, SubmitBatch, OpenChallenge, SettleUnrevealed,
                  ProcessEpochBatches, Claim, WithdrawPayments, DepositRewardPool,
                  DepositInsurance, EnableEmission, SetFoundationAddress, Tick
    <3> QED BY <2>2, <3>1, Zenon
  <2>5. ASSUME NEW x, NEW y, NEW z, FinalizeEpoch(x, y, z) PROVE SparesFinalBatches
    BY <2>2, <2>5, Zenon DEF FinalizeEpoch
  <2>6. ASSUME NEW x, SweepExpiredRewards(x) PROVE SparesFinalBatches
    BY <2>2, <2>6, Zenon DEF SweepExpiredRewards
  <2>7. ASSUME NEW x, NEW y, NEW z, RegisterNode(x, y, z) PROVE SparesFinalBatches
    BY <2>2, <2>7, Zenon DEF RegisterNode
  <2>8. ASSUME NEW x, SettleRevealed(x) PROVE SparesFinalBatches
    BY <2>2, <2>8, Zenon DEF SettleRevealed
  <2> QED BY <2>3, <2>4, <2>5, <2>6, <2>7, <2>8, Zenon DEF Next
<1> QED BY <1>1, EpochsHold, PTL DEF Spec, FinalBatchesAreSafe

\* A new element leaves the others in their places.
LEMMA AppendKeeps ==
  ASSUME NEW S, NEW s \in Seq(S), NEW x, NEW i \in DOMAIN s
  PROVE  Append(s, x)[i] = s[i]
OBVIOUS

\* A slash returns the bond of the challenger.
LEMMA SlashRefunds ==
  ASSUME TypeInv, NEW i \in DOMAIN challenges, NEW cut \in Nat, NEW burnt \in Nat,
         NEW reward \in Nat, NEW w, Slashes(i, cut, burnt, reward, w)
  PROVE  (money.eth - money'.eth) + (pending'[challenges[i].by] - pending[challenges[i].by])
           >= challenges[i].bond
<1>1. PICK by, bond : by = challenges[i].by /\ bond = challenges[i].bond
  BY Zenon
<1>2. by \in Accounts /\ bond \in Nat /\ money.eth \in Int /\ pending \in [Accounts -> Nat]
  BY <1>1, ChallengeTypes, Zenon DEF TypeInv
<1>3. Paid(money.eth, by, bond + reward)
  <2>1. Paid(money.eth, challenges[i].by, challenges[i].bond + reward)
    BY SlashTypes, Zenon
  <2> QED BY <1>1, <2>1, Zenon
<1>4. CASE money'.eth = money.eth - (bond + reward) /\ pending' = pending
  <2>1. pending'[by] = pending[by] /\ pending[by] \in Nat
    BY <1>2, <1>4, Zenon
  <2>2. (money.eth - money'.eth) + (pending'[by] - pending[by]) >= bond
    BY <1>2, <1>4, <2>1
  <2> QED BY <1>1, <2>2, Zenon
<1>5. CASE money'.eth = money.eth /\ pending' = [pending EXCEPT ![by] = pending[by] + (bond + reward)]
  <2>1. pending'[by] = pending[by] + (bond + reward) /\ pending[by] \in Nat
    BY <1>2, <1>5, Zenon
  <2>2. (money.eth - money'.eth) + (pending'[by] - pending[by]) >= bond
    BY <1>2, <1>5, <2>1
  <2> QED BY <1>1, <2>2, Zenon
<1> QED BY <1>3, <1>4, <1>5, Zenon DEF Paid

\* A registered node keeps a bond, since no slash takes all of it; so a challenge whose
\* evidence was accepted is settled by a slash, which returns the challenger's bond with the
\* reward, paid or credited (settleChallenge).
THEOREM ProvenChallengesAreRefundedThm == Spec => ProvenChallengesAreRefunded
<1>1. TypeInv /\ EpochInv /\ [Next]_vars => [RefundsProven]_vars
  <2> SUFFICES ASSUME TypeInv, EpochInv, Next, NEW i \in DOMAIN challenges, challenges[i].revealed,
                      ~challenges[i].settled, challenges'[i].settled,
                      node[challenges[i].leaf.node].op # Nobody
               PROVE  (money.eth - money'.eth)
                        + (pending'[challenges[i].by] - pending[challenges[i].by])
                          >= challenges[i].bond
    BY Zenon DEF RefundsProven
  <2>1. /\ TypeInv /\ challenges \in Seq(Challenge) /\ money.eth \in Int
        /\ pending \in [Accounts -> Nat]
        /\ \A k \in DOMAIN challenges : challenges[k] \in Challenge
    <3>1. TypeInv
      BY Zenon
    <3>2. challenges \in Seq(Challenge) /\ money.eth \in Int /\ pending \in [Accounts -> Nat]
      BY <3>1, Zenon DEF TypeInv
    <3>3. \A k \in DOMAIN challenges : challenges[k] \in Challenge
      BY <3>2
    <3> QED BY <3>1, <3>2, <3>3, Zenon
  <2>2. SettleRevealed(i)
    <3>1. ASSUME challenges' = challenges PROVE FALSE
      BY <3>1, Zenon
    <3>2. ASSUME NEW x, NEW y, OpenChallenge(x, y) PROVE FALSE
      <4>1. PICK c : challenges' = Append(challenges, c)
        BY <3>2, Zenon DEF OpenChallenge
      <4>2. challenges'[i] = challenges[i]
        BY <2>1, <4>1, AppendKeeps, Zenon
      <4> QED BY <4>2, Zenon
    <3>3. ASSUME NEW k \in DOMAIN challenges, NEW e, NEW b, RevealChallenge(k, e, b) PROVE FALSE
      <4>1. challenges' = [challenges EXCEPT ![k].revealed = TRUE]
        BY <3>3, Zenon DEF RevealChallenge
      <4>2. challenges'[i].settled = challenges[i].settled
        <5>1. CASE k # i
          BY <2>1, <4>1, <5>1, Zenon
        <5>2. CASE k = i
          <6>1. challenges'[i] = [challenges[i] EXCEPT !.revealed = TRUE]
            BY <2>1, <4>1, <5>2, Zenon
          <6>2. challenges[i] \in Challenge
            BY <2>1, Zenon
          <6> QED BY <6>1, <6>2, Zenon DEF Challenge
        <5> QED BY <5>1, <5>2, Zenon
      <4> QED BY <4>2, Zenon
    <3>4. ASSUME NEW k \in DOMAIN challenges, SettleUnrevealed(k) PROVE FALSE
      <4>1. challenges' = [challenges EXCEPT ![k].settled = TRUE] /\ ~challenges[k].revealed
        BY <3>4, Zenon DEF SettleUnrevealed
      <4>2. challenges'[i] = challenges[i]
        BY <2>1, <4>1, Zenon
      <4> QED BY <4>2, Zenon
    <3>5. ASSUME NEW k \in DOMAIN challenges, SettleRevealed(k) PROVE k = i
      <4>1. challenges' = [challenges EXCEPT ![k].settled = TRUE]
        BY <3>5, Zenon DEF SettleRevealed
      <4> QED BY <2>1, <4>1, Zenon
    <3>6. ASSUME NEW x, NEW y, NEW z,
                 \/ InitEpochNonce(x, y) \/ SubmitBatch(x, y, z) \/ ProcessEpochBatches(x, y)
                 \/ Claim(x, y) \/ WithdrawPayments(x) \/ DepositRewardPool(x)
                 \/ DepositInsurance(x) \/ EnableEmission(x) \/ SetFoundationAddress \/ Tick
          PROVE  FALSE
      <4>1. challenges' = challenges
        BY <3>6, Zenon DEF InitEpochNonce, SubmitBatch, ProcessEpochBatches, Claim, WithdrawPayments,
                    DepositRewardPool, DepositInsurance, EnableEmission, SetFoundationAddress, Tick
      <4> QED BY <3>1, <4>1, Zenon
    <3>7. ASSUME NEW x, NEW y, NEW z, FinalizeEpoch(x, y, z) PROVE FALSE
      BY <3>1, <3>7, Zenon DEF FinalizeEpoch
    <3>8. ASSUME NEW x, SweepExpiredRewards(x) PROVE FALSE
      BY <3>1, <3>8, Zenon DEF SweepExpiredRewards
    <3>9. ASSUME NEW x, NEW y, NEW z, RegisterNode(x, y, z) PROVE FALSE
      BY <3>1, <3>9, Zenon DEF RegisterNode
    <3> QED BY <3>2, <3>3, <3>4, <3>5, <3>6, <3>7, <3>8, <3>9, Zenon DEF Next
  <2>3. node[challenges[i].leaf.node].active
    <3>1. challenges[i].leaf.node \in NodeIds
      BY <2>1, ChallengeTypes, Zenon
    <3> QED BY <2>1, <3>1, Zenon DEF TypeInv
  <2>4. PICK cut, burnt, reward \in Nat : \E w : Slashes(i, cut, burnt, reward, w)
    BY <2>1, <2>2, <2>3, SettleEffect, Zenon
  <2>5. PICK w : Slashes(i, cut, burnt, reward, w)
    BY <2>4, Zenon
  <2> QED BY <2>1, <2>4, <2>5, SlashRefunds, Zenon
<1> QED BY <1>1, EpochsHold, PTL DEF Spec, ProvenChallengesAreRefunded
==============================================================================
