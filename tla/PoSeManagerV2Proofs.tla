------------------------- MODULE PoSeManagerV2Proofs -------------------------
(***************************************************************************)
(* PoSeManagerV2.sol for any number of nodes, epochs, challenges and       *)
(* batches and any amounts: it holds what it owes, slashes within the cap  *)
(* and counts no attestation twice.                                        *)
(***************************************************************************)
EXTENDS PoSeEpochProofs, TotalsProofs

\* What the contract holds is what it owes.
MoneyInv ==
  money.eth = money.pool + money.insurance + sunk
                + Total(Bonds) + Total(OpenBonds) + Total(Claimable) + Total(pending)

\* The inductive invariant.
PInv == TypeInv /\ EpochInv /\ MoneyInv /\ SlashCapHolds
------------------------------------------------------------------------------
\* The tables are tables of natural numbers, and finite.
LEMMA TablesAreNat ==
  ASSUME TypeInv, EpochInv
  PROVE  /\ Bonds \in [NodeIds -> Nat] /\ Total(Bonds) \in Nat
         /\ OpenBonds \in [DOMAIN challenges -> Nat] /\ Total(OpenBonds) \in Nat
         /\ IsFiniteSet(DOMAIN challenges)
         /\ Claimable \in [EpochIds -> Nat] /\ Total(Claimable) \in Nat
         /\ Total(pending) \in Nat
<1>1. Bonds \in [NodeIds -> Nat]
  BY Zenon DEF Bonds, TypeInv, NodeRec
<1>2. OpenBonds \in [DOMAIN challenges -> Nat]
  <2>1. \A i \in DOMAIN challenges : challenges[i] \in Challenge
    BY DEF TypeInv
  <2>2. \A i \in DOMAIN challenges : challenges[i].bond \in Nat
    BY <2>1, Zenon DEF Challenge
  <2> QED BY <2>2, Zenon DEF OpenBonds
<1>3. IsFiniteSet(DOMAIN challenges)
  <2>1. DOMAIN challenges = 1 .. Len(challenges) /\ Len(challenges) \in Nat
    BY DEF TypeInv
  <2> QED BY <2>1, FS_Interval
<1>4. Claimable \in [EpochIds -> Nat]
  <2>1. \A e \in EpochIds : Due(epochs[e]) \in Nat
    BY DEF EpochInv, RewardsOK, Due
  <2> QED BY <2>1, Zenon DEF Claimable, Due
<1>5. pending \in [Accounts -> Nat]
  BY Zenon DEF TypeInv
<1> QED BY <1>1, <1>2, <1>3, <1>4, <1>5, TotalIsNat, Setting, Zenon

\* A challenge that is settled owes its bond no more.
LEMMA SettledBond ==
  ASSUME TypeInv, EpochInv, NEW i \in DOMAIN challenges, ~challenges[i].settled,
         challenges' = [challenges EXCEPT ![i].settled = TRUE]
  PROVE  /\ Total(OpenBonds') = Total(OpenBonds) - challenges[i].bond
         /\ challenges[i].bond <= Total(OpenBonds)
         /\ challenges[i].bond \in Nat
         /\ challenges' \in Seq(Challenge)
<1>1. /\ challenges \in Seq(Challenge) /\ DOMAIN challenges' = DOMAIN challenges
      /\ \A k \in DOMAIN challenges : challenges[k] \in Challenge
      /\ \A k \in DOMAIN challenges \ {i} : challenges'[k] = challenges[k]
      /\ challenges'[i] = [challenges[i] EXCEPT !.settled = TRUE]
  BY DEF TypeInv
<1>2. /\ challenges'[i] \in Challenge /\ challenges'[i].settled
      /\ challenges[i].bond \in Nat
  BY <1>1, Zenon DEF Challenge
<1>3. challenges' \in Seq(Challenge)
  <2>1. challenges' = [challenges EXCEPT ![i] = challenges'[i]]
    BY <1>1, Zenon
  <2> QED BY <1>1, <1>2, <2>1
<1>4. /\ OpenBonds \in [DOMAIN challenges -> Nat] /\ IsFiniteSet(DOMAIN challenges)
  BY TablesAreNat, Zenon
<1>5. /\ OpenBonds' \in [DOMAIN challenges -> Nat]
      /\ \A k \in DOMAIN challenges \ {i} : OpenBonds'[k] = OpenBonds[k]
      /\ OpenBonds[i] = challenges[i].bond /\ OpenBonds'[i] = 0
  BY <1>1, <1>2, <1>4, Zenon DEF OpenBonds
<1>6. PICK f, g, S : f = OpenBonds /\ g = OpenBonds' /\ S = DOMAIN challenges
  BY Zenon
<1>7. Total(g) = Total(f) - f[i] + g[i] /\ f[i] <= Total(f) /\ Total(f) \in Nat
  <2>1. f \in [S -> Nat] /\ g \in [S -> Nat] /\ (\A k \in S \ {i} : g[k] = f[k])
        /\ i \in S /\ IsFiniteSet(S)
    BY <1>4, <1>5, <1>6, Zenon
  <2> QED BY <2>1, TotalChanges, RowWithinTotal, TotalIsNat
<1> QED BY <1>2, <1>3, <1>5, <1>6, <1>7

\* A table with one row changed, in the three shapes that the contract has.
LEMMA BondChanges ==
  ASSUME TypeInv, NEW n \in NodeIds, NEW w \in NodeRec, node' = [node EXCEPT ![n] = w]
  PROVE  /\ Total(Bonds') = Total(Bonds) - node[n].bond + w.bond
         /\ node[n].bond <= Total(Bonds)
<1>1. /\ Bonds \in [NodeIds -> Nat] /\ Bonds' \in [NodeIds -> Nat]
      /\ \A m \in NodeIds \ {n} : Bonds'[m] = Bonds[m]
      /\ Bonds[n] = node[n].bond /\ Bonds'[n] = w.bond
  BY DEF Bonds, TypeInv, NodeRec
<1>2. IsFiniteSet(NodeIds)
  BY Setting, Zenon
<1>3. PICK f, g : f = Bonds /\ g = Bonds'
  BY Zenon
<1>4. Total(g) = Total(f) - f[n] + g[n] /\ f[n] <= Total(f)
  <2>1. f \in [NodeIds -> Nat] /\ g \in [NodeIds -> Nat] /\ \A m \in NodeIds \ {n} : g[m] = f[m]
    BY <1>1, <1>3, Zenon
  <2> QED BY <1>2, <2>1, TotalChanges, RowWithinTotal
<1> QED BY <1>1, <1>3, <1>4, Zenon

\* The same for the rewards of one epoch.
LEMMA ClaimableChanges ==
  ASSUME TypeInv, EpochInv, NEW e \in EpochIds, NEW s, RewardsOK(s, now),
         epochs' = [epochs EXCEPT ![e] = s]
  PROVE  /\ Total(Claimable') = Total(Claimable) - Due(epochs[e]) + Due(s)
         /\ Due(epochs[e]) <= Total(Claimable)
         /\ Due(epochs[e]) \in Nat /\ Due(s) \in Nat
<1>1. /\ Due(s) \in Nat /\ Due(epochs[e]) \in Nat
  BY DEF EpochInv, RewardsOK, Due
<1>2. /\ Claimable = [x \in EpochIds |-> Due(epochs[x])]
      /\ Claimable' = [x \in EpochIds |-> Due(epochs'[x])]
  BY Zenon DEF Claimable, Due
<1>3. epochs' = [x \in EpochIds |-> IF x = e THEN s ELSE epochs[x]]
  BY Zenon DEF EpochInv
<1>4. Claimable \in [EpochIds -> Nat]
  BY TablesAreNat, Zenon
<1> HIDE DEF Due
<1>5. /\ Claimable' \in [EpochIds -> Nat]
      /\ \A x \in EpochIds \ {e} : Claimable'[x] = Claimable[x]
      /\ Claimable[e] = Due(epochs[e]) /\ Claimable'[e] = Due(s)
  BY <1>1, <1>2, <1>3, <1>4, Zenon
<1>6. PICK f, g : f = Claimable /\ g = Claimable'
  BY Zenon
<1>7. Total(g) = Total(f) - f[e] + g[e] /\ f[e] <= Total(f)
  <2>1. f \in [EpochIds -> Nat] /\ g \in [EpochIds -> Nat] /\ \A x \in EpochIds \ {e} : g[x] = f[x]
    BY <1>4, <1>5, <1>6, Zenon
  <2>2. IsFiniteSet(EpochIds)
    BY Setting, Zenon
  <2> QED BY <2>1, <2>2, TotalChanges, RowWithinTotal
<1> QED BY <1>1, <1>5, <1>6, <1>7

\* A challenge that is opened owes its bond.
LEMMA OpenedBond ==
  ASSUME TypeInv, EpochInv, NEW c \in Challenge, ~c.settled, challenges' = Append(challenges, c)
  PROVE  /\ Total(OpenBonds') = Total(OpenBonds) + c.bond
         /\ challenges' \in Seq(Challenge)
<1> DEFINE new == Len(challenges) + 1
<1>1. /\ challenges \in Seq(Challenge) /\ challenges' \in Seq(Challenge)
      /\ DOMAIN challenges = 1 .. Len(challenges) /\ Len(challenges) \in Nat
      /\ DOMAIN challenges' = 1 .. new
      /\ \A k \in DOMAIN challenges : challenges'[k] = challenges[k]
      /\ challenges'[new] = c
  BY DEF TypeInv
<1>2. OpenBonds \in [DOMAIN challenges -> Nat] /\ c.bond \in Nat
  BY TablesAreNat, Zenon DEF Challenge
<1>3. /\ OpenBonds' \in [1 .. new -> Nat]
      /\ \A k \in DOMAIN challenges : OpenBonds[k] = OpenBonds'[k]
      /\ OpenBonds'[new] = c.bond
  <2>1. \A k \in DOMAIN challenges : OpenBonds[k] = OpenBonds'[k]
    BY <1>1 DEF OpenBonds
  <2>2. OpenBonds'[new] = c.bond
    BY <1>1 DEF OpenBonds
  <2>3. OpenBonds' = [k \in 1 .. new |-> OpenBonds'[k]]
    BY <1>1, Zenon DEF OpenBonds
  <2>4. \A k \in 1 .. new : OpenBonds'[k] \in Nat
    BY <1>1, <1>2, <2>1, <2>2
  <2> QED BY <2>1, <2>2, <2>3, <2>4, Zenon
<1>4. PICK f, g, S, T : f = OpenBonds' /\ g = OpenBonds /\ S = 1 .. new /\ T = DOMAIN challenges
  BY Zenon
<1>5. Total(f) = Total(g) + f[new]
  <2>1. f \in [S -> Nat] /\ g \in [T -> Nat] /\ (\A k \in T : g[k] = f[k])
    BY <1>2, <1>3, <1>4, Zenon
  <2>4. IsFiniteSet(1 .. new)
    BY <1>1, FS_Interval
  <2>2. new \in 1 .. new /\ 1 .. Len(challenges) = (1 .. new) \ {new}
    BY <1>1
  <2> HIDE DEF new
  <2>3. new \in S /\ IsFiniteSet(S) /\ T = S \ {new}
    BY <1>1, <1>4, <2>2, <2>4, Zenon
  <2> QED BY <2>1, <2>3, TotalWithout
<1> QED BY <1>1, <1>3, <1>4, <1>5
\* One account's credit changes.
LEMMA PendingChanges ==
  ASSUME TypeInv, NEW a \in Accounts, NEW v \in Nat, pending' = [pending EXCEPT ![a] = v]
  PROVE  /\ Total(pending') = Total(pending) - pending[a] + v
         /\ pending[a] \in Nat
<1>1. /\ pending \in [Accounts -> Nat] /\ pending' \in [Accounts -> Nat]
      /\ (\A x \in Accounts \ {a} : pending'[x] = pending[x]) /\ pending'[a] = v
  BY Zenon DEF TypeInv
<1>2. IsFiniteSet(Accounts)
  BY Setting, Zenon
<1>3. PICK f, g : f = pending /\ g = pending'
  BY Zenon
<1>4. Total(g) = Total(f) - f[a] + g[a]
  <2>1. f \in [Accounts -> Nat] /\ g \in [Accounts -> Nat] /\ \A x \in Accounts \ {a} : g[x] = f[x]
    BY <1>1, <1>3, Zenon
  <2> QED BY <1>2, <2>1, TotalChanges
<1> QED BY <1>1, <1>3, <1>4

\* A payment, made or credited, leaves the contract with as much less as it owes less.
LEMMA PayBalance ==
  ASSUME TypeInv, EpochInv, NEW m, m.eth \in Int, NEW to \in Accounts, NEW amount \in Nat,
         Paid(m.eth, to, amount)
  PROVE  /\ money'.eth - Total(pending') = m.eth - amount - Total(pending)
         /\ Total(pending') \in Nat /\ money'.eth \in Int
<1>1. Total(pending) \in Nat
  BY TablesAreNat, Zenon
<1>2. CASE money'.eth = m.eth - amount /\ pending' = pending
  BY <1>1, <1>2
<1>3. CASE money'.eth = m.eth /\ pending' = [pending EXCEPT ![to] = pending[to] + amount]
  <2>1. PICK v : v = pending[to] + amount
    BY Zenon
  <2>2. v \in Nat /\ pending[to] \in Nat /\ pending' = [pending EXCEPT ![to] = v]
    BY <1>3, <2>1 DEF TypeInv
  <2>3. Total(pending') = Total(pending) - pending[to] + v
    BY <2>2, PendingChanges, Zenon
  <2> QED BY <1>1, <1>3, <2>1, <2>2, <2>3
<1> QED BY <1>2, <1>3, Zenon DEF Paid

\* Evidence moves no money.
LEMMA RevealedBonds ==
  ASSUME TypeInv, NEW i \in DOMAIN challenges,
         challenges' = [challenges EXCEPT ![i].revealed = TRUE]
  PROVE  OpenBonds' = OpenBonds
<1>1. /\ DOMAIN challenges' = DOMAIN challenges
      /\ \A k \in DOMAIN challenges : challenges[k] \in Challenge
      /\ \A k \in DOMAIN challenges \ {i} : challenges'[k] = challenges[k]
      /\ challenges'[i] = [challenges[i] EXCEPT !.revealed = TRUE]
  BY DEF TypeInv
<1>2. challenges'[i].settled = challenges[i].settled /\ challenges'[i].bond = challenges[i].bond
  BY <1>1, Zenon DEF Challenge
<1>3. ASSUME NEW k \in DOMAIN challenges
      PROVE  challenges'[k].settled = challenges[k].settled /\ challenges'[k].bond = challenges[k].bond
  BY <1>1, <1>2, Zenon
<1> QED BY <1>1, <1>3, Zenon DEF OpenBonds

\* The transactions that leave the rewards of the epochs alone.
LEMMA SameClaimable ==
  ASSUME TypeInv, EpochInv, NEW e \in EpochIds, NEW x, NEW y,
         InitEpochNonce(e, x) \/ ProcessEpochBatches(e, x) \/ SubmitBatch(x, e, y)
  PROVE  Claimable' = Claimable
<1>1. RewardsOK(epochs[e], now) /\ BatchesOK(e, epochs[e].batches, now, sigUsed)
  BY Zenon DEF EpochInv
<1>2. ASSUME NEW s, epochs' = [epochs EXCEPT ![e] = s], Due(s) = Due(epochs[e])
      PROVE  Claimable' = Claimable
  <2>1. epochs' = [d \in EpochIds |-> IF d = e THEN s ELSE epochs[d]]
    BY <1>2, Zenon DEF EpochInv
  <2>2. \A d \in EpochIds : Due(epochs'[d]) = Due(epochs[d])
    BY <1>2, <2>1, Zenon
  <2>3. /\ Claimable = [d \in EpochIds |-> Due(epochs[d])]
        /\ Claimable' = [d \in EpochIds |-> Due(epochs'[d])]
    BY Zenon DEF Claimable, Due
  <2> QED BY <2>2, <2>3, Zenon
<1>3. CASE InitEpochNonce(e, x)
  <2>1. PICK s : s = [epochs[e] EXCEPT !.nonce = x]
    BY Zenon
  <2>2. epochs' = [epochs EXCEPT ![e] = s]
    BY <1>3, <2>1, Zenon DEF InitEpochNonce
  <2>3. Due(s) = Due(epochs[e])
    BY <1>1, <2>1, NonceKeepsEpoch
  <2> QED BY <1>2, <2>2, <2>3, Zenon
<1>4. CASE ProcessEpochBatches(e, x)
  <2>1. PICK s : s = ProcessBatches(epochs[e], x)
    BY Zenon
  <2>2. epochs' = [epochs EXCEPT ![e] = s]
    BY <1>4, <2>1, Zenon DEF ProcessEpochBatches
  <2>3. s.total = epochs[e].total /\ s.claimed = epochs[e].claimed /\ s.swept = epochs[e].swept
    BY <1>1, <2>1, ProcessKeeps
  <2>4. Due(s) = Due(epochs[e])
    BY <2>3, Zenon DEF Due
  <2> QED BY <1>2, <2>2, <2>4, Zenon
<1>5. CASE SubmitBatch(x, e, y)
  <2>1. PICK bs : epochs' = [epochs EXCEPT ![e].batches = bs]
    BY <1>5, Zenon DEF SubmitBatch
  <2>2. PICK o, s : o = epochs[e] /\ s = [o EXCEPT !.batches = bs]
    BY Zenon
  <2>3. o = [nonce |-> o.nonce, batches |-> o.batches, cursor |-> o.cursor, valid |-> o.valid,
             finalized |-> o.finalized, at |-> o.at, root |-> o.root, total |-> o.total,
             claimed |-> o.claimed, claimers |-> o.claimers, swept |-> o.swept]
    BY <1>1, <2>2, Zenon DEF RewardsOK, IsEpoch
  <2>4. s.total = o.total /\ s.claimed = o.claimed /\ s.swept = o.swept
    BY <2>2, <2>3, Zenon
  <2>5. epochs' = [epochs EXCEPT ![e] = s]
    BY <2>1, <2>2, Zenon
  <2>6. Due(s) = Due(epochs[e])
    BY <2>2, <2>4 DEF Due
  <2> QED BY <1>2, <2>5, <2>6, Zenon
<1> QED BY <1>3, <1>4, <1>5, Zenon

\* Every transaction moves as much as it records.
LEMMA StepMoney ==
  ASSUME TypeInv, EpochInv, MoneyInv, [Next]_vars
  PROVE  MoneyInv'
<1>1. /\ money \in [pool : Nat, insurance : Nat, eth : Int] /\ sunk \in Nat
      /\ money.pool \in Nat /\ money.insurance \in Nat /\ money.eth \in Int
      /\ now \in Nat /\ IsWorkload(workload)
  BY Basics, Zenon
<1>2. /\ Total(Bonds) \in Nat /\ Total(OpenBonds) \in Nat /\ Total(Claimable) \in Nat
      /\ Total(pending) \in Nat
  BY TablesAreNat, Zenon
<1>3. /\ UNCHANGED node => Bonds' = Bonds
      /\ UNCHANGED challenges => OpenBonds' = OpenBonds
      /\ UNCHANGED epochs => Claimable' = Claimable
  BY Zenon DEF Bonds, OpenBonds, Claimable
<1>4. ASSUME UNCHANGED <<money, sunk, pending>>, Bonds' = Bonds, OpenBonds' = OpenBonds,
             Claimable' = Claimable
      PROVE  MoneyInv'
  BY <1>4, Zenon DEF MoneyInv
<1>5. ASSUME NEW a \in Accounts, NEW n \in NodeIds, NEW p, RegisterNode(a, n, p) PROVE MoneyInv'
  <2>1. PICK bond, w : /\ bond = RequiredBond(count[a])
                       /\ w = [op |-> a, bond |-> bond, active |-> TRUE]
    BY Zenon
  <2>2. /\ node' = [node EXCEPT ![n] = w] /\ ~node[n].active
        /\ money' = [money EXCEPT !.eth = @ + bond]
        /\ UNCHANGED <<epochs, challenges, pending, sunk>>
    BY <1>5, <2>1, Zenon DEF RegisterNode
  <2>3. TypeInv'
    BY <1>5, RegisterTypes, Zenon
  <2>4. w \in NodeRec /\ w.bond = bond /\ bond \in Nat
    <3>1. node'[n] = w /\ node'[n] \in NodeRec
      BY <2>2, <2>3 DEF TypeInv
    <3> QED BY <2>1, <3>1 DEF NodeRec
  <2>5. Total(Bonds') = Total(Bonds) - node[n].bond + bond
    BY <2>2, <2>4, BondChanges, Zenon
  <2>6. node[n].bond = 0
    BY <2>2 DEF TypeInv, NodeRec
  <2>7. /\ money'.eth = money.eth + bond /\ money'.pool = money.pool
        /\ money'.insurance = money.insurance
    BY <1>1, <2>2, Zenon
  <2>8. OpenBonds' = OpenBonds /\ Claimable' = Claimable
    BY <1>3, <2>2, Zenon
  <2> QED BY <1>1, <1>2, <2>2, <2>4, <2>5, <2>6, <2>7, <2>8 DEF MoneyInv
<1>6. ASSUME NEW x \in workload.commit, OpenChallenge(x[1], x[2]) PROVE MoneyInv'
  <2>1. PICK c : c = [by |-> x[1], leaf |-> x[2], bond |-> ChallengeBond,
                      deadline |-> now + RevealWindow, revealed |-> FALSE, settled |-> FALSE]
    BY Zenon
  <2>2. c \in Challenge /\ ~c.settled /\ c.bond = ChallengeBond /\ ChallengeBond \in Nat
    <3>1. x[1] \in Accounts /\ x[2] \in Leaf
      BY <1>1, Zenon DEF IsWorkload
    <3>2. now + RevealWindow \in Nat /\ ChallengeBond \in Nat
      BY <1>1, Setting
    <3> QED BY <2>1, <3>1, <3>2, Zenon DEF Challenge
  <2>3. /\ challenges' = Append(challenges, c) /\ money' = [money EXCEPT !.eth = @ + ChallengeBond]
        /\ UNCHANGED <<node, epochs, pending, sunk>>
    BY <1>6, <2>1, Zenon DEF OpenChallenge, nodeVars
  <2>4. Total(OpenBonds') = Total(OpenBonds) + ChallengeBond
    BY <2>2, <2>3, OpenedBond, Zenon
  <2>5. /\ money'.eth = money.eth + ChallengeBond /\ money'.pool = money.pool
        /\ money'.insurance = money.insurance
    BY <1>1, <2>2, <2>3, Zenon
  <2>6. Bonds' = Bonds /\ Claimable' = Claimable
    BY <1>3, <2>3, Zenon
  <2>7. UNCHANGED <<pending, sunk>> /\ ChallengeBond \in Nat
    BY <2>2, <2>3, Zenon
  <2> QED BY <1>1, <1>2, <2>4, <2>5, <2>6, <2>7 DEF MoneyInv
<1>7. ASSUME NEW i \in DOMAIN challenges, NEW e, NEW b, RevealChallenge(i, e, b) PROVE MoneyInv'
  <2>1. /\ challenges' = [challenges EXCEPT ![i].revealed = TRUE]
        /\ UNCHANGED <<node, epochs, money, pending, sunk>>
    BY <1>7, Zenon DEF RevealChallenge, nodeVars, cash
  <2> QED BY <1>3, <1>4, <2>1, RevealedBonds, Zenon
\* The bond of a challenge goes to the insurance.
<1>8. ASSUME NEW i \in DOMAIN challenges, ~challenges[i].settled,
             challenges' = [challenges EXCEPT ![i].settled = TRUE],
             money' = [money EXCEPT !.insurance = @ + challenges[i].bond],
             UNCHANGED <<node, epochs, pending, sunk>>
      PROVE  MoneyInv'
  <2>1. /\ Total(OpenBonds') = Total(OpenBonds) - challenges[i].bond
        /\ challenges[i].bond \in Nat
    BY <1>8, SettledBond, Zenon
  <2>2. /\ money'.eth = money.eth /\ money'.pool = money.pool
        /\ money'.insurance = money.insurance + challenges[i].bond
    BY <1>1, <1>8, <2>1, Zenon
  <2>3. Bonds' = Bonds /\ Claimable' = Claimable
    BY <1>3, <1>8, Zenon
  <2> QED BY <1>1, <1>2, <1>8, <2>1, <2>2, <2>3 DEF MoneyInv
<1>9. ASSUME NEW i \in DOMAIN challenges, SettleUnrevealed(i) PROVE MoneyInv'
  <2>1. /\ ~challenges[i].settled /\ challenges' = [challenges EXCEPT ![i].settled = TRUE]
        /\ money' = [money EXCEPT !.insurance = @ + challenges[i].bond]
        /\ UNCHANGED <<node, epochs, pending, sunk>>
    BY <1>9, Zenon DEF SettleUnrevealed, nodeVars
  <2> QED BY <1>8, <2>1, Zenon
<1>10. ASSUME NEW i \in DOMAIN challenges, SettleRevealed(i) PROVE MoneyInv'
  <2>1. /\ ~challenges[i].settled /\ challenges' = [challenges EXCEPT ![i].settled = TRUE]
        /\ UNCHANGED epochs
    BY <1>10, Zenon DEF SettleRevealed
  <2>2. CASE /\ money' = [money EXCEPT !.insurance = @ + challenges[i].bond]
             /\ UNCHANGED <<pending, node, active, slashed, sunk>>
    BY <1>8, <2>1, <2>2, Zenon
  <2>3. ASSUME NEW cut \in Nat, NEW burnt \in Nat, NEW reward \in Nat, NEW w,
               Slashes(i, cut, burnt, reward, w)
        PROVE  MoneyInv'
    <3>1. PICK n, bond : n = challenges[i].leaf.node /\ bond = challenges[i].bond
      BY Zenon
    <3>2. n \in NodeIds /\ challenges[i].by \in Accounts /\ bond \in Nat
      BY <3>1, ChallengeTypes, Zenon
    <3>3. /\ node' = [node EXCEPT ![n] = w] /\ w \in NodeRec /\ w.bond = node[n].bond - cut
          /\ sunk' = sunk + burnt
      BY <2>3, <3>1, Zenon DEF Slashes
    <3>4. node[n].bond \in Nat /\ w.bond \in Nat
      BY <3>2, <3>3, Zenon DEF TypeInv, NodeRec
    <3>5. Total(Bonds') = Total(Bonds) - node[n].bond + w.bond
      BY <3>2, <3>3, BondChanges, Zenon
    <3>6. Total(OpenBonds') = Total(OpenBonds) - bond
      BY <2>1, <3>1, SettledBond, Zenon
    <3>7. /\ money'.pool = money.pool
          /\ money'.insurance = money.insurance + cut - burnt - reward
      BY <2>3, SlashTypes
    <3>8. PICK amount : amount = bond + reward
      BY Zenon
    <3>9. amount \in Nat
      BY <3>2, <3>8
    <3>10. /\ money'.eth - Total(pending') = money.eth - amount - Total(pending)
           /\ Total(pending') \in Nat /\ money'.eth \in Int
      <4>1. Paid(money.eth, challenges[i].by, challenges[i].bond + reward)
        BY <2>3, SlashTypes, Zenon
      <4>2. Paid(money.eth, challenges[i].by, amount)
        BY <3>1, <3>8, <4>1, Zenon
      <4> QED BY <1>1, <3>2, <3>9, <4>2, PayBalance, Zenon
    <3>11. Claimable' = Claimable
      BY <1>3, <2>1, Zenon
    <3>12. Total(Bonds') = Total(Bonds) - cut
      BY <1>2, <3>3, <3>4, <3>5
    <3>13. money'.pool + money'.insurance + sunk' = money.pool + money.insurance + sunk + cut - reward
      BY <1>1, <3>3, <3>7
    <3>14. money'.eth - Total(pending') = money.eth - (bond + reward) - Total(pending)
      BY <3>8, <3>10, Zenon
    <3>15. /\ money'.pool \in Int /\ money'.insurance \in Int /\ sunk' \in Int
           /\ Total(pending') \in Int /\ money'.eth \in Int
      BY <1>1, <3>3, <3>7, <3>10
    <3> QED BY <1>1, <1>2, <3>2, <3>6, <3>11, <3>12, <3>13, <3>14, <3>15 DEF MoneyInv
  <2> QED BY <1>10, <2>2, <2>3, SettleEffect
<1>11. ASSUME NEW e \in EpochIds, NEW root \in SUBSET Reward, NEW total \in Nat,
              FinalizeEpoch(e, root, total)
       PROVE  MoneyInv'
  <2>1. PICK s : /\ epochs' = [epochs EXCEPT ![e] = s] /\ RewardsOK(s, now)
                 /\ Due(epochs[e]) = 0 /\ Due(s) = total
    BY <1>1, <1>11, FinalizeEffect, Zenon
  <2>2. Total(Claimable') = Total(Claimable) - 0 + total
    BY <2>1, ClaimableChanges, Zenon
  <2>3. /\ total <= money.pool /\ money' = [money EXCEPT !.pool = @ - total]
        /\ UNCHANGED <<node, challenges, pending, sunk>>
    BY <1>11, Zenon DEF FinalizeEpoch, nodeVars
  <2>4. /\ money'.eth = money.eth /\ money'.pool = money.pool - total
        /\ money'.insurance = money.insurance
    BY <1>1, <2>3, Zenon
  <2>5. Bonds' = Bonds /\ OpenBonds' = OpenBonds
    BY <1>3, <2>3, Zenon
  <2> QED BY <1>1, <1>2, <2>2, <2>3, <2>4, <2>5 DEF MoneyInv
<1>12. ASSUME NEW e \in EpochIds, NEW r \in epochs[e].root, Claim(e, r) PROVE MoneyInv'
  <2>1. r \in Reward
    BY <1>1, <1>12, ClaimEffect, Zenon
  <2>2. PICK s : /\ epochs' = [epochs EXCEPT ![e] = s] /\ RewardsOK(s, now)
                 /\ Due(s) = Due(epochs[e]) - r.amount
    BY <1>1, <1>12, ClaimEffect, Zenon
  <2>3. /\ Total(Claimable') = Total(Claimable) - Due(epochs[e]) + Due(s)
        /\ Due(epochs[e]) \in Nat /\ Due(s) \in Nat
    BY <2>2, ClaimableChanges, Zenon
  <2>4. r.amount \in Nat
    BY <2>1, Zenon DEF Reward
  <2>5. /\ money' = [money EXCEPT !.eth = @ - r.amount]
        /\ UNCHANGED <<node, challenges, pending, sunk>>
    BY <1>12, Zenon DEF Claim, nodeVars
  <2>6. /\ money'.eth = money.eth - r.amount /\ money'.pool = money.pool
        /\ money'.insurance = money.insurance
    BY <1>1, <2>5, Zenon
  <2>7. Bonds' = Bonds /\ OpenBonds' = OpenBonds
    BY <1>3, <2>5, Zenon
  <2> QED BY <1>1, <1>2, <2>2, <2>3, <2>4, <2>5, <2>6, <2>7 DEF MoneyInv
<1>13. ASSUME NEW e \in EpochIds, SweepExpiredRewards(e) PROVE MoneyInv'
  <2>1. PICK s : s = [epochs[e] EXCEPT !.swept = TRUE]
    BY Zenon
  <2>2. PICK unclaimed, tithe : /\ unclaimed = epochs[e].total - epochs[e].claimed
                                /\ tithe = IF foundation THEN Share(unclaimed, 1000) ELSE 0
    OBVIOUS
  <2>3. /\ epochs' = [epochs EXCEPT ![e] = s]
        /\ epochs[e].finalized /\ ~epochs[e].swept /\ now > epochs[e].at + ClaimWindow
        /\ PayOrCredit(money, Foundation, tithe) /\ sunk' = sunk + unclaimed - tithe
        /\ UNCHANGED <<node, challenges>>
    <3>1. epochs' = [epochs EXCEPT ![e] = s]
      BY <1>13, <2>1, Zenon DEF SweepExpiredRewards
    <3>2. epochs[e].finalized /\ ~epochs[e].swept /\ now > epochs[e].at + ClaimWindow
      BY <1>13, Zenon DEF SweepExpiredRewards
    <3>3. PayOrCredit(money, Foundation, tithe) /\ sunk' = sunk + unclaimed - tithe
      BY <1>13, <2>2 DEF SweepExpiredRewards
    <3>4. UNCHANGED <<node, challenges>>
      BY <1>13, Zenon DEF SweepExpiredRewards, nodeVars
    <3> QED BY <3>1, <3>2, <3>3, <3>4, Zenon
  <2>4. RewardsOK(epochs[e], now)
    BY Zenon DEF EpochInv
  <2>5. RewardsOK(s, now) /\ Due(s) = 0 /\ Due(epochs[e]) = unclaimed
    BY <2>1, <2>2, <2>3, <2>4, SweepKeepsEpoch, Zenon
  <2>6. Total(Claimable') = Total(Claimable) - unclaimed + 0
    BY <2>3, <2>5, ClaimableChanges, Zenon
  <2>7. unclaimed \in Nat
    BY <2>2, <2>4 DEF RewardsOK
  <2>8. tithe \in Nat
    BY <2>2, <2>7 DEF Share
  <2>9. /\ money'.pool = money.pool /\ money'.insurance = money.insurance
        /\ Paid(money.eth, Foundation, tithe)
    BY <1>1, <2>3, <2>8, PayTypes, Setting, Zenon
  <2>10. /\ money'.eth - Total(pending') = money.eth - tithe - Total(pending)
         /\ Total(pending') \in Nat /\ money'.eth \in Int
    BY <1>1, <2>8, <2>9, PayBalance, Setting
  <2>11. Bonds' = Bonds /\ OpenBonds' = OpenBonds
    BY <1>3, <2>3, Zenon
  <2> QED BY <1>1, <1>2, <2>3, <2>6, <2>7, <2>8, <2>9, <2>10, <2>11 DEF MoneyInv
<1>14. ASSUME NEW a \in Accounts, WithdrawPayments(a) PROVE MoneyInv'
  <2>1. /\ pending' = [pending EXCEPT ![a] = 0] /\ money' = [money EXCEPT !.eth = @ - pending[a]]
        /\ UNCHANGED <<node, challenges, epochs, sunk>>
    BY <1>14, Zenon DEF WithdrawPayments, nodeVars
  <2>2. Total(pending') = Total(pending) - pending[a] + 0 /\ pending[a] \in Nat
    BY <2>1, PendingChanges, Zenon
  <2>3. /\ money'.eth = money.eth - pending[a] /\ money'.pool = money.pool
        /\ money'.insurance = money.insurance
    BY <1>1, <2>1, Zenon
  <2>4. Bonds' = Bonds /\ OpenBonds' = OpenBonds /\ Claimable' = Claimable
    BY <1>3, <2>1, Zenon
  <2> QED BY <1>1, <1>2, <2>1, <2>2, <2>3, <2>4 DEF MoneyInv
<1>15. ASSUME NEW v \in Nat, DepositRewardPool(v) \/ DepositInsurance(v) PROVE MoneyInv'
  <2>1. /\ \/ money' = [money EXCEPT !.pool = @ + v, !.eth = @ + v]
           \/ money' = [money EXCEPT !.insurance = @ + v, !.eth = @ + v]
        /\ UNCHANGED <<node, challenges, epochs, pending, sunk>>
    BY <1>15, Zenon DEF DepositRewardPool, DepositInsurance, nodeVars
  <2>2. /\ money'.eth = money.eth + v
        /\ \/ money'.pool = money.pool + v /\ money'.insurance = money.insurance
           \/ money'.pool = money.pool /\ money'.insurance = money.insurance + v
    BY <1>1, <2>1, Zenon
  <2>3. Bonds' = Bonds /\ OpenBonds' = OpenBonds /\ Claimable' = Claimable
    BY <1>3, <2>1, Zenon
  <2> QED BY <1>1, <1>2, <2>1, <2>2, <2>3 DEF MoneyInv
<1>16. ASSUME NEW e \in EpochIds, NEW x, NEW y,
              InitEpochNonce(e, x) \/ ProcessEpochBatches(e, x) \/ SubmitBatch(x, e, y)
       PROVE  MoneyInv'
  <2>1. UNCHANGED <<node, challenges, money, pending, sunk>>
    BY <1>16, Zenon DEF InitEpochNonce, ProcessEpochBatches, SubmitBatch, nodeVars, cash
  <2>2. Claimable' = Claimable
    BY <1>16, SameClaimable, Zenon
  <2> QED BY <1>3, <1>4, <2>1, <2>2, Zenon
<1>17. ASSUME NEW x, EnableEmission(x) \/ SetFoundationAddress \/ Tick \/ UNCHANGED vars
       PROVE  MoneyInv'
  <2>1. UNCHANGED <<node, challenges, epochs, money, pending, sunk>>
    BY <1>17, Zenon DEF EnableEmission, SetFoundationAddress, Tick, vars, nodeVars, cash
  <2> QED BY <1>3, <1>4, <2>1, Zenon
<1>18. /\ workload.insure \subseteq Nat /\ workload.fund \subseteq Nat
       /\ \A b \in workload.submit : b[2] \in EpochIds
       /\ \A r \in workload.register : r[1] \in Accounts /\ r[2] \in NodeIds
       /\ \A r \in workload.reward : r[1] \in EpochIds /\ r[2] \in SUBSET Reward /\ r[3] \in Nat
  BY <1>1 DEF IsWorkload
<1> QED
  BY <1>5, <1>6, <1>7, <1>9, <1>10, <1>11, <1>12, <1>13, <1>14, <1>15, <1>16, <1>17, <1>18, Zenon
     DEF Next
------------------------------------------------------------------------------
\* A larger amount has a larger share.
LEMMA ShareGrows ==
  ASSUME NEW x \in Nat, NEW y \in Nat, x <= y
  PROVE  Share(x, 500) <= Share(y, 500) /\ Share(x, 500) \in Nat /\ Share(y, 500) \in Nat
BY DEF Share

\* What a node lost, epoch by epoch, is a finite table of natural numbers.
LEMMA LostIsNat ==
  ASSUME slashed \in [EpochIds -> [NodeIds -> Nat]], NEW n \in NodeIds
  PROVE  Lost(n) \in [EpochIds -> Nat] /\ Total(Lost(n)) \in Nat
<1>1. Lost(n) \in [EpochIds -> Nat]
  BY Zenon DEF Lost
<1> QED BY <1>1, TotalIsNat, Setting, Zenon

\* Changing the row of one epoch changes the total by the difference.
LEMMA EpochTotalChanges ==
  ASSUME NEW f \in [EpochIds -> Nat], NEW g \in [EpochIds -> Nat], NEW e \in EpochIds,
         \A d \in EpochIds \ {e} : g[d] = f[d]
  PROVE  Total(g) = Total(f) - f[e] + g[e] /\ Total(f) \in Nat
<1>1. IsFiniteSet(EpochIds)
  BY Setting, Zenon
<1>2. Total(f) \in Nat
  BY <1>1, TotalIsNat, Zenon
<1>3. Total(g) = Total(f) - f[e] + g[e]
  BY <1>1, TotalChanges
<1> QED BY <1>2, <1>3, Zenon

\* A slash adds to the losses of one node in one epoch.
LEMMA LostGrows ==
  ASSUME slashed \in [EpochIds -> [NodeIds -> Nat]], slashed' \in [EpochIds -> [NodeIds -> Nat]],
         NEW n \in NodeIds, NEW e \in EpochIds, NEW cut \in Nat,
         \A d \in EpochIds, m \in NodeIds :
           slashed'[d][m] = IF d = e /\ m = n THEN slashed[e][n] + cut ELSE slashed[d][m]
  PROVE  /\ Total(Lost(n)') = Total(Lost(n)) + cut
         /\ \A m \in NodeIds \ {n} : Lost(m)' = Lost(m)
<1>1. \A m \in NodeIds \ {n} : Lost(m)' = Lost(m)
  BY Zenon DEF Lost
<1>2. PICK f, g : f = Lost(n) /\ g = Lost(n)'
  BY Zenon
<1>3. f \in [EpochIds -> Nat] /\ f[e] = slashed[e][n]
  BY <1>2 DEF Lost
<1>4. g \in [EpochIds -> Nat] /\ g[e] = slashed[e][n] + cut
  BY <1>2, Zenon DEF Lost
<1>5. \A d \in EpochIds \ {e} : g[d] = f[d]
  BY <1>2, Zenon DEF Lost
<1>6. Total(g) = Total(f) - f[e] + g[e] /\ Total(f) \in Nat
  BY <1>3, <1>4, <1>5, EpochTotalChanges, Zenon
<1>7. Total(g) = Total(f) + cut
  BY <1>3, <1>4, <1>6
<1> QED BY <1>1, <1>2, <1>7, Zenon

\* Every transaction keeps the losses of a node within the cap: what a slash takes from the
\* bond it adds to the losses, so the bond that the cap is taken of stays the same.
LEMMA StepSlash ==
  ASSUME TypeInv, EpochInv, SlashCapHolds, [Next]_vars
  PROVE  SlashCapHolds'
<1>1. /\ slashed \in [EpochIds -> [NodeIds -> Nat]] /\ IsWorkload(workload)
      /\ \A n \in NodeIds : node[n] \in NodeRec
      /\ \A n \in NodeIds : node[n].bond \in Nat
  BY Setting, Zenon DEF TypeInv, NodeRec
<1>2. \A n \in NodeIds : Total(Lost(n)) \in Nat
  BY <1>1, LostIsNat, Zenon
<1>3. ASSUME slashed' = slashed, \A n \in NodeIds : node'[n].bond = node[n].bond
      PROVE  SlashCapHolds'
  <2>1. \A n \in NodeIds : Lost(n)' = Lost(n)
    BY <1>3, Zenon DEF Lost
  <2> QED BY <1>3, <2>1 DEF SlashCapHolds
<1>4. ASSUME NEW a \in Accounts, NEW n \in NodeIds, NEW p, RegisterNode(a, n, p)
      PROVE  SlashCapHolds'
  <2> SUFFICES ASSUME NEW m \in NodeIds, NEW e \in EpochIds
               PROVE  slashed'[e][m] <= Share(node'[m].bond + Total(Lost(m)'), 500)
    BY Zenon DEF SlashCapHolds
  <2>1. slashed' = slashed /\ ~node[n].active
    BY <1>4, Zenon DEF RegisterNode
  <2>2. PICK w : node' = [node EXCEPT ![n] = w]
    BY <1>4, Zenon DEF RegisterNode
  <2>3. TypeInv'
    BY <1>4, RegisterTypes, Zenon
  <2>4. node'[m].bond \in Nat /\ node[m].bond \in Nat /\ node[m].bond <= node'[m].bond
    <3>1. node'[m].bond \in Nat
      BY <2>3, Zenon DEF TypeInv, NodeRec
    <3>2. CASE m = n
      <4>1. node[n].bond = 0
        BY <1>1, <2>1 DEF TypeInv
      <4> QED BY <3>1, <3>2, <4>1
    <3>3. CASE m # n
      <4>1. node'[m] = node[m]
        BY <2>2, <3>3, Zenon DEF TypeInv
      <4> QED BY <1>1, <4>1
    <3> QED BY <3>2, <3>3, Zenon
  <2>5. Lost(m)' = Lost(m)
    BY <2>1, Zenon DEF Lost
  <2>6. PICK x, y : x = node[m].bond + Total(Lost(m)) /\ y = node'[m].bond + Total(Lost(m))
    BY Zenon
  <2>7. x \in Nat /\ y \in Nat /\ x <= y
    BY <1>2, <2>4, <2>6
  <2>8. Share(x, 500) <= Share(y, 500) /\ Share(x, 500) \in Nat /\ Share(y, 500) \in Nat
    BY <2>7, ShareGrows
  <2>9. slashed[e][m] <= Share(x, 500) /\ slashed[e][m] \in Nat
    BY <1>1, <2>6 DEF SlashCapHolds
  <2>10. slashed[e][m] <= Share(y, 500)
    BY <2>8, <2>9
  <2> QED BY <2>1, <2>5, <2>6, <2>10, Zenon
<1>5. ASSUME NEW i \in DOMAIN challenges, NEW cut \in Nat, NEW burnt \in Nat, NEW reward \in Nat,
             NEW w, Slashes(i, cut, burnt, reward, w)
      PROVE  SlashCapHolds'
  <2> SUFFICES ASSUME NEW m \in NodeIds, NEW d \in EpochIds
               PROVE  slashed'[d][m] <= Share(node'[m].bond + Total(Lost(m)'), 500)
    BY Zenon DEF SlashCapHolds
  <2>1. PICK n, e : n = challenges[i].leaf.node /\ e = challenges[i].leaf.epoch
    BY Zenon
  <2>2. n \in NodeIds /\ e \in EpochIds
    BY <2>1, ChallengeTypes, Zenon
  <2>3. /\ node[n].active /\ cut = SlashAmount(n, e)
        /\ w.bond = node[n].bond - cut /\ w \in NodeRec
        /\ node' = [node EXCEPT ![n] = w]
        /\ slashed' = [slashed EXCEPT ![e][n] = @ + cut]
    BY <1>5, <2>1, Zenon DEF Slashes
  <2>4. /\ Total(Lost(n)') = Total(Lost(n)) + cut
        /\ \A k \in NodeIds \ {n} : Lost(k)' = Lost(k)
        /\ slashed'[d][m] = IF d = e /\ m = n THEN slashed[e][n] + cut ELSE slashed[d][m]
    <3>1. PICK row : row = [slashed[e] EXCEPT ![n] = slashed[e][n] + cut]
      BY Zenon
    <3>2. slashed' = [slashed EXCEPT ![e] = row] /\ slashed[e] \in [NodeIds -> Nat]
      BY <1>1, <2>2, <2>3, <3>1, Zenon
    <3>3. /\ row \in [NodeIds -> Nat] /\ row[n] = slashed[e][n] + cut
          /\ \A k \in NodeIds \ {n} : row[k] = slashed[e][k]
      BY <2>2, <3>1, <3>2
    <3>4. slashed' \in [EpochIds -> [NodeIds -> Nat]]
      BY <1>1, <2>2, <3>2, <3>3, Zenon
    <3>5. \A x \in EpochIds : slashed'[x] = IF x = e THEN row ELSE slashed[x]
      BY <1>1, <3>2, Zenon
    <3>6. \A x \in EpochIds, k \in NodeIds :
            slashed'[x][k] = IF x = e /\ k = n THEN slashed[e][n] + cut ELSE slashed[x][k]
      BY <3>3, <3>5, Zenon
    <3>7. Total(Lost(n)') = Total(Lost(n)) + cut /\ \A k \in NodeIds \ {n} : Lost(k)' = Lost(k)
      BY <1>1, <2>2, <3>4, <3>6, LostGrows, Zenon
    <3> QED BY <3>6, <3>7, Zenon
  <2>5. slashed[d][m] <= Share(node[m].bond + Total(Lost(m)), 500)
    BY DEF SlashCapHolds
  <2>6. CASE m # n
    <3>1. node'[m] = node[m]
      BY <2>3, <2>6, Zenon DEF TypeInv
    <3> QED BY <2>4, <2>5, <2>6, <3>1, Zenon
  <2>7. CASE m = n
    <3>1. PICK x, y : x = node[n].bond /\ y = x + Total(Lost(n))
      BY Zenon
    <3>2. x \in Nat /\ y \in Nat /\ x <= y
      <4>1. node[n].bond \in Nat /\ Total(Lost(n)) \in Nat
        BY <1>1, <1>2, <2>2, Zenon
      <4> QED BY <3>1, <4>1
    <3>3. node'[n].bond = x - cut
      BY <2>2, <2>3, <3>1, Zenon DEF TypeInv
    <3>4. node'[n].bond + Total(Lost(n)') = y
      <4>1. Total(Lost(n)) \in Nat /\ Total(Lost(n)') = Total(Lost(n)) + cut
        BY <1>2, <2>2, <2>4, Zenon
      <4> QED BY <3>1, <3>2, <3>3, <4>1
    <3>5. CASE d = e
      <4>1. slashed'[e][n] = slashed[e][n] + cut
        BY <2>4, <2>7, <3>5, Zenon
      <4>2. slashed[e][n] + cut <= Share(x, 500) \/ cut = 0
        BY <2>2, <2>3, <3>1, SlashLeavesBond, Zenon
      <4>3. Share(x, 500) <= Share(y, 500) /\ Share(x, 500) \in Nat /\ Share(y, 500) \in Nat
        BY <3>2, ShareGrows
      <4>4. slashed[e][n] \in Nat /\ slashed[e][n] <= Share(y, 500)
        BY <1>1, <2>2, <2>5, <2>7, <3>1, <3>5, Zenon
      <4>5. slashed[e][n] + cut <= Share(y, 500)
        BY <4>2, <4>3, <4>4
      <4> QED BY <2>7, <3>4, <3>5, <4>1, <4>5, Zenon
    <3>6. CASE d # e
      <4>1. slashed'[d][m] = slashed[d][m]
        BY <2>4, <3>6, Zenon
      <4> QED BY <2>5, <2>7, <3>1, <3>4, <4>1
    <3> QED BY <3>5, <3>6, Zenon
  <2> QED BY <2>6, <2>7, Zenon
<1>6. ASSUME NEW i \in DOMAIN challenges, SettleRevealed(i) PROVE SlashCapHolds'
  BY <1>3, <1>5, <1>6, SettleEffect, Zenon
<1>7. ASSUME UNCHANGED <<slashed, node>> PROVE SlashCapHolds'
  BY <1>3, <1>7, Zenon
<1>8. ASSUME NEW x, NEW y, NEW z,
             \/ InitEpochNonce(x, y) \/ SubmitBatch(x, y, z) \/ OpenChallenge(x, y)
             \/ RevealChallenge(x, y, z) \/ SettleUnrevealed(x) \/ ProcessEpochBatches(x, y)
             \/ Claim(x, y) \/ WithdrawPayments(x) \/ DepositRewardPool(x) \/ DepositInsurance(x)
             \/ EnableEmission(x) \/ SetFoundationAddress \/ Tick \/ UNCHANGED vars
      PROVE  SlashCapHolds'
  <2>1. UNCHANGED <<slashed, node>>
    BY <1>8, Zenon DEF InitEpochNonce, SubmitBatch, OpenChallenge, RevealChallenge, SettleUnrevealed,
                ProcessEpochBatches, Claim, WithdrawPayments, DepositRewardPool,
                DepositInsurance, EnableEmission, SetFoundationAddress, Tick, vars, nodeVars
  <2> QED BY <1>7, <2>1, Zenon
<1>9. ASSUME NEW x, NEW y, NEW z, FinalizeEpoch(x, y, z) PROVE SlashCapHolds'
  BY <1>7, <1>9, Zenon DEF FinalizeEpoch, nodeVars
<1>10. ASSUME NEW x, SweepExpiredRewards(x) PROVE SlashCapHolds'
  BY <1>7, <1>10, Zenon DEF SweepExpiredRewards, nodeVars
<1>11. \A r \in workload.register : r[1] \in Accounts /\ r[2] \in NodeIds
  BY <1>1, Zenon DEF IsWorkload
<1> QED BY <1>4, <1>6, <1>8, <1>9, <1>10, <1>11, Zenon DEF Next
------------------------------------------------------------------------------
\* The invariant holds of a new contract.
LEMMA InitIsSound ==
  ASSUME Init
  PROVE  PInv
<1>1. /\ TypeInv /\ EpochInv
      /\ \A e \in EpochIds : epochs[e].total = 0 /\ epochs[e].claimed = 0 /\ ~epochs[e].swept
  BY InitTypes, Zenon
<1>2. MoneyInv
  <2>1. Bonds = [n \in NodeIds |-> 0] /\ pending = [a \in Accounts |-> 0]
    BY Zenon DEF Init, Bonds
  <2>2. OpenBonds = [i \in {} |-> 0]
    BY DEF Init, OpenBonds
  <2>3. Claimable = [e \in EpochIds |-> 0]
    <3>1. \A e \in EpochIds : Due(epochs[e]) = 0
      BY <1>1 DEF Due
    <3> QED BY <3>1, Zenon DEF Claimable, Due
  <2>4. /\ Total(Bonds) = 0 /\ Total(pending) = 0 /\ Total(OpenBonds) = 0 /\ Total(Claimable) = 0
    BY <2>1, <2>2, <2>3, TotalOfZeros, Zenon
  <2>5. money.eth = 0 /\ money.pool = 0 /\ money.insurance = 0 /\ sunk = 0
    BY Zenon DEF Init
  <2> QED BY <2>4, <2>5 DEF MoneyInv
<1>3. SlashCapHolds
  <2> SUFFICES ASSUME NEW n \in NodeIds, NEW e \in EpochIds
               PROVE  slashed[e][n] <= Share(node[n].bond + Total(Lost(n)), 500)
    BY Zenon DEF SlashCapHolds
  <2>1. node[n].bond = 0 /\ slashed[e][n] = 0
    BY Zenon DEF Init
  <2>2. Total(Lost(n)) \in Nat
    BY <1>1, LostIsNat, Zenon DEF TypeInv
  <2>3. PICK x : x = node[n].bond + Total(Lost(n))
    BY Zenon
  <2>4. x \in Nat
    BY <2>1, <2>2, <2>3
  <2>5. Share(x, 500) \in Nat
    BY <2>4, ShareGrows
  <2> QED BY <2>1, <2>3, <2>5
<1> QED BY <1>1, <1>2, <1>3, Zenon DEF PInv

\* The invariant is inductive.
LEMMA PInvHolds == Spec => []PInv
<1>1. PInv /\ [Next]_vars => PInv'
  BY StepType, StepEpoch, StepMoney, StepSlash, Zenon DEF PInv
<1> QED BY <1>1, InitIsSound, PTL DEF Spec

\* For any number of nodes, epochs, accounts and challenges and any amounts, whichever
\* payments fail: what the contract holds is what it owes, to the unit; a node loses at
\* most five per cent of its bond for one epoch, however many challenges hit it; and no
\* attestation of a witness counts towards two batches (PoSeManagerV2.sol).
THEOREM SettlementIsSoundThm == Spec => []SettlementIsSound
<1>1. PInv => SettlementIsSound
  <2> SUFFICES ASSUME PInv PROVE SettlementIsSound
    BY Zenon
  <2>1. TypeInv /\ EpochInv /\ MoneyInv /\ SlashCapHolds
    BY Zenon DEF PInv
  <2>2. /\ money \in [pool : Nat, insurance : Nat, eth : Int] /\ sunk \in Nat
        /\ money.pool \in Nat /\ money.insurance \in Nat
    BY <2>1, Zenon DEF TypeInv
  <2>3. money.eth \in Nat
    <3>1. /\ Total(Bonds) \in Nat /\ Total(OpenBonds) \in Nat /\ Total(Claimable) \in Nat
          /\ Total(pending) \in Nat
      BY <2>1, TablesAreNat, Zenon
    <3> QED BY <2>1, <2>2, <3>1 DEF MoneyInv
  <2>4. money \in [pool : Nat, insurance : Nat, eth : Nat]
    BY <2>2, <2>3, Zenon
  <2>5. \A n \in NodeIds : node[n].active <=> n \in Range(active)
    BY <2>1 DEF TypeInv, Range
  <2>6. TypeOK
    BY <2>1, <2>4, <2>5, Zenon DEF TypeInv, TypeOK, NodeRec
  <2>7. \A e \in EpochIds : epochs[e].claimed <= epochs[e].total
    BY <2>1, Zenon DEF EpochInv, RewardsOK
  <2>8. Conserved
    BY <2>1, <2>6, <2>7, Zenon DEF Conserved, MoneyInv
  <2>9. AttestationsCountOnce
    BY <2>1, Zenon DEF EpochInv, BatchesOK, AttestationsCountOnce
  <2> QED BY <2>1, <2>8, <2>9, Zenon DEF SettlementIsSound
<1> QED BY <1>1, PInvHolds, PTL
==============================================================================
