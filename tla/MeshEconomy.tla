----------------------------- MODULE MeshEconomy -----------------------------
(***************************************************************************)
(* The $MESH contracts together: settlement/StorageRewardManager.sol, the  *)
(* only minter of token/MeshToken.sol, and token/MeshVesting.sol, which    *)
(* holds the team's share of the genesis supply.  A relayer schedules the  *)
(* rewards of an epoch against a linear unlock, operators claim them by    *)
(* Merkle proof within a window, anybody sweeps the rest afterwards.       *)
(* Who holds the roles of owner, relayer and beneficiary is not modelled.  *)
(***************************************************************************)
EXTENDS Integers, FiniteSets, FiniteSetsExt

CONSTANTS Nodes,        \* storage nodes, each its own operator
          Team,         \* the beneficiary of the vesting
          Treasury, Manager, Vesting,
          Epochs, Rewards,   \* a reward tree: node -> amount
          Totals, Rates, Pool, TeamSupply, Duration, Window, Prices, MaxTime, MaxPayments

Holders == Nodes \cup {Team, Treasury, Manager, Vesting}

VARIABLES now,          \* the current epoch
          rate, baseline, anchor,
          scheduled, rewarded,
          epochs,       \* what was submitted for an epoch
          balanceOf, totalSupply, totalMinted, totalBurned,
          vestingStart, released, payments

rewardVars == <<rate, baseline, anchor, scheduled, rewarded, epochs>>
tokenVars == <<balanceOf, totalSupply, totalMinted, totalBurned>>
vars == <<now, rewardVars, tokenVars, vestingStart, released, payments>>

NotSubmitted == [tree |-> [n \in Nodes |-> 0], total |-> 0, at |-> 0, swept |-> FALSE, claimed |-> {}]

Init ==
  /\ now = 1 /\ rate \in Rates /\ baseline = 0 /\ anchor = 1 /\ scheduled = 0 /\ rewarded = 0
  /\ epochs = [e \in Epochs |-> NotSubmitted]
  /\ balanceOf = [h \in Holders |-> IF h = Vesting THEN TeamSupply ELSE 0]
  /\ totalSupply = TeamSupply /\ totalMinted = 0 /\ totalBurned = 0
  /\ vestingStart = 0 /\ released = 0 /\ payments = 0

UnlockedToDate ==
  LET unlocked == IF now < anchor THEN baseline ELSE baseline + (now - anchor + 1) * rate
  IN IF unlocked > Pool THEN Pool ELSE unlocked

SetEmissionPerEpoch(new) ==
  /\ rate' = new /\ baseline' = UnlockedToDate /\ anchor' = now + 1
  /\ UNCHANGED <<now, scheduled, rewarded, epochs, tokenVars, vestingStart, released, payments>>

\* The total is the relayer's word: it need not be the sum of the tree.
SubmitStorageEpoch(e, tree, total) ==
  /\ epochs[e].total = 0 /\ scheduled + total <= UnlockedToDate
  /\ epochs' = [epochs EXCEPT ![e] = [NotSubmitted EXCEPT !.tree = tree, !.total = total, !.at = now]]
  /\ scheduled' = scheduled + total
  /\ UNCHANGED <<now, rate, baseline, anchor, rewarded, tokenVars, vestingStart, released, payments>>

Paid(s) == MapThenSumSet(LAMBDA n : s.tree[n], s.claimed)

Mintable(amount) == totalMinted + amount <= Pool /\ totalSupply + amount <= Pool + TeamSupply

InWindow(s) == now <= s.at + Window

Claimable(e, n) ==
  LET s == epochs[e]
  IN s.total > 0 /\ s.tree[n] > 0 /\ n \notin s.claimed /\ InWindow(s) /\ Paid(s) + s.tree[n] <= s.total

Claim(e, n) ==
  LET amount == epochs[e].tree[n]
  IN /\ Claimable(e, n) /\ Mintable(amount)
     /\ epochs' = [epochs EXCEPT ![e].claimed = @ \cup {n}] /\ rewarded' = rewarded + amount
     /\ totalMinted' = totalMinted + amount /\ totalSupply' = totalSupply + amount
     /\ balanceOf' = [balanceOf EXCEPT ![n] = @ + amount]
     /\ UNCHANGED <<now, rate, baseline, anchor, scheduled, totalBurned, vestingStart, released, payments>>

SweepUnclaimed(e) ==
  LET s == epochs[e]
  IN /\ s.total > 0 /\ ~s.swept /\ now > s.at + Window
     /\ epochs' = [epochs EXCEPT ![e].swept = TRUE] /\ scheduled' = scheduled - (s.total - Paid(s))
     /\ UNCHANGED <<now, rate, baseline, anchor, rewarded, tokenVars, vestingStart, released, payments>>

(***************************************************************************)
(* Storage payments: 70 percent to the node, 20 to the treasury, the rest, *)
(* with what rounding leaves, is burnt.  The payer has given an allowance. *)
(***************************************************************************)
PayForStorage(payer, n, amount) ==
  LET toNode == (amount * 7000) \div 10000
      toTreasury == (amount * 2000) \div 10000
      toBurn == amount - toNode - toTreasury
      Moved(h) == (IF h = n THEN toNode ELSE 0) + (IF h = Treasury THEN toTreasury ELSE 0)
                  - (IF h = payer THEN amount ELSE 0)
  IN /\ balanceOf[payer] >= amount /\ payments < MaxPayments
     /\ balanceOf' = [h \in Holders |-> balanceOf[h] + Moved(h)]
     /\ totalSupply' = totalSupply - toBurn /\ totalBurned' = totalBurned + toBurn /\ payments' = payments + 1
     /\ UNCHANGED <<now, rewardVars, totalMinted, vestingStart, released>>

SetMeshToken ==
  /\ vestingStart = 0 /\ vestingStart' = now
  /\ UNCHANGED <<now, rewardVars, tokenVars, released, payments>>

VestedAmount ==
  IF vestingStart = 0 THEN 0
  ELSE IF now - vestingStart >= Duration THEN TeamSupply ELSE (TeamSupply * (now - vestingStart)) \div Duration

Release(amount) ==
  /\ vestingStart # 0 /\ amount > 0 /\ amount <= VestedAmount - released /\ balanceOf[Vesting] >= amount
  /\ released' = released + amount
  /\ balanceOf' = [balanceOf EXCEPT ![Vesting] = @ - amount, ![Team] = @ + amount]
  /\ UNCHANGED <<now, rewardVars, totalSupply, totalMinted, totalBurned, vestingStart, payments>>

NextEpoch ==
  /\ now < MaxTime /\ now' = now + 1
  /\ UNCHANGED <<rewardVars, tokenVars, vestingStart, released, payments>>

Next ==
  \/ NextEpoch \/ SetMeshToken
  \/ \E r \in Rates : SetEmissionPerEpoch(r)
  \/ \E e \in Epochs : SweepUnclaimed(e)
  \/ \E e \in Epochs, tree \in Rewards, total \in Totals : SubmitStorageEpoch(e, tree, total)
  \/ \E e \in Epochs, n \in Nodes : Claim(e, n)
  \/ \E n \in Nodes, payer \in {Team} \cup Nodes, amount \in Prices : PayForStorage(payer, n, amount)
  \/ \E amount \in 1 .. TeamSupply : Release(amount)

Spec == Init /\ [][Next]_vars
------------------------------------------------------------------------------
(***************************************************************************)
(* The books close: every token is in somebody's balance, what was minted  *)
(* is what was claimed, and the schedule, which sweeps give back to, never *)
(* exceeds the unlock nor falls below what was paid, so that a claim the   *)
(* manager accepts is never refused by the token's own cap.                *)
(***************************************************************************)
BooksClose ==
  /\ MapThenSumSet(LAMBDA h : balanceOf[h], Holders) = totalSupply
  /\ totalMinted = rewarded /\ totalSupply = TeamSupply + totalMinted - totalBurned
  /\ rewarded <= scheduled /\ scheduled <= UnlockedToDate
  /\ balanceOf[Vesting] = TeamSupply - released
  /\ \A e \in Epochs, n \in Nodes : Claimable(e, n) => Mintable(epochs[e].tree[n])

(***************************************************************************)
(* An emission rate that changes does not reach back: no call moves the    *)
(* unlocked amount within an epoch, and an epoch adds at most the largest  *)
(* rate that was in force.                                                 *)
(***************************************************************************)
UnlocksGradually ==
  /\ UnlockedToDate' >= UnlockedToDate
  /\ now' = now => UnlockedToDate' = UnlockedToDate
  /\ UnlockedToDate' - UnlockedToDate <= rate
UnlockIsGradual == [][UnlocksGradually]_vars
==============================================================================
