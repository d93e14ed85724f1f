----------------------------- MODULE PoSeManager -----------------------------
(***************************************************************************)
(* contracts/contracts-src/settlement/PoSeManager.sol, the first version   *)
(* of the proof-of-service contract: nodes with bonds, batches of receipts *)
(* with a dispute window, settlement of an epoch, slashing and rewards.    *)
(* Merkle proofs, signatures and evidence bytes are judged before an       *)
(* action is taken: a call that would revert is not a step.                *)
(***************************************************************************)
EXTENDS Integers, FiniteSets, FiniteSetsExt

CONSTANTS Operators, Nobody, Nodes, Endpoints, Epochs, Aggregators, MinBond, MaxNodes,
          DisputeWindow, UnbondDelay, SlashBps, Evidence, Deposits, MaxRewardBps, Rewards,
          MaxTime, MaxBatches, MaxPaidIn

VARIABLES now, node,          \* the record of a node, its operator and unbondRequested
          endpointUsed, count,     \* endpointCommitmentUsed, operatorNodeCount
          batches, finalized, distributed, usedEvidence,
          pool, pending, balance, paidIn

moneyVars == <<pool, pending, balance, paidIn>>
batchVars == <<batches, finalized, distributed>>
vars == <<now, node, endpointUsed, count, usedEvidence, batchVars, moneyVars>>

Unregistered ==
  [operator |-> Nobody, active |-> FALSE, bond |-> 0, endpoint |-> Nobody, unlock |-> 0, unbonding |-> FALSE]

Init ==
  /\ now = 1 /\ node = [n \in Nodes |-> Unregistered] /\ endpointUsed = {} /\ count = [o \in Operators |-> 0]
  /\ batches = {} /\ finalized = {} /\ distributed = {} /\ usedEvidence = {}
  /\ pool = 0 /\ pending = [n \in Nodes |-> 0] /\ balance = 0 /\ paidIn = 0

RequiredBond(o) == MinBond * 2 ^ count[o]

\* A record that is not active is overwritten, with whatever bond it still has; unbondRequested is kept.
RegisterNode(o, n, e) ==
  LET bond == RequiredBond(o)
  IN /\ count[o] < MaxNodes /\ ~node[n].active /\ e \notin endpointUsed /\ paidIn + bond <= MaxPaidIn
     /\ endpointUsed' = endpointUsed \cup {e} /\ count' = [count EXCEPT ![o] = @ + 1]
     /\ node' = [node EXCEPT ![n] = [operator |-> o, active |-> TRUE, bond |-> bond, endpoint |-> e,
                                     unlock |-> now + UnbondDelay, unbonding |-> @.unbonding]]
     /\ balance' = balance + bond /\ paidIn' = paidIn + bond
     /\ UNCHANGED <<now, usedEvidence, batchVars, pool, pending>>

SubmitBatch(e, a) ==
  /\ e <= now /\ e \notin finalized /\ Cardinality(batches) < MaxBatches
  /\ \A b \in batches : <<b.epoch, b.aggregator>> # <<e, a>>
  /\ batches' = batches \cup {[epoch |-> e, aggregator |-> a, deadline |-> now + DisputeWindow,
                               disputed |-> FALSE, finalized |-> FALSE]}
  /\ UNCHANGED <<now, node, endpointUsed, count, usedEvidence, finalized, distributed, moneyVars>>

ChallengeBatch(b) ==
  /\ ~b.finalized /\ ~b.disputed /\ now <= b.deadline
  /\ batches' = (batches \ {b}) \cup {[b EXCEPT !.disputed = TRUE]}
  /\ UNCHANGED <<now, node, endpointUsed, count, usedEvidence, finalized, distributed, moneyVars>>

\* A plausible slip: only the window of the epoch counts, not the one of a batch that came late.
WindowsOverEpochOnly(e, open) == now > e + DisputeWindow

WindowsOver(e, open) == now > e + DisputeWindow /\ \A b \in open : now > b.deadline

FinalizeEpoch(e) ==
  LET open == {b \in batches : b.epoch = e /\ ~b.finalized /\ ~b.disputed}
  IN /\ e \notin finalized /\ open # {} /\ WindowsOver(e, open)
     /\ batches' = (batches \ open) \cup {[b EXCEPT !.finalized = TRUE] : b \in open}
     /\ finalized' = finalized \cup {e}
     /\ UNCHANGED <<now, node, endpointUsed, count, usedEvidence, distributed, moneyVars>>

\* The slashed part stays in the contract.
Slash(n, ev) ==
  LET bond == node[n].bond
      share == (bond * SlashBps[ev]) \div 10000
      amount == IF share = 0 THEN 1 ELSE share
  IN /\ bond > 0 /\ <<n, ev>> \notin usedEvidence /\ usedEvidence' = usedEvidence \cup {<<n, ev>>}
     /\ node' = [node EXCEPT ![n].bond = bond - amount, ![n].active = @ /\ bond > amount]
     /\ UNCHANGED <<now, endpointUsed, count, batchVars, moneyVars>>

RequestUnbond(n) ==
  /\ node[n].active /\ ~node[n].unbonding
  /\ node' = [node EXCEPT ![n].active = FALSE, ![n].unbonding = TRUE, ![n].unlock = now + UnbondDelay]
  /\ endpointUsed' = endpointUsed \ {node[n].endpoint}
  /\ count' = [count EXCEPT ![node[n].operator] = IF @ > 0 THEN @ - 1 ELSE 0]
  /\ UNCHANGED <<now, usedEvidence, batchVars, moneyVars>>

Withdraw(n) ==
  /\ node[n].unbonding /\ now >= node[n].unlock /\ node[n].bond > 0
  /\ balance >= node[n].bond
  /\ balance' = balance - node[n].bond
  /\ node' = [node EXCEPT ![n].bond = 0, ![n].unbonding = FALSE]
  /\ UNCHANGED <<now, endpointUsed, count, usedEvidence, batchVars, pool, pending, paidIn>>

DepositRewardPool(amount) ==
  /\ paidIn + amount <= MaxPaidIn
  /\ pool' = pool + amount /\ balance' = balance + amount /\ paidIn' = paidIn + amount
  /\ UNCHANGED <<now, node, endpointUsed, count, usedEvidence, batchVars, pending>>

\* The amounts that a list of two entries credits, each capped, the second by what the first left.
Credits(first, second) ==
  LET cap == (pool * MaxRewardBps) \div 10000
      Take(n, taken) == IF node[n].active THEN Min({Rewards[n], cap, pool - taken}) ELSE 0
      one == Take(first, 0)
  IN <<one, Take(second, one)>>

DistributeRewards(e, first, second) ==
  LET got == Credits(first, second)
      Of(n) == (IF n = first THEN got[1] ELSE 0) + (IF n = second THEN got[2] ELSE 0)
  IN /\ e \in finalized /\ e \notin distributed /\ distributed' = distributed \cup {e}
     /\ pending' = [n \in Nodes |-> pending[n] + Of(n)]
     /\ pool' = pool - (got[1] + got[2])
     /\ UNCHANGED <<now, node, endpointUsed, count, usedEvidence, batches, finalized, balance, paidIn>>

ClaimReward(n) ==
  /\ pending[n] > 0 /\ balance >= pending[n]
  /\ balance' = balance - pending[n] /\ pending' = [pending EXCEPT ![n] = 0]
  /\ UNCHANGED <<now, node, endpointUsed, count, usedEvidence, batchVars, pool, paidIn>>

NextEpoch == now < MaxTime /\ now' = now + 1 /\ UNCHANGED <<node, endpointUsed, count, usedEvidence, batchVars, moneyVars>>

Next ==
  \/ NextEpoch
  \/ \E o \in Operators, n \in Nodes, e \in Endpoints : RegisterNode(o, n, e)
  \/ \E e \in Epochs, a \in Aggregators : SubmitBatch(e, a)
  \/ \E b \in batches : ChallengeBatch(b)
  \/ \E e \in Epochs : FinalizeEpoch(e) \/ \E m, n \in Nodes : DistributeRewards(e, m, n)
  \/ \E n \in Nodes : RequestUnbond(n) \/ Withdraw(n) \/ ClaimReward(n) \/ \E ev \in Evidence : Slash(n, ev)
  \/ \E d \in Deposits : DepositRewardPool(d)

Spec == Init /\ [][Next]_vars
------------------------------------------------------------------------------
(***************************************************************************)
(* The contract holds every bond, every reward that was credited, and the  *)
(* pool, through registration, slashing, unbonding and distribution.       *)
(***************************************************************************)
HoldsWhatItOwes ==
  /\ pool >= 0
  /\ balance >= pool + MapThenSumSet(LAMBDA n : node[n].bond + pending[n], Nodes)

(***************************************************************************)
(* A batch is settled only undisputed and after its own dispute window,    *)
(* and an epoch that is settled takes no more batches.                     *)
(***************************************************************************)
SettlesAfterDispute ==
  /\ \A b \in batches' : b.finalized /\ [b EXCEPT !.finalized = FALSE] \in batches => ~b.disputed /\ now > b.deadline
  /\ \A b \in batches' : b.epoch \in finalized => b.finalized \/ b.disputed
SettledAfterDispute == [][SettlesAfterDispute]_vars
==============================================================================
