------------------------------ MODULE BftQuorum ------------------------------
(***************************************************************************)
(* Stake-weighted quorum arithmetic of node/src/bft.ts.                    *)
(*                                                                         *)
(* A validator set is a function  stake \in [ids -> Nat]:  its domain is   *)
(* the array's ids, its values the stakes.                                 *)
(***************************************************************************)
EXTENDS Totals

CONSTANT
  MaxSafeInteger   \* Number.MAX_SAFE_INTEGER, the threshold nobody reaches

ASSUME SafeIntegerAssumption == MaxSafeInteger \in Nat \ {0}

\* The validator sets the code can be configured with.
ValidatorSet(stake) ==
  /\ IsFiniteSet(DOMAIN stake)
  /\ stake \in [DOMAIN stake -> Nat]

\* An id outside the validator set has no stake.
AccumulatedStake(ids, stake) == Total(Part(stake, ids))

TotalStake(stake) == AccumulatedStake(DOMAIN stake, stake)

QuorumThreshold(stake, relaxed) ==
  LET total == TotalStake(stake) IN
  IF total = 0 THEN MaxSafeInteger
  ELSE IF relaxed THEN (2 * total) \div 3
  ELSE (2 * total) \div 3 + 1

HasQuorum(ids, stake, relaxed) ==
  AccumulatedStake(ids, stake) >= QuorumThreshold(stake, relaxed)
==============================================================================
