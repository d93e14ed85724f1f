------------------------------- MODULE Rollup --------------------------------
(***************************************************************************)
(* contracts/contracts-src/rollup/RollupStateManager.sol: output roots of  *)
(* the optimistic rollup, and their challenges.  One action per external   *)
(* function; a call that reverts changes nothing and is not a step.  A     *)
(* payment may be refused by its receiver, and is then credited.  Who has  *)
(* the role that a function asks for is not modelled, and neither is the   *)
(* root itself: the resolver finds it right or wrong.                      *)
(***************************************************************************)
EXTENDS Naturals, FiniteSets, FiniteSetsExt

CONSTANTS Proposers, Challengers, Insurance, Numbers, Window, ProposerBonds, ChallengerBond,
          MaxTime, MaxBurnt

VARIABLES outputs, challenges, lastSubmitted, latestFinalized,
          bond,          \* PROPOSER_BOND, which an upgrade may change
          pending, balance, burnt, verdicts, now

rollup == <<outputs, challenges, lastSubmitted, latestFinalized, bond,
            pending, balance, burnt, verdicts>>
vars == <<rollup, now>>

Users == Proposers \cup Challengers \cup {Insurance}
NoOutput == [at |-> 0, proposer |-> "none", challenged |-> FALSE, finalized |-> FALSE, bond |-> 0]
NoChallenge == [at |-> 0, challenger |-> "none", bond |-> 0, resolved |-> FALSE]

\* verdicts is a ghost: when the number was last judged.
Init ==
  /\ outputs = [n \in Numbers |-> NoOutput] /\ challenges = [n \in Numbers |-> NoChallenge]
  /\ lastSubmitted = 0 /\ latestFinalized = 0
  /\ bond \in ProposerBonds /\ pending = [u \in Users |-> 0]
  /\ balance = 0 /\ burnt = 0 /\ verdicts = [n \in Numbers |-> 0]
  /\ now = 1

\* _payOrCredit: pays is the set of receivers that accept a transfer.
PayOrCredit(amounts, pays) ==
  LET due == [u \in DOMAIN pending |-> IF u \in DOMAIN amounts THEN amounts[u] ELSE 0]
      refused(u) == IF u \in pays THEN 0 ELSE due[u]
      paid(u) == IF u \in pays THEN due[u] ELSE 0
  IN /\ pending' = [u \in DOMAIN pending |-> pending[u] + refused(u)]
     /\ balance' = balance - MapThenSumSet(paid, DOMAIN pending)

SubmitOutputRoot(u, n) ==
  /\ n > lastSubmitted /\ outputs[n].at = 0
  /\ outputs' = [outputs EXCEPT ![n] = [at |-> now, proposer |-> u,
                                        challenged |-> FALSE, finalized |-> FALSE, bond |-> bond]]
  /\ lastSubmitted' = n /\ balance' = balance + bond
  /\ UNCHANGED <<challenges, latestFinalized, bond, pending, burnt, verdicts, now>>

ChallengeOutputRoot(u, n) ==
  /\ outputs[n].at # 0 /\ ~outputs[n].finalized /\ ~outputs[n].challenged
  /\ now <= outputs[n].at + Window
  /\ outputs' = [outputs EXCEPT ![n].challenged = TRUE]
  /\ challenges' = [challenges EXCEPT ![n] = [at |-> now, challenger |-> u, bond |-> ChallengerBond, resolved |-> FALSE]]
  /\ balance' = balance + ChallengerBond
  /\ UNCHANGED <<lastSubmitted, latestFinalized, bond, pending, burnt, verdicts, now>>

Burned(b) == (b * 5000) \div 10000
Reward(b) == (b * 3000) \div 10000

Resolvable(n) == challenges[n].at # 0 /\ ~challenges[n].resolved


Slashed(n) == outputs[n].bond

ResolveAgainstProposer(n, pays) ==
  /\ Resolvable(n) /\ burnt < MaxBurnt
  /\ LET b == Slashed(n) c == challenges[n] IN
     /\ PayOrCredit([x \in {c.challenger, Insurance} |->
          IF x = Insurance THEN b - Burned(b) - Reward(b) ELSE c.bond + Reward(b)], pays)
     /\ burnt' = burnt + Burned(b)
  /\ outputs' = [outputs EXCEPT ![n] = NoOutput]
  /\ challenges' = [challenges EXCEPT ![n].resolved = TRUE]
  /\ lastSubmitted' = IF n = lastSubmitted THEN 0 ELSE lastSubmitted
  /\ verdicts' = [verdicts EXCEPT ![n] = now]
  /\ UNCHANGED <<latestFinalized, bond, now>>

ResolveForProposer(n, pays) ==
  /\ Resolvable(n)
  /\ PayOrCredit([x \in {outputs[n].proposer} |-> challenges[n].bond], pays)
  /\ challenges' = [challenges EXCEPT ![n].resolved = TRUE]
  /\ verdicts' = [verdicts EXCEPT ![n] = now]
  /\ UNCHANGED <<outputs, lastSubmitted, latestFinalized, bond, burnt, now>>

Undisputed(n) ==
  IF outputs[n].challenged THEN challenges[n].resolved ELSE now > outputs[n].at + Window

FinalizeOutput(n, pays) ==
  /\ outputs[n].at # 0 /\ ~outputs[n].finalized /\ Undisputed(n)
  /\ outputs' = [outputs EXCEPT ![n].finalized = TRUE]
  /\ PayOrCredit([x \in {outputs[n].proposer} |-> outputs[n].bond], pays)
  /\ latestFinalized' = IF n > latestFinalized THEN n ELSE latestFinalized
  /\ UNCHANGED <<challenges, lastSubmitted, bond, burnt, verdicts, now>>

WithdrawPayments(u) ==
  /\ pending[u] > 0
  /\ pending' = [pending EXCEPT ![u] = 0] /\ balance' = balance - pending[u]
  /\ UNCHANGED <<outputs, challenges, lastSubmitted, latestFinalized, bond, burnt, verdicts, now>>

\* An upgrade changes the bond that later proposals have to post.
ChangeBond ==
  /\ bond' \in ProposerBonds \ {bond}
  /\ UNCHANGED <<outputs, challenges, lastSubmitted, latestFinalized, pending, balance, burnt, verdicts, now>>

Tick == now < MaxTime /\ now' = now + 1 /\ UNCHANGED rollup

Next ==
  \/ \E n \in Numbers :
       \/ \E u \in Proposers : SubmitOutputRoot(u, n)
       \/ \E u \in Challengers : ChallengeOutputRoot(u, n)
       \/ \E pays \in {{}, Users} :
            ResolveAgainstProposer(n, pays) \/ ResolveForProposer(n, pays) \/ FinalizeOutput(n, pays)
  \/ \E u \in Users : WithdrawPayments(u)
  \/ ChangeBond \/ Tick

Spec == Init /\ [][Next]_vars
------------------------------------------------------------------------------
Open == {n \in Numbers : outputs[n].at # 0 /\ ~outputs[n].finalized}

\* What the contract still has to pay: escrowed bonds, and what was refused.
Owed ==
  LET bonds(n) == outputs[n].bond
      stakes(n) == challenges[n].bond
      credit(u) == pending[u]
  IN MapThenSumSet(bonds, Open)
     + MapThenSumSet(stakes, {n \in Numbers : Resolvable(n)})
     + MapThenSumSet(credit, DOMAIN pending)

(***************************************************************************)
(* The contract holds what it owes, and apart from what it burns nothing   *)
(* more: no order of submissions, challenges, verdicts, resubmissions,     *)
(* refused payments and changes of the bond pays a bond twice or loses it. *)
(***************************************************************************)
HoldsWhatItOwes == balance = Owed + burnt

(***************************************************************************)
(* A root that becomes final was open to a challenge for the whole window, *)
(* or was challenged and upheld by a verdict of its own, not by one that a *)
(* rejected root of the same number has left; and it then stays as it is.  *)
(***************************************************************************)
FinalizesAfterScrutiny ==
  \A n \in Numbers :
    /\ outputs[n].finalized => outputs'[n] = outputs[n]
    /\ ~outputs[n].finalized /\ outputs'[n].finalized =>
         \/ ~outputs[n].challenged /\ now > outputs[n].at + Window
         \/ outputs[n].challenged /\ verdicts[n] >= outputs[n].at /\ challenges[n].at >= outputs[n].at
FinalAfterScrutiny == [][FinalizesAfterScrutiny]_vars
==============================================================================
