-------------------------- MODULE ValidatorGovernance ------------------------
(***************************************************************************)
(* class ValidatorGovernance (node/src/validator-governance.ts) and the    *)
(* class BftSlashingHandler (node/src/bft-slashing.ts) that reduces stakes *)
(* behind the back of open proposals.                                      *)
(***************************************************************************)
EXTENDS Integers, FiniteSets, FiniteSetsExt

CONSTANTS
  Ids,             \* validator ids
  Genesis,         \* [subset of Ids -> stake]: initGenesis
  Stakes,          \* stakes a proposal may name
  MinStake, MaxValidators,
  Threshold,       \* approvalThresholdPercent
  MinVoter,        \* minVoterPercent
  Duration,        \* proposalDurationEpochs
  Retention,       \* finalized proposals are kept that many epochs (100)
  SlashPercent,
  Offences,        \* <<validator, key>>: equivocations that may be reported
  MaxProposals, MaxEpoch   \* bounds

\* What the constants are like.
GovernanceAssumption ==
  /\ \A v \in DOMAIN Genesis : Genesis[v] >= MinStake
  /\ {MinStake, MaxValidators, Duration, Retention} \subseteq Nat \ {0}
  /\ {Threshold, MinVoter, SlashPercent} \subseteq 0 .. 100
  /\ Cardinality(DOMAIN Genesis) \in 1 .. MaxValidators

VARIABLES
  stake,     \* [Ids -> Nat]: 0 for an id never seen
  active,    \* ids of the active validators
  power,     \* [Ids -> basis points]: votingPower
  proposals, \* [subset of 1..MaxProposals -> proposal]
  nextId,    \* nextProposalId
  epoch,     \* currentEpoch
  treasury,  \* treasuryBalance
  consumed   \* consumedEvidence

vars == <<stake, active, power, proposals, nextId, epoch, treasury, consumed>>
setVars == <<stake, active, power>>

Sum(f, S) == MapThenSumSet(LAMBDA v : f[v], S)
Bps(part, total) == IF total > 0 THEN (part * 10000) \div total ELSE 0

\* recalcVotingPower for the new stakes s and active set a.
RecalcVotingPower(s, a) ==
  power' = [v \in Ids |-> IF v \in a THEN Bps(s[v], Sum(s, a)) ELSE 0]

SetValidators(s, a) == stake' = s /\ active' = a /\ RecalcVotingPower(s, a)

Init ==
  /\ stake = [v \in Ids |-> IF v \in DOMAIN Genesis THEN Genesis[v] ELSE 0]
  /\ active = DOMAIN Genesis
  /\ power = [v \in Ids |-> IF v \in active THEN Bps(stake[v], Sum(stake, active)) ELSE 0]
  /\ proposals = [i \in {} |-> {}]
  /\ nextId = 1 /\ epoch = 0 /\ treasury = 0
  /\ consumed = {}
------------------------------------------------------------------------------
\* submitProposal: the conditions it does not throw on.
MaySubmit(type, target, amount) ==
  CASE type = "add" ->
         /\ target \notin active
         /\ Cardinality(active) < MaxValidators
         /\ amount >= MinStake
    [] type = "stake" ->
         target \in active /\ amount >= MinStake /\ amount <= MinStake * 1000
    [] type = "remove" -> target \in active /\ Cardinality(active) > 1

SubmitProposal(type, target, proposer, amount) ==
  /\ nextId <= MaxProposals
  /\ proposer \in active
  /\ MaySubmit(type, target, amount)
  /\ nextId' = nextId + 1
  /\ proposals' = [i \in DOMAIN proposals \cup {nextId} |->
       IF i = nextId
       THEN [type |-> type, target |-> target,
             amount |-> IF type = "remove" THEN 0 ELSE amount, created |-> epoch,
             expires |-> epoch + Duration, yes |-> {}, no |-> {},
             snapshot |-> [v \in active |-> stake[v]], status |-> "pending"]
       ELSE proposals[i]]
  /\ UNCHANGED <<setVars, epoch, treasury, consumed>>

\* A plausible slip: the conditions at submission are trusted.
ExecuteUnchecked(p) ==
  CASE p.type = "add" ->
         SetValidators([stake EXCEPT ![p.target] = p.amount], active \cup {p.target})
    [] p.type = "remove" -> SetValidators(stake, active \ {p.target})
    [] p.type = "stake" -> SetValidators([stake EXCEPT ![p.target] = p.amount], active)

\* executeProposal, with the conditions it checks again.
ExecuteProposal(p) ==
  CASE p.type = "add" /\ Cardinality(active) < MaxValidators ->
         SetValidators([stake EXCEPT ![p.target] = p.amount], active \cup {p.target})
    [] p.type = "remove" /\ Cardinality(active) > 1 ->
         SetValidators(stake, active \ {p.target})
    [] p.type = "stake" /\ p.target \in active /\ p.amount >= MinStake ->
         SetValidators([stake EXCEPT ![p.target] = p.amount], active)
    [] OTHER -> UNCHANGED setVars

\* A plausible slip: votes are weighed with the stakes of the moment.
OutcomeNow(p) ==
  LET total == Sum(stake, active)
      voted == Bps(Sum(stake, (p.yes \cup p.no) \cap active), total)
      approval == Bps(Sum(stake, p.yes \cap active), total)
  IN  CASE voted < MinVoter * 100 -> "pending"
        [] voted >= MinVoter * 100 /\ approval >= Threshold * 100 -> "approved"
        [] voted >= 10000 /\ approval < Threshold * 100 -> "rejected"
        [] OTHER -> "pending"

\* resolveProposal: the status a proposal gets from its votes.
Outcome(p) ==
  LET total == Sum(p.snapshot, DOMAIN p.snapshot)
      voted == Bps(Sum(p.snapshot, p.yes \cup p.no), total)
      approval == Bps(Sum(p.snapshot, p.yes), total)
  IN  CASE voted < MinVoter * 100 -> "pending"
        [] voted >= MinVoter * 100 /\ approval >= Threshold * 100 -> "approved"
        [] voted >= 10000 /\ approval < Threshold * 100 -> "rejected"
        [] OTHER -> "pending"

Vote(i, voter, approve) ==
  LET p == proposals[i]
      q == IF approve THEN [p EXCEPT !.yes = @ \cup {voter}]
           ELSE [p EXCEPT !.no = @ \cup {voter}]
  IN
  /\ p.status = "pending"
  /\ voter \in DOMAIN p.snapshot
  /\ voter \notin p.yes \cup p.no
  /\ proposals' = [proposals EXCEPT ![i] = [q EXCEPT !.status = Outcome(q)]]
  /\ IF Outcome(q) = "approved" THEN ExecuteProposal(p) ELSE UNCHANGED setVars
  /\ UNCHANGED <<nextId, epoch, treasury, consumed>>

\* The loop of advanceEpoch.
Expire(e) ==
  [i \in DOMAIN proposals |->
     IF proposals[i].status = "pending" /\ e >= proposals[i].expires
     THEN [proposals[i] EXCEPT !.status = "expired"] ELSE proposals[i]]

\* pruneProposals
Prune(ps, e) ==
  LET cutoff == IF e > Retention THEN e - Retention ELSE 0
      kept == {i \in DOMAIN ps : ps[i].status = "pending" \/ ps[i].created >= cutoff}
  IN  [i \in kept |-> ps[i]]

AdvanceEpoch ==
  /\ epoch < MaxEpoch
  /\ epoch' = epoch + 1
  /\ proposals' = Prune(Expire(epoch'), epoch')
  /\ UNCHANGED <<setVars, nextId, treasury, consumed>>
------------------------------------------------------------------------------
\* shouldRemove, negated, and the zero-stake rule of applySlash.
StaysActive(remaining) == remaining >= MinStake /\ remaining > 0

\* handleEquivocation: slash once per offence, pay the treasury, and deactivate a
\* validator that falls below the minimum.
HandleEquivocation(o) ==
  LET v == o[1]
      amount == (stake[v] * SlashPercent) \div 100
      remaining == stake[v] - amount
  IN
  /\ v \in active
  /\ o \notin consumed
  /\ consumed' = consumed \cup {o}
  /\ treasury' = treasury + amount
  /\ SetValidators([stake EXCEPT ![v] = remaining],
                   IF StaysActive(remaining) THEN active ELSE active \ {v})
  /\ UNCHANGED <<proposals, nextId, epoch>>

\* initGenesis again, when a snapshot restores the validators; proposals stay.
RestoreValidators ==
  /\ SetValidators([v \in Ids |-> IF v \in DOMAIN Genesis THEN Genesis[v] ELSE 0],
                   DOMAIN Genesis)
  /\ UNCHANGED <<proposals, nextId, epoch, treasury, consumed>>

Next ==
  \/ \E type \in {"add", "remove", "stake"}, target \in Ids, proposer \in Ids,
        amount \in Stakes : SubmitProposal(type, target, proposer, amount)
  \/ \E i \in DOMAIN proposals, voter \in Ids, approve \in BOOLEAN : Vote(i, voter, approve)
  \/ AdvanceEpoch
  \/ \E o \in Offences : HandleEquivocation(o)
  \/ RestoreValidators

Spec == Init /\ [][Next]_vars
------------------------------------------------------------------------------
\* A proposal is approved only by the configured share of the electorate it was
\* opened with, whatever slashes and other proposals did to the set meanwhile.
ApprovedByElectorate ==
  \A i \in DOMAIN proposals : LET p == proposals[i] IN
    p.status = "approved" =>
      100 * Sum(p.snapshot, p.yes) >= Threshold * Sum(p.snapshot, DOMAIN p.snapshot)

\* Concurrent proposals, each legal when it was opened, neither overfill the set nor
\* vote the last validator out (only slashing can empty it); and through slashes, stake
\* updates, removals and re-additions consensus never counts a validator whose stake is
\* below the minimum.
KeepsSetLegal ==
  /\ Cardinality(active') <= MaxValidators
  /\ treasury' = treasury /\ active # {} => active' # {}
  /\ \A v \in active' : stake'[v] >= MinStake
VotesKeepSetLegal == [][KeepsSetLegal]_vars
==============================================================================
