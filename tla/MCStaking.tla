------------------------------ MODULE MCStaking ------------------------------
(***************************************************************************)
(* From a double vote to what it costs, in one run; a behaviour is about   *)
(* one of three.                                                           *)
(*   contract  ValidatorRegistry with its detector and insurance fund: two *)
(*             validators, one double vote reported in either order.       *)
(*   node      the governance of the node: three validators, two           *)
(*             proposals, two offences.                                    *)
(*   detector  two validators, three heights, two blocks; caps of two      *)
(*             heights, four entries and three per validator, so every     *)
(*             eviction happens.                                           *)
(***************************************************************************)
EXTENDS ValidatorRegistry, TLC
CONSTANTS v1, v2, v3
VARIABLES side,   \* what the behaviour is about
          stake, seats, power, proposals, nextId, epoch, treasury, reported,
          watched, accepted, pushes

\* One double vote, reported with its hashes in either order.
MCEvidenceSet == [node : {v1}, phase : {"commit"}, height : {1}, a : {1, 2}, b : {1, 2}]

Governance == INSTANCE ValidatorGovernance
  WITH Ids <- {v1, v2, v3}, Genesis <- (v1 :> 4) @@ (v2 :> 2), Stakes <- {1, 6},
       MinStake <- 2, MaxValidators <- 2, Threshold <- 67, MinVoter <- 50, Duration <- 1,
       Retention <- 1, SlashPercent <- 50, Offences <- {<<v1, 1>>, <<v2, 1>>},
       MaxProposals <- 2, MaxEpoch <- 2, active <- seats, consumed <- reported
ASSUME Governance!GovernanceAssumption

MCPhases == {"prepare"}
\* w signs at the lowest height only, v everywhere.
MCSignable ==
  [v : {"v"}, h : {1, 2, 3}, p : MCPhases, b : {"a", "b"}]
    \cup [v : {"w"}, h : {1}, p : MCPhases, b : {"a", "b"}]
MCClaims == [v : {"v", "w"}, h : {1, 2}, p : MCPhases, b1 : {"a"}, b2 : {"a", "b"}]
Watch == INSTANCE EquivocationSpec
  WITH Validators <- {"v", "w"}, Blocks <- {"a", "b"}, Heights <- {1, 2, 3},
       VotePhases <- MCPhases, Signable <- MCSignable, Claims <- MCClaims,
       MaxTracked <- 2, MaxEvidence <- 4, MaxPerValidator <- 3, MaxSteps <- 5, detector <- watched
ASSUME Watch!DetectorAssumption

governanceVars == <<stake, seats, power, proposals, nextId, epoch, treasury, reported>>
detectorVars == <<watched, accepted, pushes>>

MCInit == /\ side \in {"contract", "node", "detector"}
          /\ Init /\ Governance!Init /\ Watch!Init
MCNext ==
  \/ side = "contract" /\ Next /\ UNCHANGED <<side, governanceVars, detectorVars>>
  \/ side = "node" /\ Governance!Next /\ UNCHANGED <<side, vars, detectorVars>>
  \/ side = "detector" /\ Watch!Next /\ UNCHANGED <<side, vars, governanceVars>>
mcvars == <<side, vars, governanceVars, detectorVars>>
MCSpec == MCInit /\ [][MCNext]_mcvars

\* Approvals rest on the electorate of the proposal (ValidatorGovernance).
ApprovedByElectorate == side = "node" => Governance!ApprovedByElectorate

\* Votes keep the set legal, and nobody in it has too small a stake (ValidatorGovernance).
VotesKeepSetLegal == [][side = "node" => Governance!KeepsSetLegal]_mcvars

\* Accused is who signed twice, and who signed twice is caught (EquivocationSpec).
EvidenceIsExact == side = "detector" => Watch!EvidenceIsExact

\* Nobody's evidence is flushed by somebody else's (EquivocationSpec).
NoFlushing == [][side = "detector" => Watch!FlushesNobody]_mcvars
==============================================================================
