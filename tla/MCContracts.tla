----------------------------- MODULE MCContracts -----------------------------
(***************************************************************************)
(* The contracts that hold money, in one run; a behaviour is about one of  *)
(* six.                                                                    *)
(*   pose        PoSeManagerV2 under four workloads: two nodes of two      *)
(*               operators whose attestations form quorums; two challenges *)
(*               with the same evidence in two batches; two with evidence  *)
(*               of two epochs; rewards of two epochs whose reward root    *)
(*               promises more than the budget.                            *)
(*   poseV1      PoSeManager: two nodes of one operator, one batch.        *)
(*   rollup      RollupStateManager: two outputs, one verdict each.        *)
(*   economy     the token, its vesting and the storage rewards: two       *)
(*               storage epochs of two nodes.                              *)
(*   governance  the DAO with the treasury: two members, one proposal, one *)
(*               withdrawal above the cap.                                 *)
(*   treasury    the treasury by itself: two of three candidates sign, two *)
(*               withdrawals.                                              *)
(* Every part but the first keeps its state in the variables s1, s2, ...   *)
(***************************************************************************)
EXTENDS PoSeManagerV2

CONSTANTS own, op1, op2, n1, n2
VARIABLES side, s1, s2, s3, s4, s5, s6, s7, s8, s9, s10, s11, s12, s13, s14

MCFault(e) == [epoch |-> e, node |-> n1, code |-> 1]
MCGood == [epoch |-> 0, node |-> n2, code |-> 0]
MCIdle == [register |-> {<<op1, n1, 1>>}, seeds |-> {}, submit |-> {}, commit |-> {},
           insure |-> {}, fund |-> {}, genesis |-> {}, reward |-> {<<0, {}, 0>>}]
MCWorkloads ==
  {[MCIdle EXCEPT !.register = @ \cup {<<op2, n2, 2>>, <<op1, n2, 3>>}, !.seeds = {1},
                  !.submit = {<<op1, 0, {MCFault(0)}>>, <<own, 0, {MCFault(0), MCGood}>>}],
   [MCIdle EXCEPT !.reward = {}, !.commit = {<<op2, MCFault(0)>>},
                  !.submit = {<<op1, 0, {MCFault(0)}>>, <<op1, 0, {MCFault(0), MCGood}>>}],
   [MCIdle EXCEPT !.reward = {}, !.commit = {<<op2, MCFault(0)>>, <<op2, MCFault(1)>>},
                  !.submit = {<<op1, 0, {MCFault(0)}>>, <<op1, 1, {MCFault(1)}>>}],
   [MCIdle EXCEPT !.insure = {7}, !.fund = {20}, !.genesis = {0, 1},
                  !.reward = {<<e, {[node |-> n1, amount |-> 10], [node |-> n2, amount |-> 5]}, 12>>
                               : e \in EpochIds},
                  !.register = @ \cup {<<op2, n2, 2>>}]}
MCDraw(seed, i) == seed + i
FirstWorkload == CHOOSE w \in MCWorkloads : TRUE

PoSeV1 == INSTANCE PoSeManager
  WITH Operators <- {"o"}, Nobody <- "nobody", Nodes <- {"n", "m"},
       Endpoints <- {"e", "f"}, Epochs <- {1}, Aggregators <- {"a"}, MinBond <- 2,
       MaxNodes <- 2, DisputeWindow <- 1, UnbondDelay <- 2, SlashBps <- [v |-> 2000],
       Evidence <- {"v"}, Deposits <- {5}, MaxRewardBps <- 7000,
       Rewards <- [n |-> 3, m |-> 3], MaxTime <- 3, MaxBatches <- 1, MaxPaidIn <- 11,
       now <- s1, node <- s2, endpointUsed <- s3, count <- s4, batches <- s5,
       finalized <- s6, distributed <- s7, usedEvidence <- s8, pool <- s9,
       pending <- s10, balance <- s11, paidIn <- s12

Rollup == INSTANCE Rollup
  WITH Proposers <- {"p"}, Challengers <- {"c"}, Insurance <- "ins",
       Numbers <- {1, 2}, Window <- 1, ProposerBonds <- {10, 20}, ChallengerBond <- 3,
       MaxTime <- 3, MaxBurnt <- 5, outputs <- s1, challenges <- s2,
       lastSubmitted <- s3, latestFinalized <- s4, bond <- s5, pending <- s6,
       balance <- s7, burnt <- s8, verdicts <- s9, now <- s10

Economy == INSTANCE MeshEconomy
  WITH Nodes <- {"n", "m"}, Team <- "team", Treasury <- "treasury",
       Manager <- "manager", Vesting <- "vesting", Epochs <- {1, 2},
       Rewards <- {[n |-> 2, m |-> 1]}, Totals <- {2, 3}, Rates <- {1, 3}, Pool <- 6,
       TeamSupply <- 2, Duration <- 2, Window <- 1, Prices <- {3}, MaxTime <- 3,
       MaxPayments <- 1, now <- s1, rate <- s2, baseline <- s3, anchor <- s4,
       scheduled <- s5, rewarded <- s6, epochs <- s7, balanceOf <- s8,
       totalSupply <- s9, totalMinted <- s10, totalBurned <- s11, vestingStart <- s12,
       released <- s13, payments <- s14

MCParams == {[period |-> 1, delay |-> 1, quorum |-> 40, approval |-> 60, bicameral |-> b] : b \in BOOLEAN}
Dao == INSTANCE Governance
  WITH Accounts <- {"h", "c"}, Params <- MCParams, Candidates <- {"s1", "s2"},
       Threshold <- 2, Signers0 <- {"s1", "s2"}, Cap <- 500, Amounts <- {30},
       Deposits <- {40}, MaxProposals <- 1, MaxWithdrawals <- 1, MaxTime <- 3,
       faction <- s1, verified <- s2, params <- s3, proposals <- s4, signers <- s5,
       withdrawals <- s6, balance <- s7, pending <- s8, now <- s9

Treasury == INSTANCE Governance
  WITH Accounts <- {}, Params <- MCParams, Candidates <- {"s1", "s2", "s3"},
       Threshold <- 2, Signers0 <- {"s1", "s2"}, Cap <- 500, Amounts <- {1, 30},
       Deposits <- {40}, MaxProposals <- 0, MaxWithdrawals <- 2, MaxTime <- 0,
       faction <- s1, verified <- s2, params <- s3, proposals <- s4, signers <- s5,
       withdrawals <- s6, balance <- s7, pending <- s8, now <- s9

Unused12 == s13 = 0 /\ s14 = 0
Unused10 == s11 = 0 /\ s12 = 0 /\ Unused12
Unused9 == s10 = 0 /\ Unused10
Unused0 ==
  s1 = 0 /\ s2 = 0 /\ s3 = 0 /\ s4 = 0 /\ s5 = 0 /\ s6 = 0 /\ s7 = 0 /\ s8 = 0 /\ s9
  = 0 /\ Unused9
after9 == <<s10, s11, s12, s13, s14>>
after10 == <<s11, s12, s13, s14>>
after12 == <<s13, s14>>
slots == <<s1, s2, s3, s4, s5, s6, s7, s8, s9, s10, s11, s12, s13, s14>>

MCInit ==
  /\ Init
  /\ \/ side = "pose" /\ Unused0
     \/ side = "poseV1" /\ workload = FirstWorkload /\ PoSeV1!Init /\ Unused12
     \/ side = "rollup" /\ workload = FirstWorkload /\ Rollup!Init /\ Unused10
     \/ side = "economy" /\ workload = FirstWorkload /\ Economy!Init
     \/ side = "governance" /\ workload = FirstWorkload /\ Dao!Init /\ Unused9
     \/ side = "treasury" /\ workload = FirstWorkload /\ Treasury!Init /\ Unused9
MCNext ==
  \/ side = "pose" /\ Next /\ UNCHANGED <<side, slots>>
  \/ side = "poseV1" /\ PoSeV1!Next /\ UNCHANGED <<side, vars, after12>>
  \/ side = "rollup" /\ Rollup!Next /\ UNCHANGED <<side, vars, after10>>
  \/ side = "economy" /\ Economy!Next /\ UNCHANGED <<side, vars>>
  \/ side = "governance" /\ Dao!Next /\ UNCHANGED <<side, vars, after9>>
  \/ side = "treasury" /\ Treasury!Next /\ UNCHANGED <<side, vars, after9>>
mcvars == <<side, vars, slots>>
MCSpec == MCInit /\ [][MCNext]_mcvars


\* Nothing becomes final before its disputes are over, or is disputed afterwards
\* (PoSeManagerV2, PoSeManager, Rollup).
FinalAfterScrutiny ==
  [][/\ side = "pose" => SparesFinalBatches
     /\ side = "poseV1" => PoSeV1!SettlesAfterDispute
     /\ side = "rollup" => Rollup!FinalizesAfterScrutiny]_mcvars

\* Who proved a fault is refunded, emission does not reach back, and the treasury pays
\* what signers and chambers decided (PoSeManagerV2, MeshEconomy, Governance).
PayoutsAreDue ==
  [][/\ side = "pose" => RefundsProven
     /\ side = "economy" => Economy!UnlocksGradually
     /\ side = "governance" => Dao!PaysAuthorised /\ Dao!QueuesTheSpoken
     /\ side = "treasury" => Treasury!PaysAuthorised]_mcvars
==============================================================================
