------------------------------ MODULE MCChain --------------------------------
(***************************************************************************)
(* The chain of one node, in one run; a behaviour is about one of four     *)
(* parts.                                                                  *)
(*   fork      the fork choice: arrays of up to three candidates.          *)
(*   engine    the consensus engine with a change of the validator set.    *)
(*   syncing   the consensus engine with two syncs that may overlap.       *)
(*   schedule  three sets of validators in six blocks; one restart.        *)
(* The last two keep their state in the variables s1, s2, ...              *)
(***************************************************************************)
EXTENDS ForkChoice, ConsensusEngine

VARIABLES side, s1, s2, s3, s4, s5, s6, s7, s8, s9, s10, s11, s12, s13, s14, s15, s16,
          s17, s18, s19, s20, s21, s22, s23

\* Two values of every field, so that every rule decides some comparison; the last
\* rules are left to the higher chains.
MCCandidates ==
  {c \in [height : 1 .. 2, bftFinalized : BOOLEAN, cumulativeWeight : 1 .. 2,
           tipHash : 1 .. 2, peerId : 1 .. 2] : c.height = 1 => c.tipHash = 1 /\ c.peerId = 1}

\* Every race but one is harmless for some property: these sets leave each of the
\* properties a timing as unlucky as it tolerates.
MCTimings == {{"watchdog", "setChange"}, {"report", "applyFails"}}
FirstTimings == CHOOSE r \in MCTimings : TRUE

Syncing == INSTANCE ConsensusEngine
  WITH MaxFailures <- 1, Turns <- {1}, MaxHeight <- 1, MaxEra <- 0,
       Governance <- TRUE, Ticks <- {1}, Syncs <- {1, 2}, Timings <- {{}},
       status <- s1, proposeFailures <- s2, syncFailures <- s3, cooling <- s4,
       tick <- s5, proposeInFlight <- s6, lastHeight <- s7, lastBlock <- s8,
       sync <- s9, syncInFlight <- s10, overdue <- s11, override <- s12,
       stalled <- s13, watching <- s14, height <- s15, roundActive <- s16,
       prepared <- s17, finalized <- s18, finalizing <- s19, era <- s20, built <- s21,
       resent <- s22, races <- s23

Schedule == INSTANCE ValidatorSetSchedule
  WITH Sets <- {{1, 2}, {2, 3}, {3, 4}}, Static <- {1, 2}, Steady <- TRUE,
       MaxHeight <- 6, MaxRestarts <- 1, truth <- s1, current <- s2, entries <- s3,
       tip <- s4, restarts <- s5

Unused5 ==
  s6 = 0 /\ s7 = 0 /\ s8 = 0 /\ s9 = 0 /\ s10 = 0 /\ s11 = 0 /\ s12 = 0 /\ s13 = 0
  /\ s14 = 0 /\ s15 = 0 /\ s16 = 0 /\ s17 = 0 /\ s18 = 0 /\ s19 = 0 /\ s20 = 0 /\
  s21 = 0 /\ s22 = 0 /\ s23 = 0
Unused0 == s1 = 0 /\ s2 = 0 /\ s3 = 0 /\ s4 = 0 /\ s5 = 0 /\ Unused5
after5 == <<s6, s7, s8, s9, s10, s11, s12, s13, s14, s15, s16, s17, s18, s19, s20, s21, s22, s23>>
slots == <<s1, s2, s3, s4, s5, s6, s7, s8, s9, s10, s11, s12, s13, s14, s15, s16, s17,
           s18, s19, s20, s21, s22, s23>>

NoFork == candidates = <<>> /\ i = 2 /\ best = 0
NoEngine == Init /\ races = FirstTimings

MCInit ==
  \/ side = "fork" /\ ForkInit /\ NoEngine /\ Unused0
  \/ side = "engine" /\ NoFork /\ Init /\ Unused0
  \/ side = "syncing" /\ NoFork /\ NoEngine /\ Syncing!Init
  \/ side = "schedule" /\ NoFork /\ NoEngine /\ Schedule!Init /\ Unused5
MCNext ==
  \/ side = "fork" /\ Step /\ UNCHANGED <<side, vars, slots>>
  \/ side = "engine" /\ Next /\ UNCHANGED <<side, forkVars, slots>>
  \/ side = "syncing" /\ Syncing!Next /\ UNCHANGED <<side, forkVars, vars>>
  \/ side = "schedule" /\ Schedule!Next /\ UNCHANGED <<side, forkVars, vars, after5>>
mcvars == <<side, forkVars, vars, slots>>
MCSpec == MCInit /\ [][MCNext]_mcvars


==============================================================================
