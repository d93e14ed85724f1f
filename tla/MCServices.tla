----------------------------- MODULE MCServices -----------------------------
(***************************************************************************)
(* The block store, the identity contracts and the services around the     *)
(* nodes, in one run; a behaviour is about one of ten.                     *)
(*   blocks      ChainEngine: a chain of two blocks, the second of which   *)
(*               fails, beside a block that states a wrong root; a crash   *)
(*               and a snap sync.                                          *)
(*   recovery    SoulRegistry: one agent, its owner, a new owner and a     *)
(*               guardian; a recovery request through re-registrations.    *)
(*   carrier     SoulRegistry: the same agent resurrected on a carrier.    *)
(*   did         DIDRegistry: delegations of two agents, one level deep.   *)
(*   relayer     Relayer: one piece of evidence, two ticks that overlap.   *)
(*   queue       Relayer: two pieces of evidence, one tick at a time.      *)
(*   agent       PoseAgent: three epochs, one node that can be reached.    *)
(*   mirror      RegistryReader: five blocks of two validators' events.    *)
(*   core        CoreSet: three validators whose stakes change, two        *)
(*               drivers, restarts.                                        *)
(*   epochs      CoreSet: rewards that change the set from epoch to epoch, *)
(*               with the contract.                                        *)
(* Each keeps its state in the variables s1, s2, ...                       *)
(***************************************************************************)
EXTENDS Integers, Sequences

VARIABLES side, s1, s2, s3, s4, s5, s6, s7, s8, s9, s10, s11, s12, s13, s14, s15, s16

MCParent == [a2 |-> "g", a3 |-> "a2", b2 |-> "g"]
Store == INSTANCE ChainEngine
  WITH Blocks <- {"g", "a2", "a3", "b2"}, Genesis <- "g", Parent <- MCParent,
       Lies <- {"b2"}, Silent <- {}, Heavy <- {"a3"}, Strangers <- {"b2"}, Depth <- 1,
       MaxQueue <- 2, MaxCalls <- 3, MaxCrashes <- 1, MaxSyncs <- 1, rows <- s1,
       index <- s2, latest <- s3, root <- s4, frames <- s5, disk <- s6, flushed <- s7,
       queue <- s8, pc <- s9, before <- s10, failed <- s11, sync <- s12, probe <- s13,
       calls <- s14, crashes <- s15, syncs <- s16

Recovery == INSTANCE SoulRegistry
  WITH Agents <- {"x"}, Nobody <- "nobody", RecoveryDelay <- 1,
       ResurrectionDelay <- 1, MaxOffline <- 0, MaxEpoch <- 2,
       People <- {"o", "n", "g"}, Carriers <- {}, MaxTime <- 3, MaxRequests <- 1,
       MaxResurrections <- 0, MaxGuardians <- 2, souls <- s1, ownerToAgent <- s2,
       guardians <- s3, epoch <- s4, requests <- s5, config <- s6, carriers <- s7,
       resurrections <- s8, now <- s9

Carrier == INSTANCE SoulRegistry
  WITH Agents <- {"x"}, Nobody <- "nobody", RecoveryDelay <- 1,
       ResurrectionDelay <- 1, MaxOffline <- 0, MaxEpoch <- 2, People <- {"o", "g"},
       Carriers <- {"c"}, MaxTime <- 3, MaxRequests <- 0, MaxResurrections <- 1,
       MaxGuardians <- 1, souls <- s1, ownerToAgent <- s2, guardians <- s3,
       epoch <- s4, requests <- s5, config <- s6, carriers <- s7, resurrections <- s8,
       now <- s9

Did == INSTANCE DIDRegistry
  WITH Agents <- {"x", "y"}, People <- {"o", "n"}, Nobody <- "nobody", Carriers <- {},
       RecoveryDelay <- 1, ResurrectionDelay <- 1, MaxOffline <- 0, MaxGuardians <- 0,
       MaxTime <- 2, MaxEpoch <- 1, MaxRequests <- 0, MaxResurrections <- 0,
       Kinds <- {"credential"}, MaxDepth <- 1, MaxPerAgent <- 2, MinInterval <- 1,
       MaxRevocations <- 1, MaxGrants <- 2, souls <- s1, ownerToAgent <- s2,
       guardians <- s3, epoch <- s4, requests <- s5, config <- s6, carriers <- s7,
       resurrections <- s8, now <- s9, grants <- s10, revocation <- s11,
       lastGrant <- s12

Relay == INSTANCE Relayer
  WITH Evidence <- {"e"}, Ticks <- {1, 2}, RevealWindow <- 1, MaxTime <- 3,
       MaxCrashes <- 1, MaxHangs <- 1, file <- s1, queue <- s2, pushed <- s3,
       pending <- s4, store <- s5, chain <- s6, tick <- s7, inProgress <- s8,
       now <- s9, crashes <- s10, hangs <- s11

Queue == INSTANCE Relayer
  WITH Evidence <- {"e", "f"}, Ticks <- {1}, RevealWindow <- 1, MaxTime <- 3,
       MaxCrashes <- 1, MaxHangs <- 0, file <- s1, queue <- s2, pushed <- s3,
       pending <- s4, store <- s5, chain <- s6, tick <- s7, inProgress <- s8,
       now <- s9, crashes <- s10, hangs <- s11

Agent == INSTANCE PoseAgent
  WITH Nodes <- {"n", "m"}, Reachable <- {"n"}, Witnesses <- {"w"}, Required <- 1,
       EmptyFallback <- FALSE, Slots <- {}, BatchSize <- 2, Quota <- 2,
       Retention <- 1, MaxEpoch <- 3, MaxReceipts <- 2, MaxCrashes <- 1, clock <- s1,
       active <- s2, batches <- s3, pending <- s4, archive <- s5, manifests <- s6,
       evidence <- s7, epoch <- s8, self <- s9, targets <- s10, scores <- s11,
       quota <- s12, tick <- s13, seen <- s14, crashes <- s15

Mirror == INSTANCE RegistryReader
  WITH Validators <- {"v", "w"}, Stakes <- {2}, Snap <- 1, MaxBlocks <- 5,
       MaxRestarts <- 2, chain <- s1, registry <- s2, entries <- s3, scanned <- s4,
       sidecar <- s5, reader <- s6, restarts <- s7

MCValidators == 1 .. 3
MCRewardsOf == [e \in 0 .. 3 |-> [v \in MCValidators |-> IF v = e THEN 1 ELSE 0]]
Core == INSTANCE CoreSet
  WITH Validators <- MCValidators, Nodes <- {"n", "m"},
       StakeOf <- [v \in MCValidators |-> v % 2],
       BondOf <- [v \in MCValidators |-> 0], RewardsOf <- MCRewardsOf, MinCore <- 2,
       MaxCore <- 3, TopN <- 2, WStake <- 5, WBond <- 2, WPerf <- 3, Denom <- 100,
       Lag <- 1, MaxEpoch <- 2, MaxChanges <- 1, MaxRestarts <- 1, onChain <- s1,
       clock <- s2, stake <- s3, bond <- s4, settled <- s5, core <- s6,
       fallback <- s7, given <- s8, job <- s9, relayed <- s10, drivers <- s11,
       applied <- s12, changes <- s13, restarts <- s14

Epochs == INSTANCE CoreSet
  WITH Validators <- MCValidators, Nodes <- {"n", "m"},
       StakeOf <- [v \in MCValidators |-> 1], BondOf <- [v \in MCValidators |-> 0],
       RewardsOf <- MCRewardsOf, MinCore <- 2, MaxCore <- 3, TopN <- 2, WStake <- 5,
       WBond <- 2, WPerf <- 3, Denom <- 100, Lag <- 1, MaxEpoch <- 3, MaxChanges <- 0,
       MaxRestarts <- 0, onChain <- s1, clock <- s2, stake <- s3, bond <- s4,
       settled <- s5, core <- s6, fallback <- s7, given <- s8, job <- s9,
       relayed <- s10, drivers <- s11, applied <- s12, changes <- s13, restarts <- s14

Unused15 == s16 = 0
Unused14 == s15 = 0 /\ Unused15
Unused12 == s13 = 0 /\ s14 = 0 /\ Unused14
Unused11 == s12 = 0 /\ Unused12
Unused9 == s10 = 0 /\ s11 = 0 /\ Unused11
Unused7 == s8 = 0 /\ s9 = 0 /\ Unused9
after7 == <<s8, s9, s10, s11, s12, s13, s14, s15, s16>>
after9 == <<s10, s11, s12, s13, s14, s15, s16>>
after11 == <<s12, s13, s14, s15, s16>>
after12 == <<s13, s14, s15, s16>>
after14 == <<s15, s16>>
after15 == <<s16>>
slots == <<s1, s2, s3, s4, s5, s6, s7, s8, s9, s10, s11, s12, s13, s14, s15, s16>>

MCInit ==
  \/ side = "blocks" /\ Store!Init
  \/ side = "recovery" /\ Recovery!SoulInit /\ Unused9
  \/ side = "carrier" /\ Carrier!SoulInit /\ Unused9
  \/ side = "did" /\ Did!DidInit /\ Unused12
  \/ side = "relayer" /\ Relay!Init /\ Unused11
  \/ side = "queue" /\ Queue!Init /\ Unused11
  \/ side = "agent" /\ Agent!Init /\ Unused15
  \/ side = "mirror" /\ Mirror!Init /\ Unused7
  \/ side = "core" /\ Core!Init /\ Unused14
  \/ side = "epochs" /\ Epochs!Init /\ s1 /\ Unused14
MCNext ==
  \/ side = "blocks" /\ Store!Next /\ UNCHANGED side
  \/ side = "recovery" /\ Recovery!SoulNext /\ UNCHANGED <<side, after9>>
  \/ side = "carrier" /\ Carrier!SoulNext /\ UNCHANGED <<side, after9>>
  \/ side = "did" /\ Did!DidNext /\ UNCHANGED <<side, after12>>
  \/ side = "relayer" /\ Relay!Next /\ UNCHANGED <<side, after11>>
  \/ side = "queue" /\ Queue!Next /\ UNCHANGED <<side, after11>>
  \/ side = "agent" /\ Agent!Next /\ UNCHANGED <<side, after15>>
  \/ side = "mirror" /\ Mirror!Next /\ UNCHANGED <<side, after7>>
  \/ side = "core" /\ Core!Next /\ UNCHANGED <<side, after14>>
  \/ side = "epochs" /\ Epochs!Next /\ UNCHANGED <<side, after14>>
mcvars == <<side, slots>>
MCSpec == MCInit /\ [][MCNext]_mcvars

\* The root the trie restarts from is one whose nodes are on disk (ChainEngine).
RootIsOnDisk == side = "blocks" => Store!RootIsOnDisk

\* "so the catch reverts EVM + trie checkpoints atomically": a block that is refused
\* leaves the state as it was (ChainEngine).
FailedApplyLeavesState == side = "blocks" => Store!FailedApplyLeavesState


\* An identity moves to who its guardians agreed on, and a revocation takes with it what
\* was delegated further (SoulRegistry, DIDRegistry).
IdentityIsControlled ==
  [][/\ side = "recovery" => Recovery!MovesByRecovery
     /\ side = "carrier" => Carrier!MovesByRecovery
     /\ side = "did" => Did!RevokesBelow]_mcvars

\* The relayer forgets a challenge only when it is over (Relayer).
DroppedOnlyWhenOver ==
  [][/\ side = "relayer" => Relay!DropsWhenOver
     /\ side = "queue" => Queue!DropsWhenOver]_mcvars


=============================================================================
