------------------------------- MODULE CoreSet -------------------------------
(***************************************************************************)
(* The core set: which validators take part in consensus, epoch by epoch.  *)
(* The relayer submits the candidates of an epoch to CoreSetManager, which *)
(* ranks them and stores the set; the driver of every node                 *)
(* (runtime/lib/core-set-driver.ts) applies the stored set or, where no    *)
(* contract is configured, the set it computes itself from what it reads.  *)
(*                                                                         *)
(* Validators are numbered in the order of their node ids.  Who may call   *)
(* finalizeCoreSet is not modelled, and of a Merkle proof only whether the *)
(* reward is the one under the epoch's root.                               *)
(***************************************************************************)
EXTENDS Naturals, FiniteSets, Sequences, SequencesExt, FiniteSetsExt

CONSTANTS
  Validators,       \* numbers
  Nodes,            \* the nodes that run a driver
  StakeOf, BondOf,  \* stake and bond of each validator, at first
  RewardsOf,        \* rewards of each epoch, once it is settled
  MinCore, MaxCore, TopN, WStake, WBond, WPerf, Denom, Lag,
  MaxEpoch, MaxChanges, MaxRestarts

VARIABLES
  onChain,          \* config.coreSet.coreSetManagerAddress is set
  clock,            \* the epoch, by the clock
  stake, bond,      \* the two contracts; a validator without stake is inactive
  settled,          \* epochs with a reward root
  core,             \* _coreSet: epoch -> sequence, empty before finalisation
  fallback,         \* wasFallback
  given,            \* epoch -> the candidates it was computed from
  job,              \* tryFinalizeCoreSet between its reads and its transaction
  relayed,          \* lastCoreSetEpoch
  drivers,          \* node -> [handled, started, busy]
  applied,          \* node -> [epoch, set] last applied
  changes, restarts

vars == <<onChain, clock, stake, bond, settled, core, fallback, given, job, relayed,
          drivers, applied, changes, restarts>>
contractVars == <<onChain, stake, bond, settled>>
coreVars == <<core, fallback, given>>
nodeVars == <<drivers, applied>>

Epochs == 1..MaxEpoch
Unseen == [v \in Validators |-> 0]
NoJob == [epoch |-> 0, pubkeys |-> <<>>, rewards |-> Unseen]
NewDriver == [handled |-> 0, started |-> FALSE, busy |-> 0, seen |-> Unseen]

Init ==
  /\ onChain \in BOOLEAN
  /\ clock = Lag + 1
  /\ stake = StakeOf /\ bond = BondOf
  /\ settled = {}
  /\ core = [e \in Epochs |-> <<>>]
  /\ fallback = {} /\ given = [e \in Epochs |-> {}]
  /\ job = NoJob /\ relayed = 0
  /\ drivers = [n \in Nodes |-> NewDriver]
  /\ applied = [n \in Nodes |-> [epoch |-> 0, set |-> <<>>]]
  /\ changes = 0 /\ restarts = 0

Active == {v \in Validators : stake[v] > 0}

(***************************************************************************)
(* The ranking.                                                            *)
(***************************************************************************)
Candidate(v, s, b, r) == [id |-> v, stake |-> s, bond |-> b, reward |-> r]

\* normalize, and its form in the contract.
Normalize(value, total) ==
  IF value > 0 /\ total > 0 THEN (value * Denom) \div total ELSE 0

Score(c, cs) ==
  LET Stake(x) == x.stake
      Bond(x) == x.bond
      Perf(x) == x.reward
  IN  WStake * Normalize(c.stake, MapThenSumSet(Stake, cs))
        + WBond * Normalize(c.bond, MapThenSumSet(Bond, cs))
        + WPerf * Normalize(c.reward, MapThenSumSet(Perf, cs))

\* How many are selected out of n.
Upper == IF MaxCore < MinCore THEN MinCore ELSE MaxCore
Target == IF TopN < MinCore THEN MinCore ELSE IF TopN > Upper THEN Upper ELSE TopN
Size(n) == IF Target > n THEN n ELSE Target

\* compareRanking and selectCoreSet of core-set-selector.ts.
Selected(cs) ==
  LET before(c, d) == \/ Score(c, cs) > Score(d, cs)
                      \/ Score(c, cs) = Score(d, cs) /\ c.id < d.id
      ranking == SetToSortSeq(cs, before)
  IN  [i \in 1..Size(Cardinality(cs)) |-> ranking[i].id]

\* _ranksBelow and the insertion sort of finalizeCoreSet.
RanksBelow(c, d, cs) ==
  \/ Score(c, cs) < Score(d, cs)
  \/ Score(c, cs) = Score(d, cs) /\ c.id > d.id

Ranked(cands) ==
  LET cs == ToSet(cands)
      Place(idx, key) ==
        LET stop == {j \in DOMAIN idx : ~RanksBelow(idx[j], key, cs)}
        IN  InsertAt(idx, Max(stop \cup {0}) + 1, key)
  IN  FoldLeft(Place, <<>>, cands)

(***************************************************************************)
(* The contracts the inputs are read from.                                 *)
(***************************************************************************)
EpochPasses ==
  /\ clock < MaxEpoch + Lag
  /\ clock' = clock + 1
  /\ UNCHANGED <<contractVars, coreVars, job, relayed, nodeVars, changes, restarts>>

Settle(e) ==
  /\ e \notin settled /\ e < clock
  /\ settled' = settled \cup {e}
  /\ UNCHANGED <<onChain, clock, stake, bond, coreVars, job, relayed, nodeVars, changes,
                 restarts>>

StakeChanges(v) ==
  /\ changes < MaxChanges
  /\ changes' = changes + 1
  /\ \/ stake' = [stake EXCEPT ![v] = IF @ = 0 THEN 1 ELSE 0] /\ UNCHANGED bond
     \/ bond' = [bond EXCEPT ![v] = @ + 1] /\ UNCHANGED stake
  /\ UNCHANGED <<onChain, clock, settled, coreVars, job, relayed, nodeVars, restarts>>

(***************************************************************************)
(* The relayer: tryFinalizeCoreSet.                                        *)
(***************************************************************************)
Finalized(e) == core[e] # <<>>

Ascending == SetToSortSeq(Active, <)

FinalizationCandidate == clock - Lag

\* The reads.  The pubkeys come in the order of the mirror of the registry,
\* and the contract takes them in another one as well; the rewards are those of the
\* manifest file, if there is one.
BuildArgs ==
  LET e == FinalizationCandidate
  IN  /\ onChain /\ job = NoJob
      /\ e > relayed
      /\ IF Finalized(e)
           THEN relayed' = e /\ UNCHANGED job
           ELSE /\ Active # {}
                /\ \E pks \in {Ascending, Reverse(Ascending)}, rs \in {Unseen, RewardsOf[e]} :
                     job' = [epoch |-> e, pubkeys |-> pks, rewards |-> rs]
                /\ UNCHANGED relayed
      /\ UNCHANGED <<clock, contractVars, coreVars, nodeVars, changes, restarts>>

\* finalizeCoreSet.  It reverts when the epoch is finalised or a candidate
\* has become inactive, or there are rewards and no root to prove them under;
\* the next tick then starts over.
FinalizeCoreSet ==
  LET e == job.epoch
      As(v) == Candidate(v, stake[v], bond[v], job.rewards[v])
      cands == [i \in DOMAIN job.pubkeys |-> As(job.pubkeys[i])]
      ranked == Ranked(cands)
  IN  /\ ~Finalized(e)
      /\ ToSet(job.pubkeys) \subseteq Active
      /\ e \in settled \/ \A v \in ToSet(job.pubkeys) : job.rewards[v] = 0
      /\ given' = [given EXCEPT ![e] = ToSet(cands)]
      /\ IF Len(cands) < MinCore
           THEN /\ core' = [core EXCEPT ![e] = SetToSeq(Active)]
                /\ fallback' = fallback \cup {e}
           ELSE /\ core' = [core EXCEPT ![e] =
                     [i \in 1..Size(Len(cands)) |-> ranked[i].id]]
                /\ UNCHANGED fallback

Submit ==
  /\ job # NoJob
  /\ job' = NoJob
  /\ \/ FinalizeCoreSet /\ relayed' = job.epoch
     \/ UNCHANGED <<coreVars, relayed>>
  /\ UNCHANGED <<clock, contractVars, nodeVars, changes, restarts>>

\* A relayer that restarts has forgotten lastCoreSetEpoch.
RelayerRestarts ==
  /\ onChain /\ restarts < MaxRestarts
  /\ restarts' = restarts + 1
  /\ job' = NoJob /\ relayed' = 0
  /\ UNCHANGED <<clock, contractVars, coreVars, nodeVars, changes>>

(***************************************************************************)
(* The driver of node n.                                                   *)
(***************************************************************************)
TargetEpoch == clock - Lag

\* The first target after a start is left alone.
StartTick(n) ==
  LET d == drivers[n]
  IN  /\ d.busy = 0
      /\ TargetEpoch > d.handled
      /\ drivers' = [drivers EXCEPT ![n] =
           IF d.started
             THEN [d EXCEPT !.busy = TargetEpoch, !.seen = stake]
             ELSE [d EXCEPT !.started = TRUE, !.handled = TargetEpoch]]
      /\ UNCHANGED <<clock, contractVars, coreVars, job, relayed, applied,
                     changes, restarts>>

Apply(n, set) ==
  /\ drivers' = [drivers EXCEPT ![n] =
       [@ EXCEPT !.handled = drivers[n].busy, !.busy = 0, !.seen = Unseen]]
  /\ applied' = [applied EXCEPT ![n] = [epoch |-> drivers[n].busy, set |-> set]]

GiveUp(n) ==
  /\ drivers' = [drivers EXCEPT ![n] = [@ EXCEPT !.busy = 0, !.seen = Unseen]]
  /\ UNCHANGED applied

\* The set of the contract; while the epoch is not finalised, or cannot be
\* read, the next tick tries again.
ReadCanonical(n) ==
  /\ onChain /\ drivers[n].busy > 0
  /\ \/ Finalized(drivers[n].busy) /\ Apply(n, core[drivers[n].busy])
     \/ GiveUp(n)
  /\ UNCHANGED <<clock, contractVars, coreVars, job, relayed, changes, restarts>>

\* CoreSetReader.buildCandidates: the active set and the stakes as the tick
\* began, the bonds as they are read, with 0 for one that cannot be read, the
\* rewards when the node has the manifest of the root.
ComputeLocally(n) ==
  /\ ~onChain /\ drivers[n].busy > 0
  /\ \E unread \in SUBSET Validators, manifest \in BOOLEAN :
       LET e == drivers[n].busy
           seen == drivers[n].seen
           As(v) == Candidate(v, seen[v], IF v \in unread THEN 0 ELSE bond[v],
                              IF manifest /\ e \in settled
                                THEN RewardsOf[e][v] ELSE 0)
           cs == {As(v) : v \in {w \in Validators : seen[w] > 0}}
       IN  IF Cardinality(cs) < MinCore
             THEN /\ drivers' = [drivers EXCEPT ![n] =
                       [@ EXCEPT !.handled = e, !.busy = 0, !.seen = Unseen]]
                  /\ UNCHANGED applied
             ELSE Apply(n, Selected(cs))
  /\ UNCHANGED <<clock, contractVars, coreVars, job, relayed, changes, restarts>>

Restart(n) ==
  /\ restarts < MaxRestarts
  /\ restarts' = restarts + 1
  /\ drivers' = [drivers EXCEPT ![n] = NewDriver]
  /\ applied' = [applied EXCEPT ![n] = [epoch |-> 0, set |-> <<>>]]
  /\ UNCHANGED <<clock, contractVars, coreVars, job, relayed, changes>>

Next ==
  \/ EpochPasses \/ (\E e \in Epochs : Settle(e))
  \/ (\E v \in Validators : StakeChanges(v))
  \/ BuildArgs \/ Submit \/ RelayerRestarts
  \/ \E n \in Nodes :
       StartTick(n) \/ ReadCanonical(n) \/ ComputeLocally(n) \/ Restart(n)

Spec == Init /\ [][Next]_vars

(***************************************************************************)
(* Properties                                                              *)
(***************************************************************************)

\* The set the contract stores is the one core-set-selector.ts picks from
\* the same candidates, in the same order, in whatever order the relayer
\* named them, and whatever became of the stakes while its transaction was
\* on the way.
ContractRanksAsSelector ==
  \A e \in Epochs : core[e] # <<>> /\ e \notin fallback => core[e] = Selected(given[e])

\* Two nodes that applied the core set of the same epoch applied the same
\* set: no two of them count quorums over different members.
NodesAgree ==
  \A m, n \in Nodes :
    applied[m].epoch = applied[n].epoch =>
      ToSet(applied[m].set) = ToSet(applied[n].set)

\* With the contract, they agree: whatever epoch a slow reading was started
\* for, and whenever the relayer submits, submits again or restarts.
SameEpochSameSet == onChain => NodesAgree
=============================================================================
