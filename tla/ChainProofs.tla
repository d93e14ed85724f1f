----------------------------- MODULE ChainProofs -----------------------------
(***************************************************************************)
(* compareForks is a total order on candidates, for all heights, weights,  *)
(* hashes and peer ids, so the loop of selectBestFork ends with the        *)
(* greatest candidate and switching forks never goes in circles.           *)
(*                                                                         *)
(* The consensus engine builds one block per height, drops what an event   *)
(* has overtaken and adopts one chain at a time, for any number of ticks   *)
(* and of syncs, every height and every number of validator-set changes,   *)
(* but for the races each of these properties names.                       *)
(***************************************************************************)
EXTENDS ForkChoice, ConsensusEngine, FiniteSetTheorems, TLAPS

\* a outranks b: some rule tells them apart and the first that does favours a.
Outranks(a, b) ==
  \/ a.height > b.height
  \/ a.height = b.height /\ a.bftFinalized /\ ~b.bftFinalized
  \/ /\ a.height = b.height /\ a.bftFinalized = b.bftFinalized
     /\ \/ a.cumulativeWeight > b.cumulativeWeight
        \/ /\ a.cumulativeWeight = b.cumulativeWeight
           /\ \/ a.tipHash < b.tipHash
              \/ a.tipHash = b.tipHash /\ a.peerId < b.peerId

\* compareForks orders by height, then finality, weight, hash and peer id: the
\* finality rule with its height gate is the second key, not the first.
LEMMA CompareIsLexicographic ==
  ASSUME NEW a \in Candidate, NEW b \in Candidate
  PROVE  CompareForks(a, b) =
           IF Outranks(a, b) THEN Choice(a, b, CompareForks(a, b).reason)
           ELSE IF Outranks(b, a) THEN Choice(b, a, CompareForks(a, b).reason)
           ELSE Choice(a, b, "equal")
BY DEF Candidate, CompareForks, Outranks, Choice, ByFinality, ByHeight, ByWeight, ByHash, ByPeerId

\* Outranking is asymmetric.
LEMMA OutranksAsymmetric ==
  ASSUME NEW a \in Candidate, NEW b \in Candidate, Outranks(a, b)
  PROVE  ~Outranks(b, a)
BY DEF Candidate, Outranks

\* Outranking is transitive.
LEMMA OutranksTransitive ==
  ASSUME NEW a \in Candidate, NEW b \in Candidate, NEW c \in Candidate,
         Outranks(a, b), Outranks(b, c)
  PROVE  Outranks(a, c)
BY DEF Candidate, Outranks

\* Two candidates no rule tells apart are the same.
LEMMA OutranksTotal ==
  ASSUME NEW a \in Candidate, NEW b \in Candidate, ~Outranks(a, b), ~Outranks(b, a)
  PROVE  a = b
BY DEF Candidate, Outranks

\* What the order says of the winner and of shouldSwitchFork.
LEMMA WinnerIsGreater ==
  ASSUME NEW a \in Candidate, NEW b \in Candidate
  PROVE  /\ Winner(a, b) \in {a, b}
         /\ Winner(a, b) = a <=> ~Outranks(b, a)
         /\ Winner(a, b) = b <=> ~Outranks(a, b)
         /\ ShouldSwitchFork(a, b) <=> Outranks(b, a)
<1>1. CASE Outranks(a, b)
  <2>1. ~Outranks(b, a) /\ a # b
    BY <1>1, OutranksAsymmetric
  <2>2. CompareForks(a, b).winner = a
    BY <1>1, CompareIsLexicographic DEF Choice
  <2> QED BY <1>1, <2>1, <2>2 DEF Winner, ShouldSwitchFork
<1>2. CASE Outranks(b, a)
  <2>1. ~Outranks(a, b) /\ a # b
    BY <1>2, OutranksAsymmetric
  <2>2. CompareForks(a, b).winner = b
    BY <1>2, <2>1, CompareIsLexicographic DEF Choice
  <2>3. CompareForks(a, b).reason # "equal"
    BY <1>2, <2>1 DEF Candidate, CompareForks, Outranks, Choice, ByFinality, ByHeight,
                      ByWeight, ByHash, ByPeerId
  <2> QED BY <1>2, <2>1, <2>2, <2>3 DEF Winner, ShouldSwitchFork
<1>3. CASE ~Outranks(a, b) /\ ~Outranks(b, a)
  <2>1. a = b
    BY <1>3, OutranksTotal
  <2>2. CompareForks(a, b).winner = a /\ CompareForks(a, b).reason = "equal"
    BY <1>3, CompareIsLexicographic DEF Choice
  <2> QED BY <1>3, <2>1, <2>2 DEF Winner, ShouldSwitchFork
<1> QED BY <1>1, <1>2, <1>3
------------------------------------------------------------------------------
\* The loop invariant of selectBestFork: no candidate looked at outranks best.
LoopInv ==
  /\ candidates \in Seq(Candidates)
  /\ Len(candidates) >= 1
  /\ i \in 2 .. Len(candidates) + 1
  /\ best \in Candidates
  /\ \A k \in 1 .. i - 1 : ~Outranks(candidates[k], best)

\* The loop of selectBestFork starts with the first candidate as the best one.
LEMMA LoopStarts == ForkInit => LoopInv
<1> SUFFICES ASSUME ForkInit PROVE LoopInv
  OBVIOUS
<1>1. PICK n \in 1 .. MaxCandidates : candidates \in [1 .. n -> Candidates]
  BY DEF ForkInit
<1>2. candidates \in Seq(Candidates) /\ Len(candidates) = n /\ n \in Nat \ {0}
  BY <1>1
<1>3. candidates[1] \in Candidate /\ best = candidates[1]
  BY <1>1, <1>2, CandidatesAssumption DEF ForkInit
<1>4. ~Outranks(best, best)
  BY <1>3, OutranksAsymmetric
<1> QED BY <1>1, <1>2, <1>3, <1>4 DEF ForkInit, LoopInv

\* One turn of the loop keeps the best of what it has seen.
LEMMA LoopSteps == LoopInv /\ [Step]_forkVars => LoopInv'
<1> SUFFICES ASSUME LoopInv, [Step]_forkVars PROVE LoopInv'
  OBVIOUS
<1>1. CASE UNCHANGED forkVars
  BY <1>1 DEF LoopInv, forkVars, Outranks
<1>2. CASE Step
  <2> DEFINE c == candidates[i]
  <2>1. best \in Candidate /\ c \in Candidate /\ best \in Candidates /\ c \in Candidates
    BY <1>2, CandidatesAssumption DEF LoopInv, Step
  <2>2. best' \in {best, c} /\ best' \in Candidate
    BY <1>2, <2>1, WinnerIsGreater DEF Step
  <2>3. ~Outranks(best, best') /\ ~Outranks(c, best')
    BY <1>2, <2>1, <2>2, WinnerIsGreater, OutranksAsymmetric DEF Step
  <2>4. ASSUME NEW k \in 1 .. i PROVE ~Outranks(candidates[k], best')
    <3>1. CASE k = i
      BY <3>1, <2>3
    <3>2. CASE k \in 1 .. i - 1
      <4>1. candidates[k] \in Candidate /\ ~Outranks(candidates[k], best)
        BY <3>2, <1>2, CandidatesAssumption DEF LoopInv, Step
      <4>2. best' = best \/ (best' = c /\ (Outranks(c, best) \/ c = best))
        BY <1>2, <2>1, <2>2, WinnerIsGreater, OutranksTotal DEF Step
      <4> QED BY <4>1, <4>2, <2>1, OutranksTransitive
    <3> QED BY <2>4, <3>1, <3>2 DEF LoopInv
  <2>5. LoopInv!1' /\ LoopInv!2' /\ i' \in 2 .. Len(candidates') + 1 /\ best' \in Candidates
    BY <1>2, <2>1, <2>2 DEF LoopInv, Step
  <2>6. i' - 1 = i /\ candidates' = candidates
    BY <1>2 DEF LoopInv, Step
  <2> QED BY <2>4, <2>5, <2>6, Zenon DEF LoopInv
<1> QED BY <1>1, <1>2

\* So the loop invariant holds throughout.
LEMMA LoopInvHolds == ForkSpec => []LoopInv
BY LoopStarts, LoopSteps, PTL DEF ForkSpec

\* selectBestFork ends with a candidate that wins against every other one, whichever
\* comes first in the comparison, for every array of candidates.
THEOREM BestBeatsAllThm == ForkSpec => []BestBeatsAll
<1>1. LoopInv => BestBeatsAll
  <2> SUFFICES ASSUME LoopInv, i = Len(candidates) + 1, NEW k \in DOMAIN candidates
               PROVE  Winner(best, candidates[k]) = best /\ Winner(candidates[k], best) = best
    BY DEF BestBeatsAll
  <2>1. candidates[k] \in Candidate /\ best \in Candidate /\ k \in 1 .. i - 1
    BY CandidatesAssumption DEF LoopInv
  <2>2. ~Outranks(candidates[k], best)
    BY <2>1 DEF LoopInv
  <2> QED BY <2>1, <2>2, WinnerIsGreater
<1> QED BY <1>1, LoopInvHolds, PTL

\* shouldSwitchFork is asymmetric and transitive on the candidates: no sequence of
\* switches returns to a chain that was left.
THEOREM NoPingPongThm == ForkSpec => []NoPingPong
<1>1. LoopInv => NoPingPong
  <2> SUFFICES ASSUME LoopInv, NEW j \in DOMAIN candidates, NEW k \in DOMAIN candidates,
                      NEW m \in DOMAIN candidates
               PROVE  /\ ~(ShouldSwitchFork(candidates[j], candidates[k])
                            /\ ShouldSwitchFork(candidates[k], candidates[j]))
                      /\ ShouldSwitchFork(candidates[j], candidates[k])
                            /\ ShouldSwitchFork(candidates[k], candidates[m])
                         => ShouldSwitchFork(candidates[j], candidates[m])
    BY DEF NoPingPong
  <2>1. {candidates[j], candidates[k], candidates[m]} \subseteq Candidate
    BY CandidatesAssumption DEF LoopInv
  <2> QED BY <2>1, WinnerIsGreater, OutranksAsymmetric, OutranksTransitive
<1> QED BY <1>1, LoopInvHolds, PTL
------------------------------------------------------------------------------
\* The consensus engine.  Blocks as the engine sees them, and calls of tryPropose.
BlockRecord == [h : Nat, era : Nat, n : Nat]
\* The values of the engine's variables.
TickRecord == [pc : {"idle", "tip", "height", "turn", "build", "send", "resend"},
               force : BOOLEAN, block : BlockRecord]
\* What the variables hold.
EngineType ==
  /\ tick \in [Ticks -> TickRecord]
  /\ \A t \in Ticks : tick[t].pc = "idle" => tick[t].block = NoBlock
  /\ \A t \in Ticks : tick[t].pc = "build" => tick[t].block # NoBlock
  /\ lastHeight \in Nat /\ lastBlock \in BlockRecord /\ prepared \in BlockRecord
  /\ height \in Nat /\ finalized \in Nat /\ era \in Nat
  /\ finalizing \in {"idle", "apply", "report", "resync"}
  /\ built \subseteq BlockRecord /\ IsFiniteSet(built)
  /\ sync \in [Syncs -> {"idle", "trySync", "forceSnapSync", "adopt", "import"}]

\* The watchdog looks at a stall that is still there, and has not armed the override yet.
StallInv ==
  "watchdog" \notin races =>
    /\ watching => ~override /\ stalled
    /\ override => stalled

\* Whoever syncs owns the flag, and nobody else does.
SyncInv ==
  "slowSync" \notin races =>
    /\ ~overdue
    /\ \A s \in Syncs : sync[s] # "idle" => syncInFlight
    /\ \A s, u \in Syncs : sync[s] # "idle" /\ sync[u] # "idle" => s = u

\* Every block at hand belongs to the present validator set.
EraInv ==
  "setChange" \notin races =>
    /\ lastBlock # NoBlock => lastBlock.era = era
    /\ prepared # NoBlock => prepared.era = era
    /\ \A t \in Ticks : tick[t].block # NoBlock => tick[t].block.era = era
    /\ resent.block.era = resent.at

\* The heights of an own block, built or being built, while finalization is in the given state.
Reached(b) ==
  /\ b.h <= height + 1 /\ b.era <= era
  /\ finalizing = "apply" => b.h <= finalized \/ b.h <= height
  /\ finalizing = "report" => b.h <= height

\* lastProposedHeight covers the blocks above the chain, and a tick that has passed the
\* guard is about to build above them.
ProposeInv ==
  races \cap {"overlap", "report", "applyFails"} = {} =>
    /\ finalizing # "resync"
    /\ finalizing \in {"idle", "report"} => finalized <= height
    /\ finalizing = "apply" => finalized <= height + 1
    /\ \A t, u \in Ticks : tick[t].pc # "idle" /\ tick[u].pc # "idle" => t = u
    /\ \A b \in built : Reached(b) /\ (b.era = era => b.h <= lastHeight \/ b.h <= height)
    /\ \A t \in Ticks : tick[t].pc = "turn" => lastHeight <= height
    /\ \A t \in Ticks : tick[t].pc = "build" =>
         /\ Reached(tick[t].block) /\ lastHeight < tick[t].block.h
         /\ \A b \in built : b.era = tick[t].block.era => b.h < tick[t].block.h
    /\ OneProposalPerHeight

\* What holds all the time.
EngineInv == EngineType /\ StallInv /\ SyncInv /\ EraInv /\ ProposeInv

\* A step that leaves alone what an invariant is about keeps it.
LEMMA TypeKept ==
  ASSUME EngineType, UNCHANGED <<tick, lastHeight, lastBlock, prepared, height, finalized, era,
                                 finalizing, built, sync>>
  PROVE  EngineType'
BY Zenon DEF EngineType

\* The same for the watchdog of missing progress.
LEMMA StallKept == ASSUME StallInv, UNCHANGED <<watchdog, races>> PROVE StallInv'
BY Zenon DEF StallInv, watchdog

\* The same for the syncs.
LEMMA SyncKept == ASSUME SyncInv, UNCHANGED <<syncing, races>> PROVE SyncInv'
BY Zenon DEF SyncInv, syncing

\* The same for the blocks at hand.
LEMMA EraKept ==
  ASSUME EraInv, UNCHANGED <<tick, lastBlock, prepared, era, resent, races>> PROVE EraInv'
BY Zenon DEF EraInv

\* The same for the proposals.
LEMMA ProposeKept ==
  ASSUME ProposeInv, UNCHANGED <<tick, lastHeight, height, finalized, finalizing, era, built, races>>
  PROVE  ProposeInv'
BY Zenon DEF ProposeInv, Reached, OneProposalPerHeight

\* A call of tryPropose moves on and builds nothing: only one is running.
LEMMA TickMoves ==
  ASSUME EngineType, ProposeInv, NEW t \in Ticks, NEW r, tick' = [tick EXCEPT ![t] = r],
         r.pc \notin {"turn", "build"},
         \/ tick[t].pc # "idle"
         \/ "overlap" \in races \/ \A u \in Ticks : tick[u].pc = "idle",
         UNCHANGED <<lastHeight, height, finalized, finalizing, era, built, races>>
  PROVE  ProposeInv'
<1>1. \A u \in Ticks : tick'[u] = IF u = t THEN r ELSE tick[u]
  BY Zenon DEF EngineType
<1> SUFFICES ASSUME races \cap {"overlap", "report", "applyFails"} = {}
             PROVE  ProposeInv'
  BY Zenon DEF ProposeInv
<1>2. "overlap" \notin races
  BY Zenon
<1>3. \A u, v \in Ticks : tick[u].pc # "idle" /\ tick[v].pc # "idle" => u = v
  BY Zenon DEF ProposeInv
<1>4. \A u, v \in Ticks : tick'[u].pc # "idle" /\ tick'[v].pc # "idle" => u = v
  BY <1>3, <1>1, <1>2
<1>5. \A u \in Ticks : tick'[u].pc \in {"turn", "build"} => tick'[u] = tick[u]
  BY <1>1, Zenon
<1> QED BY <1>4, <1>5, Zenon DEF ProposeInv, Reached, OneProposalPerHeight

\* The start of a call and its end.
LEMMA IdleIsTyped ==
  /\ NoBlock \in BlockRecord /\ Idle \in TickRecord
  /\ Idle.pc = "idle" /\ Idle.block = NoBlock /\ NoBlock.h = 0 /\ NoBlock.era = 0
BY DEF NoBlock, Idle, BlockRecord, TickRecord

\* A call goes on to another await.
LEMMA PcMoves ==
  ASSUME EngineType, NEW t \in Ticks,
         NEW p \in {"idle", "tip", "height", "turn", "build", "send", "resend"}
  PROVE  LET r == [tick[t] EXCEPT !.pc = p] IN
         /\ r \in TickRecord /\ r.pc = p /\ r.block = tick[t].block
         /\ [tick EXCEPT ![t].pc = p] = [tick EXCEPT ![t] = r]
BY DEF EngineType, TickRecord

\* A call goes on, or ends, without building; sending may start a round on its block.
LEMMA TickStep ==
  ASSUME EngineInv, NEW t \in Ticks, NEW r \in TickRecord, tick' = [tick EXCEPT ![t] = r],
         r.pc \notin {"turn", "build"}, r.pc = "idle" => r.block = NoBlock,
         r.block = NoBlock \/ r.block = tick[t].block,
         \/ tick[t].pc # "idle"
         \/ "overlap" \in races \/ \A u \in Ticks : tick[u].pc = "idle",
         prepared' = prepared \/ prepared' = tick[t].block, StallInv',
         UNCHANGED <<lastHeight, lastBlock, syncing, height, finalized, finalizing, era, built, resent,
                     races>>
  PROVE  EngineInv'
<1>1. EngineType /\ SyncInv /\ EraInv /\ ProposeInv
  BY Zenon DEF EngineInv
<1>2. tick[t].block \in BlockRecord
  BY <1>1 DEF EngineType, TickRecord
<1>3. prepared' \in BlockRecord /\ sync' = sync
  BY <1>1, <1>2, Zenon DEF EngineType, syncing
<1>4. /\ tick' \in [Ticks -> TickRecord]
      /\ \A u \in Ticks : tick'[u] = IF u = t THEN r ELSE tick[u]
  BY <1>1 DEF EngineType
<1>5. EngineType'
  BY <1>1, <1>3, <1>4, Zenon DEF EngineType
<1>6. SyncInv'
  BY <1>1, SyncKept, Zenon
<1>7. EraInv'
  BY <1>1, <1>4, Zenon DEF EraInv
<1>8. ProposeInv'
  BY <1>1, TickMoves, Zenon
<1> QED BY <1>5, <1>6, <1>7, <1>8, Zenon DEF EngineInv

\* forcePropose and proposeNextBlock: the guard on lastProposedHeight has been passed.
LEMMA CallStep ==
  ASSUME EngineInv, NEW t \in Ticks, tick[t].pc # "idle", lastHeight <= height, CallPropose(t),
         lastBlock' = lastBlock \/ lastBlock' = NoBlock,
         UNCHANGED <<lastHeight, syncing, stalled, watching, chain, history>>
  PROVE  EngineInv'
<1> DEFINE r == [pc |-> "turn", force |-> override /\ ~roundActive, block |-> NoBlock]
<1>1. EngineType /\ StallInv /\ SyncInv /\ EraInv /\ ProposeInv
  BY Zenon DEF EngineInv
<1>2. /\ UNCHANGED <<lastHeight, height, prepared, finalized, finalizing, era, built, resent, races>>
      /\ sync' = sync
  BY Zenon DEF chain, history, round, syncing
<1>3. r \in TickRecord /\ r.pc = "turn" /\ r.block = NoBlock
  BY IdleIsTyped DEF TickRecord
<1>4. /\ tick' \in [Ticks -> TickRecord]
      /\ \A u \in Ticks : tick'[u] = IF u = t THEN r ELSE tick[u]
  BY <1>1, <1>3 DEF EngineType, CallPropose
<1> HIDE DEF r
<1>5. EngineType'
  BY <1>1, <1>2, <1>3, <1>4, IdleIsTyped, Zenon DEF EngineType
<1>6. StallInv'
  BY <1>1, <1>2, Zenon DEF StallInv, CallPropose
<1>7. SyncInv'
  BY <1>1, <1>2, SyncKept, Zenon
<1>8. EraInv'
  BY <1>1, <1>2, <1>3, <1>4, Zenon DEF EraInv
<1>9. ProposeInv'
  <2> SUFFICES ASSUME races \cap {"overlap", "report", "applyFails"} = {} PROVE ProposeInv'
    BY <1>2, Zenon DEF ProposeInv
  <2>1. \A u, v \in Ticks : tick[u].pc # "idle" /\ tick[v].pc # "idle" => u = v
    BY <1>1, Zenon DEF ProposeInv
  <2>2. \A u, v \in Ticks : tick'[u].pc # "idle" /\ tick'[v].pc # "idle" => u = v
    BY <2>1, <1>4
  <2>3. \A u \in Ticks : tick'[u].pc # "build" \/ tick'[u] = tick[u]
    BY <1>3, <1>4, Zenon
  <2> QED BY <1>1, <1>2, <2>2, <2>3, Zenon DEF ProposeInv, Reached, OneProposalPerHeight
<1> QED BY <1>5, <1>6, <1>7, <1>8, <1>9, Zenon DEF EngineInv

\* proposeNextBlock has read the height: no block of this height was built yet.
LEMMA MyTurnStep ==
  ASSUME EngineInv, NEW t \in Ticks, MyTurn(t) PROVE EngineInv'
<1> DEFINE r == [tick[t] EXCEPT !.pc = "build", !.block = Block(height + 1, 0)]
<1>1. EngineType /\ StallInv /\ SyncInv /\ EraInv /\ ProposeInv
  BY Zenon DEF EngineInv
<1>2. /\ UNCHANGED <<lastHeight, lastBlock, height, prepared, finalized, finalizing, era, built,
                     resent, races, watchdog, syncing>>
      /\ sync' = sync
  BY Zenon DEF MyTurn, chain, history, round, syncing
<1>3. /\ r \in TickRecord /\ r.pc = "build" /\ r.block # NoBlock
      /\ r.block.h = height + 1 /\ r.block.era = era /\ r.block \in BlockRecord
  <2> DEFINE b == Block(height + 1, 0)
  <2>1. b \in BlockRecord /\ b # NoBlock /\ b.h = height + 1 /\ b.era = era
    BY <1>1 DEF BlockRecord, Block, NoBlock, EngineType
  <2> HIDE DEF b
  <2>2. tick[t] \in TickRecord
    BY <1>1, Zenon DEF EngineType
  <2> QED BY <2>1, <2>2, Zenon DEF TickRecord, b
<1>4. /\ tick' \in [Ticks -> TickRecord]
      /\ \A u \in Ticks : tick'[u] = IF u = t THEN r ELSE tick[u]
  BY <1>1, <1>3 DEF EngineType, MyTurn
<1> HIDE DEF r
<1>5. EngineType'
  BY <1>1, <1>2, <1>3, <1>4, Zenon DEF EngineType
<1>6. StallInv' /\ SyncInv'
  BY <1>1, <1>2, StallKept, SyncKept, Zenon
<1>7. EraInv'
  BY <1>1, <1>2, <1>3, <1>4, Zenon DEF EraInv
<1>8. ProposeInv'
  <2> SUFFICES ASSUME races \cap {"overlap", "report", "applyFails"} = {} PROVE ProposeInv'
    BY <1>2, Zenon DEF ProposeInv
  <2>1. tick[t].pc = "turn" /\ (finalizing # "idle" => height < finalized)
    <3>1. "report" \notin races
      BY Zenon
    <3> QED BY <3>1, <1>1 DEF MyTurn, EngineType
  <2>2. \A u, v \in Ticks : tick[u].pc # "idle" /\ tick[v].pc # "idle" => u = v
    BY <1>1, Zenon DEF ProposeInv
  <2>3. \A u \in Ticks \ {t} : tick'[u] = tick[u] /\ tick[u].pc = "idle"
    BY <2>1, <2>2, <1>4
  <2>4. \A u, v \in Ticks : tick'[u].pc # "idle" /\ tick'[v].pc # "idle" => u = v
    BY <2>3
  <2>5. lastHeight <= height
    BY <1>1, <2>1, Zenon DEF ProposeInv
  <2>6. lastHeight < r.block.h
    BY <1>1, <1>3, <2>5 DEF EngineType
  <2>7. Reached(r.block)
    <3>1. /\ finalizing # "resync"
          /\ finalizing = "report" => finalized <= height
          /\ finalizing = "apply" => finalized <= height + 1
      BY <1>1, Zenon DEF ProposeInv
    <3> QED BY <1>1, <1>3, <2>1, <3>1 DEF Reached, EngineType
  <2>8. \A b \in built : b.era = era => b.h < height + 1
    <3> SUFFICES ASSUME NEW b \in built, b.era = era PROVE b.h < height + 1
      BY Zenon
    <3>1. b.h <= lastHeight \/ b.h <= height
      BY <1>1, Zenon DEF ProposeInv
    <3>2. b.h \in Nat
      BY <1>1 DEF EngineType, BlockRecord
    <3> QED BY <3>1, <3>2, <2>5, <1>1 DEF EngineType
  <2>9. ASSUME NEW u \in Ticks, tick'[u].pc = "build"
        PROVE  /\ Reached(tick'[u].block) /\ lastHeight < tick'[u].block.h
               /\ \A b \in built : b.era = tick'[u].block.era => b.h < tick'[u].block.h
    <3>1. u = t /\ tick'[u] = r
      BY <2>3, <2>9, <1>4, Zenon
    <3> QED BY <3>1, <2>6, <2>7, <2>8, <1>2, <1>3, Zenon
  <2>10. \A u \in Ticks : tick'[u].pc # "turn"
    BY <2>3, <1>3, <1>4
  <2>11. /\ finalizing # "resync"
         /\ finalizing \in {"idle", "report"} => finalized <= height
         /\ finalizing = "apply" => finalized <= height + 1
         /\ \A b \in built : Reached(b) /\ (b.era = era => b.h <= lastHeight \/ b.h <= height)
         /\ OneProposalPerHeight
    BY <1>1, Zenon DEF ProposeInv
  <2> QED BY <1>2, <2>4, <2>9, <2>10, <2>11, Zenon DEF ProposeInv, Reached, OneProposalPerHeight
<1> QED BY <1>5, <1>6, <1>7, <1>8, Zenon DEF EngineInv

\* A block gets its number.
LEMMA NumberedBlock ==
  ASSUME NEW b \in BlockRecord, NEW k \in Nat
  PROVE  LET x == [b EXCEPT !.n = k] IN x \in BlockRecord /\ x.h = b.h /\ x.era = b.era
BY DEF BlockRecord

\* The block is built: it is the only one of its height and set, and lastProposedHeight
\* covers it.
LEMMA BuiltStep ==
  ASSUME EngineInv, NEW t \in Ticks, Built(t) PROVE EngineInv'
<1> DEFINE x == [tick[t].block EXCEPT !.n = Cardinality(built) + 1]
           r == [tick[t] EXCEPT !.pc = "send", !.block = x]
<1>1. EngineType /\ StallInv /\ SyncInv /\ EraInv /\ ProposeInv
  BY Zenon DEF EngineInv
<1>2. /\ UNCHANGED <<height, prepared, finalized, finalizing, era, resent, races, watchdog, syncing>>
      /\ sync' = sync /\ tick[t].pc = "build"
      /\ built' = built \cup {x} /\ lastHeight' = x.h /\ lastBlock' = x
  BY Zenon DEF Built, chain, history, round, syncing
<1>3. /\ Cardinality(built) + 1 \in Nat /\ IsFiniteSet(built')
  <2>1. IsFiniteSet(built)
    BY <1>1, Zenon DEF EngineType
  <2>2. Cardinality(built) \in Nat
    BY <2>1, FS_CardinalityType, Zenon
  <2>3. IsFiniteSet(built \cup {x})
    BY <2>1, FS_AddElement, Zenon
  <2> QED BY <2>2, <2>3, <1>2
<1>4. x \in BlockRecord /\ x.h = tick[t].block.h /\ x.era = tick[t].block.era
  <2>1. tick[t].block \in BlockRecord
    BY <1>1 DEF EngineType, TickRecord
  <2> QED BY <2>1, <1>3, NumberedBlock, Zenon
<1> HIDE DEF x
<1>5. r \in TickRecord /\ r.pc = "send" /\ r.block = x
  BY <1>1, <1>4, Zenon DEF TickRecord, EngineType
<1>6. /\ tick' \in [Ticks -> TickRecord]
      /\ \A u \in Ticks : tick'[u] = IF u = t THEN r ELSE tick[u]
  BY <1>1, <1>5 DEF EngineType, Built, x
<1> HIDE DEF r
<1>7. EngineType'
  <2>1. x.h \in Nat /\ built' \subseteq BlockRecord
    BY <1>1, <1>2, <1>4 DEF EngineType, BlockRecord
  <2> QED BY <2>1, <1>1, <1>2, <1>3, <1>4, <1>5, <1>6, Zenon DEF EngineType
<1>8. StallInv' /\ SyncInv'
  BY <1>1, <1>2, StallKept, SyncKept, Zenon
<1>9. EraInv'
  <2>1. tick[t].block # NoBlock
    BY <1>1, <1>2, Zenon DEF EngineType
  <2> QED BY <2>1, <1>1, <1>2, <1>4, <1>5, <1>6, Zenon DEF EraInv
<1>10. ProposeInv'
  <2> SUFFICES ASSUME races \cap {"overlap", "report", "applyFails"} = {} PROVE ProposeInv'
    BY <1>2, Zenon DEF ProposeInv
  <2>1. \A u, v \in Ticks : tick[u].pc # "idle" /\ tick[v].pc # "idle" => u = v
    BY <1>1, Zenon DEF ProposeInv
  <2>2. \A u \in Ticks : tick'[u].pc # "idle" => u = t
    BY <2>1, <1>2, <1>6
  <2>3. \A u \in Ticks : tick'[u].pc \notin {"turn", "build"}
    BY <2>2, <1>5, <1>6
  <2>4. /\ Reached(tick[t].block) /\ lastHeight < tick[t].block.h
        /\ \A b \in built : b.era = tick[t].block.era => b.h < tick[t].block.h
    BY <1>1, <1>2, Zenon DEF ProposeInv
  <2>5. OneProposalPerHeight'
    <3>1. \A b \in built : b.h \in Nat
      BY <1>1 DEF EngineType, BlockRecord
    <3>2. x.h \in Nat
      BY <1>4 DEF BlockRecord
    <3>3. \A b \in built : b.era = x.era => b.h # x.h
      BY <3>1, <3>2, <2>4, <1>4
    <3>4. OneProposalPerHeight
      BY <1>1, Zenon DEF ProposeInv
    <3> QED BY <3>3, <3>4, <1>2, Zenon DEF OneProposalPerHeight
  <2>6. ASSUME NEW b \in built'
        PROVE  Reached(b)' /\ (b.era = era => b.h <= lastHeight' \/ b.h <= height)
    <3>1. CASE b = x
      <4>1. x.h <= x.h
        BY <1>4 DEF BlockRecord
      <4> QED BY <3>1, <4>1, <1>2, <1>4, <2>4, Zenon DEF Reached
    <3>2. CASE b \in built
      <4>1. Reached(b) /\ (b.era = era => b.h <= lastHeight \/ b.h <= height)
        BY <3>2, <1>1, Zenon DEF ProposeInv
      <4>2. b.h <= lastHeight => b.h <= x.h
        BY <3>2, <2>4, <1>1, <1>4 DEF EngineType, BlockRecord
      <4> QED BY <4>1, <4>2, <1>2, Zenon DEF Reached
    <3> QED BY <2>6, <3>1, <3>2, <1>2, Zenon
  <2>7. /\ finalizing # "resync"
        /\ finalizing \in {"idle", "report"} => finalized <= height
        /\ finalizing = "apply" => finalized <= height + 1
    BY <1>1, Zenon DEF ProposeInv
  <2> QED BY <1>2, <2>2, <2>3, <2>5, <2>6, <2>7, Zenon DEF ProposeInv
<1> QED BY <1>7, <1>8, <1>9, <1>10, Zenon DEF EngineInv

\* A timed-out proposal is sent again: it is of the present validator set.
LEMMA ResendStep ==
  ASSUME EngineInv, NEW t \in Ticks, tick[t].pc = "height", ToRebroadcast # NoBlock,
         tick' = [tick EXCEPT ![t].pc = "resend", ![t].block = ToRebroadcast],
         resent' = [block |-> ToRebroadcast, at |-> era],
         UNCHANGED <<lastHeight, lastBlock, syncing, watchdog, chain, built, races>>
  PROVE  EngineInv'
<1> DEFINE r == [tick[t] EXCEPT !.pc = "resend", !.block = ToRebroadcast]
<1>1. EngineType /\ StallInv /\ SyncInv /\ EraInv /\ ProposeInv
  BY Zenon DEF EngineInv
<1>2. UNCHANGED <<height, prepared, finalized, finalizing, era, sync>>
  BY Zenon DEF chain, round, syncing
<1>3. ToRebroadcast = prepared \/ ToRebroadcast = lastBlock
  BY Zenon DEF ToRebroadcast
<1>4. tick[t] \in TickRecord /\ ToRebroadcast \in BlockRecord
  BY <1>1, <1>3, Zenon DEF EngineType
<1> HIDE DEF ToRebroadcast
<1>5. r \in TickRecord /\ r.pc = "resend" /\ r.block = ToRebroadcast
  BY <1>4, Zenon DEF TickRecord
<1>6. /\ tick' = [tick EXCEPT ![t] = r] /\ tick' \in [Ticks -> TickRecord]
      /\ \A u \in Ticks : tick'[u] = IF u = t THEN r ELSE tick[u]
  BY <1>1, <1>5, Zenon DEF EngineType
<1> HIDE DEF r
<1>7. EngineType'
  BY <1>1, <1>2, <1>5, <1>6, Zenon DEF EngineType
<1>8. StallInv' /\ SyncInv'
  BY <1>1, <1>2, StallKept, SyncKept, Zenon
<1>9. EraInv'
  <2>1. resent'.block = ToRebroadcast /\ resent'.at = era
    BY Zenon
  <2> QED BY <2>1, <1>1, <1>2, <1>3, <1>5, <1>6, Zenon DEF EraInv
<1>10. ProposeInv'
  BY <1>1, <1>2, <1>5, <1>6, TickMoves, Zenon
<1> QED BY <1>7, <1>8, <1>9, <1>10, Zenon DEF EngineInv

\* The calls of tryPropose.
LEMMA ProposeSteps ==
  ASSUME EngineInv, NEW t \in Ticks, TryPropose(t) \/ Propose(t) PROVE EngineInv'
<1>1. EngineType /\ StallInv /\ ProposeInv
  BY Zenon DEF EngineInv
<1> USE <1>1, IdleIsTyped
<1>2. CASE TryPropose(t)
  <2>1. StallInv'
    BY <1>2, StallKept, Zenon DEF TryPropose, history
  <2>2. /\ tick' = [tick EXCEPT ![t].pc = "tip"] /\ tick[t].pc = "idle"
        /\ "overlap" \in races \/ \A u \in Ticks : tick[u].pc = "idle"
        /\ UNCHANGED <<lastHeight, lastBlock, syncing, height, prepared, finalized, finalizing, era,
                       built, resent, races>>
    BY <1>2, Zenon DEF TryPropose, chain, round, history
  <2> QED BY <2>1, <2>2, PcMoves, TickStep, Zenon
<1>3. CASE SlotTaken(t)
  <2>1. StallInv'
    BY <1>3, StallKept, Zenon DEF SlotTaken, history
  <2>2. /\ tick' = [tick EXCEPT ![t] = Idle] /\ tick[t].pc = "tip"
        /\ UNCHANGED <<lastHeight, lastBlock, syncing, height, prepared, finalized, finalizing, era,
                       built, resent, races>>
    BY <1>3, Zenon DEF SlotTaken, chain, round, history
  <2> QED BY <2>1, <2>2, TickStep, Zenon
<1>4. CASE EnterPropose(t)
  <2>1. /\ tick[t].pc = "tip"
        /\ UNCHANGED <<lastHeight, lastBlock, syncing, stalled, watching, chain, history>>
        /\ UNCHANGED <<height, prepared, finalized, finalizing, era, built, resent, races>>
    BY <1>4, Zenon DEF EnterPropose, chain, round, history
  <2>2. CASE lastHeight > 0
    <3>1. tick' = [tick EXCEPT ![t].pc = "height"] /\ UNCHANGED <<watchdog, races>>
      BY <1>4, <2>1, <2>2, Zenon DEF EnterPropose, watchdog
    <3> QED BY <2>1, <3>1, StallKept, PcMoves, TickStep, Zenon
  <2>3. CASE ~(lastHeight > 0)
    <3>1. lastHeight <= height
      BY <2>3 DEF EngineType
    <3>2. CallPropose(t)
      BY <1>4, <2>3, Zenon DEF EnterPropose
    <3> QED BY <2>1, <3>1, <3>2, CallStep, Zenon
  <2> QED BY <2>2, <2>3, Zenon
<1>5. CASE CheckLastProposed(t)
  <2>1. /\ tick[t].pc = "height"
        /\ UNCHANGED <<lastHeight, syncing, stalled, watching, chain, built, races>>
        /\ UNCHANGED <<height, prepared, finalized, finalizing, era>>
    BY <1>5, Zenon DEF CheckLastProposed, chain, round
  <2>2. CASE height < lastHeight /\ (roundActive \/ ToRebroadcast = NoBlock)
    <3>1. tick' = [tick EXCEPT ![t] = Idle] /\ UNCHANGED <<lastBlock, override, resent>>
      BY <1>5, <2>2, Zenon DEF CheckLastProposed, Finish
    <3> QED BY <2>1, <3>1, StallKept, TickStep, Zenon DEF watchdog
  <2>3. CASE height < lastHeight /\ ~(roundActive \/ ToRebroadcast = NoBlock)
    <3>1. /\ tick' = [tick EXCEPT ![t].pc = "resend", ![t].block = ToRebroadcast]
          /\ resent' = [block |-> ToRebroadcast, at |-> era]
          /\ UNCHANGED <<lastBlock, override>>
      BY <1>5, <2>3, Zenon DEF CheckLastProposed
    <3> QED BY <2>1, <2>3, <3>1, ResendStep, Zenon DEF watchdog
  <2>4. CASE ~(height < lastHeight)
    <3>1. lastHeight <= height
      BY <2>4 DEF EngineType
    <3>2. CallPropose(t) /\ lastBlock' = NoBlock /\ UNCHANGED resent
      BY <1>5, <2>4, Zenon DEF CheckLastProposed
    <3> QED BY <2>1, <3>1, <3>2, CallStep, Zenon DEF history
  <2> QED BY <2>2, <2>3, <2>4, Zenon
<1>6. CASE NotMyTurn(t) \/ ProposeFails(t)
  <2>1. /\ tick' = [tick EXCEPT ![t] = Idle] /\ tick[t].pc # "idle"
        /\ UNCHANGED <<lastHeight, lastBlock, syncing, watchdog, height, prepared, finalized,
                       finalizing, era, built, resent, races>>
    BY <1>6, Zenon DEF NotMyTurn, ProposeFails, Finish, chain, round, history
  <2> QED BY <2>1, StallKept, TickStep, Zenon
<1>7. CASE MyTurn(t)
  BY <1>7, MyTurnStep, Zenon
<1>8. CASE Built(t)
  BY <1>8, BuiltStep, Zenon
<1>9. CASE Sent(t) \/ Resent(t)
  <2>1. /\ tick' = [tick EXCEPT ![t] = Idle] /\ tick[t].pc # "idle"
        /\ UNCHANGED <<lastHeight, lastBlock, syncing, watchdog, height, finalized,
                       finalizing, era, built, resent, races>>
    BY <1>9, Zenon DEF Sent, Resent, Finish, history
  <2>2. prepared' = prepared \/ prepared' = tick[t].block
    BY <1>9, Zenon DEF Sent, Resent, StartRound, round
  <2> QED BY <2>1, <2>2, StallKept, TickStep, Zenon
<1> QED BY <1>2, <1>3, <1>4, <1>5, <1>6, <1>7, <1>8, <1>9, Zenon DEF Propose

\* Who claims the flag is the only one to sync.
LEMMA ClaimKeeps ==
  ASSUME EngineType, SyncInv, NEW s \in Syncs, NEW kind \in {"trySync", "forceSnapSync"},
         ClaimSync(s, kind), UNCHANGED races
  PROVE  /\ SyncInv'
         /\ sync' \in [Syncs -> {"idle", "trySync", "forceSnapSync", "adopt", "import"}]
<1>1. /\ sync' \in [Syncs -> {"idle", "trySync", "forceSnapSync", "adopt", "import"}]
      /\ \A u \in Syncs : sync'[u] = IF u = s THEN kind ELSE sync[u]
  BY DEF EngineType, ClaimSync
<1>2. ~syncInFlight /\ syncInFlight' /\ ~overdue'
  BY Zenon DEF ClaimSync, MaySync
<1>3. ASSUME "slowSync" \notin races
      PROVE  \A u \in Syncs : sync'[u] # "idle" => u = s
  BY <1>1, <1>2, <1>3, Zenon DEF SyncInv
<1> QED BY <1>1, <1>2, <1>3, Zenon DEF SyncInv

\* Who ends a sync was the only one.
LEMMA EndKeeps ==
  ASSUME EngineType, SyncInv, NEW s \in Syncs, sync[s] # "idle", EndSync(s), UNCHANGED races
  PROVE  /\ SyncInv'
         /\ sync' \in [Syncs -> {"idle", "trySync", "forceSnapSync", "adopt", "import"}]
<1>1. /\ sync' \in [Syncs -> {"idle", "trySync", "forceSnapSync", "adopt", "import"}]
      /\ \A u \in Syncs : sync'[u] = IF u = s THEN "idle" ELSE sync[u]
  BY DEF EngineType, EndSync
<1>2. ~overdue'
  BY Zenon DEF EndSync
<1>3. ASSUME "slowSync" \notin races
      PROVE  \A u \in Syncs : sync'[u] = "idle"
  BY <1>1, <1>3, Zenon DEF SyncInv
<1> QED BY <1>1, <1>2, <1>3, Zenon DEF SyncInv

\* The chain only grows: what was below it stays below.
LEMMA ChainGrows ==
  ASSUME EngineType, ProposeInv, height' \in Nat, height <= height',
         UNCHANGED <<tick, lastHeight, finalized, finalizing, era, built, races>>
  PROVE  ProposeInv'
<1> SUFFICES ASSUME races \cap {"overlap", "report", "applyFails"} = {} PROVE ProposeInv'
  BY Zenon DEF ProposeInv
<1> USE DEF EngineType
<1>1. /\ finalizing \in {"idle", "report"} => finalized <= height'
      /\ finalizing = "apply" => finalized <= height' + 1
  <2>1. /\ finalizing \in {"idle", "report"} => finalized <= height
        /\ finalizing = "apply" => finalized <= height + 1
    BY Zenon DEF ProposeInv
  <2>2. finalized <= height => finalized <= height'
    OBVIOUS
  <2>3. finalized <= height + 1 => finalized <= height' + 1
    <3>1. finalized \in Nat /\ height \in Nat
      OBVIOUS
    <3>2. \A f, h, k \in Nat : h <= k /\ f <= h + 1 => f <= k + 1
      OBVIOUS
    <3> QED BY <3>1, <3>2, Zenon
  <2> QED BY <2>1, <2>2, <2>3, Zenon
<1>2. ASSUME NEW b \in BlockRecord, Reached(b) PROVE Reached(b)'
  BY <1>2 DEF Reached, BlockRecord
<1>3. ASSUME NEW b \in built
      PROVE  Reached(b)' /\ (b.era = era => b.h <= lastHeight \/ b.h <= height')
  <2>1. Reached(b) /\ (b.era = era => b.h <= lastHeight \/ b.h <= height) /\ b \in BlockRecord
    BY <1>3, Zenon DEF ProposeInv
  <2>2. b.h <= height => b.h <= height'
    BY <2>1 DEF BlockRecord
  <2> QED BY <1>2, <2>1, <2>2, Zenon
<1>4. ASSUME NEW t \in Ticks PROVE tick[t].pc = "turn" => lastHeight <= height'
  <2>1. tick[t].pc = "turn" => lastHeight <= height
    BY <1>4, Zenon DEF ProposeInv
  <2> QED BY <2>1
<1>5. ASSUME NEW t \in Ticks, tick[t].pc = "build" PROVE Reached(tick[t].block)'
  <2>1. Reached(tick[t].block)
    BY <1>5, Zenon DEF ProposeInv
  <2>2. tick[t].block \in BlockRecord
    BY DEF TickRecord
  <2>3. \A b \in BlockRecord : Reached(b) => Reached(b)'
    BY <1>2, Zenon
  <2> QED BY <2>1, <2>2, <2>3, Zenon DEF Reached
<1> QED BY <1>1, <1>3, <1>4, <1>5, Zenon DEF ProposeInv, OneProposalPerHeight

\* The syncs and the watchdog of their flag.
LEMMA SyncSteps ==
  ASSUME EngineInv,
         \/ \E s \in Syncs : StartSync(s, "trySync") \/ StartSync(s, "forceSnapSync")
                             \/ Fetched(s) \/ Adopt(s)
         \/ TooLong \/ CheckSyncInFlightWatchdog
  PROVE  EngineInv'
<1>1. EngineType /\ StallInv /\ SyncInv /\ EraInv /\ ProposeInv
  BY Zenon DEF EngineInv
<1>2. ASSUME UNCHANGED <<proposing, watchdog, chain, history>>, SyncInv',
             sync' \in [Syncs -> {"idle", "trySync", "forceSnapSync", "adopt", "import"}]
      PROVE  EngineInv'
  <2>1. UNCHANGED <<tick, lastHeight, lastBlock, prepared, height, finalized, finalizing, era, built,
                    resent, races>>
    BY <1>2, Zenon DEF proposing, chain, round, history
  <2>2. EngineType'
    BY <1>1, <1>2, <2>1, Zenon DEF EngineType
  <2> QED BY <1>1, <1>2, <2>1, <2>2, StallKept, EraKept, ProposeKept, Zenon DEF EngineInv
<1>3. ASSUME NEW s \in Syncs, StartSync(s, "trySync") \/ StartSync(s, "forceSnapSync")
      PROVE  EngineInv'
  <2>1. UNCHANGED <<proposing, watchdog, chain, history>> /\ UNCHANGED races
    BY <1>3, Zenon DEF StartSync, history
  <2>2. \E kind \in {"trySync", "forceSnapSync"} : ClaimSync(s, kind)
    BY <1>3, Zenon DEF StartSync
  <2> QED BY <1>1, <1>2, <2>1, <2>2, ClaimKeeps, Zenon
<1>4. ASSUME NEW s \in Syncs, Fetched(s) PROVE EngineInv'
  <2>1. /\ UNCHANGED <<proposing, watchdog, chain, history>> /\ UNCHANGED races
        /\ sync[s] # "idle"
    BY <1>4, Zenon DEF Fetched, history
  <2>2. CASE EndSync(s)
    BY <1>1, <1>2, <2>1, <2>2, EndKeeps, Zenon
  <2>3. CASE /\ sync' = [sync EXCEPT ![s] = IF @ = "trySync" THEN "adopt" ELSE "import"]
             /\ UNCHANGED <<syncInFlight, overdue>>
    <3>1. /\ sync' \in [Syncs -> {"idle", "trySync", "forceSnapSync", "adopt", "import"}]
          /\ \A u \in Syncs : sync'[u] # "idle" => sync[u] # "idle"
      BY <1>1, <2>1, <2>3 DEF EngineType
    <3>2. SyncInv'
      BY <1>1, <2>1, <2>3, <3>1, Zenon DEF SyncInv
    <3> QED BY <1>2, <2>1, <3>1, <3>2, Zenon
  <2> QED BY <1>4, <2>2, <2>3, Zenon DEF Fetched
<1>5. ASSUME NEW s \in Syncs, Adopt(s) PROVE EngineInv'
  <2>1. /\ UNCHANGED <<tick, lastHeight, lastBlock, prepared, finalized, finalizing, era, built,
                       resent, races, watchdog>>
        /\ sync[s] # "idle" /\ EndSync(s)
    BY <1>5, Zenon DEF Adopt, proposing, round, history
  <2>2. height' \in Nat /\ height <= height'
    <3>1. PICK h \in height .. MaxHeight : height' = h
      BY <1>5, Zenon DEF Adopt
    <3>2. height \in Nat
      BY <1>1, Zenon DEF EngineType
    <3> QED BY <3>1, <3>2
  <2>3. EngineType' /\ SyncInv'
    BY <1>1, <2>1, <2>2, EndKeeps, Zenon DEF EngineType
  <2>4. ProposeInv'
    BY <1>1, <2>1, <2>2, ChainGrows, Zenon
  <2> QED BY <1>1, <2>1, <2>3, <2>4, StallKept, EraKept, Zenon DEF EngineInv
<1>6. CASE TooLong \/ CheckSyncInFlightWatchdog
  <2>1. UNCHANGED <<proposing, watchdog, chain, history, sync, races>>
    BY <1>6, Zenon DEF TooLong, CheckSyncInFlightWatchdog, history
  <2>2. "slowSync" \in races
    BY <1>1, <1>6, Zenon DEF TooLong, CheckSyncInFlightWatchdog, SyncInv
  <2>3. SyncInv'
    BY <2>1, <2>2, Zenon DEF SyncInv
  <2> QED BY <1>1, <1>2, <2>1, <2>3, Zenon DEF EngineType
<1> QED BY <1>3, <1>4, <1>5, <1>6, Zenon

\* The health of the engine and the watchdog of its progress.
LEMMA WatchSteps ==
  ASSUME EngineInv,
         \/ CheckDegradedTimeout \/ CooldownEnds
         \/ NoProgressForLong \/ WatchProgress \/ ActOnStall
  PROVE  EngineInv'
<1>1. EngineType /\ StallInv /\ SyncInv /\ EraInv /\ ProposeInv
  BY Zenon DEF EngineInv
<1>2. UNCHANGED <<tick, lastHeight, lastBlock, prepared, height, finalized, finalizing, era, built,
                  resent, races, sync, syncing>>
  BY Zenon DEF CheckDegradedTimeout, CooldownEnds, NoProgressForLong, WatchProgress, ActOnStall,
               proposing, syncing, chain, round, history
<1>3. CASE CheckDegradedTimeout \/ CooldownEnds
  <2>1. UNCHANGED watchdog
    BY <1>3, Zenon DEF CheckDegradedTimeout, CooldownEnds
  <2> QED BY <1>1, <1>2, <2>1, TypeKept, StallKept, SyncKept, EraKept, ProposeKept, Zenon DEF EngineInv
<1>4. CASE NoProgressForLong \/ WatchProgress \/ ActOnStall
  <2>1. StallInv'
    BY <1>1, <1>2, <1>4, Zenon DEF StallInv, NoProgressForLong, WatchProgress, ActOnStall
  <2> QED BY <1>1, <1>2, <2>1, TypeKept, SyncKept, EraKept, ProposeKept, Zenon DEF EngineInv
<1> QED BY <1>3, <1>4, Zenon

\* A round on a peer's block, and the end of a round.
LEMMA RoundSteps ==
  ASSUME EngineInv, PeerBlock \/ RoundTimeout
  PROVE  EngineInv'
<1>1. EngineType /\ StallInv /\ SyncInv /\ EraInv /\ ProposeInv
  BY Zenon DEF EngineInv
<1>2. UNCHANGED <<tick, lastHeight, lastBlock, height, finalized, finalizing, era, built,
                  resent, races, sync, syncing, watchdog>>
  BY Zenon DEF PeerBlock, RoundTimeout, proposing, syncing, history
<1>3. Floor + 1 \in Nat /\ era \in Nat
  BY <1>1 DEF EngineType, Floor
<1>4. prepared' \in {prepared, Block(Floor + 1, 0)}
  BY Zenon DEF PeerBlock, RoundTimeout
<1>5. Block(Floor + 1, 0) \in BlockRecord /\ Block(Floor + 1, 0).era = era
  BY <1>3 DEF Block, BlockRecord
<1>6. prepared' \in BlockRecord
  BY <1>1, <1>4, <1>5, Zenon DEF EngineType
<1>7. EngineType'
  BY <1>1, <1>2, <1>6, Zenon DEF EngineType
<1>8. EraInv'
  BY <1>1, <1>2, <1>4, <1>5, Zenon DEF EraInv
<1> QED BY <1>1, <1>2, <1>7, <1>8, StallKept, SyncKept, ProposeKept, Zenon DEF EngineInv

\* No own block is above the one that is finalized.
LEMMA FinalizeStep == ASSUME EngineInv, Finalize PROVE EngineInv'
<1>1. EngineType /\ StallInv /\ SyncInv /\ EraInv /\ ProposeInv
  BY Zenon DEF EngineInv
<1>2. UNCHANGED <<tick, lastHeight, lastBlock, height, era, built, resent, races, sync, syncing,
                  watchdog>>
  BY Zenon DEF Finalize, proposing, syncing, history
<1>3. /\ finalizing = "idle" /\ finalizing' = "apply"
      /\ prepared' = NoBlock /\ finalized' = Floor + 1
  BY Zenon DEF Finalize
<1>4. height \in Nat /\ finalized \in Nat /\ NoBlock \in BlockRecord
  BY <1>1 DEF EngineType, NoBlock, BlockRecord
<1>5. finalized' \in Nat
  BY <1>3, <1>4 DEF Floor
<1>6. EngineType'
  BY <1>1, <1>2, <1>3, <1>4, <1>5, Zenon DEF EngineType
<1>7. EraInv'
  BY <1>1, <1>2, <1>3, Zenon DEF EraInv
<1>8. ProposeInv'
  <2> SUFFICES ASSUME races \cap {"overlap", "report", "applyFails"} = {} PROVE ProposeInv'
    BY <1>2, Zenon DEF ProposeInv
  <2>1. finalized <= height
    BY <1>1, <1>3, Zenon DEF ProposeInv
  <2>2. finalized' = height + 1
    BY <1>3, <1>4, <2>1 DEF Floor
  <2>3. finalized' <= height + 1
    BY <1>4, <2>2
  <2>4. \A b : Reached(b) => Reached(b)'
    BY <1>2, <1>3, <2>2, Zenon DEF Reached
  <2>5. \A t \in Ticks : Reached(tick[t].block) =>
          /\ tick[t].block.h <= height + 1 /\ tick[t].block.era <= era
          /\ tick[t].block.h <= finalized'
    BY <2>2, Zenon DEF Reached
  <2> QED BY <1>1, <1>2, <1>3, <2>3, <2>4, <2>5, Zenon DEF ProposeInv, OneProposalPerHeight, Reached
<1> QED BY <1>1, <1>2, <1>6, <1>7, <1>8, StallKept, SyncKept, Zenon DEF EngineInv

\* The finalized block is on the chain before it is reported.
LEMMA ApplyStep == ASSUME EngineInv, Apply PROVE EngineInv'
<1>1. EngineType /\ StallInv /\ SyncInv /\ EraInv /\ ProposeInv
  BY Zenon DEF EngineInv
<1>2. /\ UNCHANGED <<tick, lastHeight, lastBlock, prepared, finalized, era, built, resent, races,
                     watchdog>>
      /\ finalizing = "apply"
  BY Zenon DEF Apply, proposing, round, history
<1>3. height \in Nat /\ finalized \in Nat
  BY <1>1, Zenon DEF EngineType
<1>4. /\ SyncInv'
      /\ sync' \in [Syncs -> {"idle", "trySync", "forceSnapSync", "adopt", "import"}]
  <2>1. CASE UNCHANGED syncing
    BY <1>1, <1>2, <2>1, SyncKept, Zenon DEF syncing, EngineType
  <2>2. CASE \E s \in Syncs : ClaimSync(s, "forceSnapSync")
    BY <1>1, <1>2, <2>2, ClaimKeeps, Zenon
  <2> QED BY <2>1, <2>2, Zenon DEF Apply
<1>5. finalizing' \in {"report", "resync"} /\ height' \in {height, finalized}
  BY Zenon DEF Apply
<1>6. EngineType'
  BY <1>1, <1>2, <1>3, <1>4, <1>5, Zenon DEF EngineType
<1>7. ProposeInv'
  <2> SUFFICES ASSUME races \cap {"overlap", "report", "applyFails"} = {} PROVE ProposeInv'
    BY <1>2, Zenon DEF ProposeInv
  <2>1. /\ finalizing' = "report"
        /\ (finalized <= height /\ height' = height) \/ (finalized = height + 1 /\ height' = finalized)
    BY Zenon DEF Apply
  <2>2. height' \in Nat /\ height <= height' /\ finalized <= height'
    BY <1>3, <2>1
  <2>3. \A n \in Nat : (n <= height \/ n <= finalized) => n <= height'
    BY <1>3, <2>2
  <2>4. \A n \in Nat : n <= height' => n <= height' + 1
    <3>1. \A n, k \in Nat : n <= k => n <= k + 1
      OBVIOUS
    <3> QED BY <2>2, <3>1, Zenon
  <2>5. \A b \in BlockRecord : b.h \in Nat
    BY DEF BlockRecord
  <2>6. \A b \in BlockRecord : Reached(b) => b.h <= height' /\ b.h <= height' + 1 /\ b.era <= era
    BY <1>2, <2>3, <2>4, <2>5, Zenon DEF Reached
  <2>7. \A b \in BlockRecord : Reached(b) => Reached(b)'
    BY <1>2, <2>1, <2>6, Zenon DEF Reached
  <2>8. \A t \in Ticks : tick[t].block \in BlockRecord
    BY <1>1 DEF EngineType, TickRecord
  <2>9. ASSUME NEW b \in built
        PROVE  Reached(b)' /\ (b.era = era => b.h <= lastHeight \/ b.h <= height')
    <3>1. Reached(b) /\ b \in BlockRecord
      BY <1>1, <2>9, Zenon DEF ProposeInv, EngineType
    <3> QED BY <2>6, <2>7, <3>1, Zenon
  <2>10. ASSUME NEW t \in Ticks PROVE tick[t].pc = "turn" => lastHeight <= height'
    <3>1. lastHeight \in Nat
      BY <1>1, Zenon DEF EngineType
    <3>2. tick[t].pc = "turn" => lastHeight <= height
      BY <1>1, <2>10, Zenon DEF ProposeInv
    <3> QED BY <2>3, <3>1, <3>2, Zenon
  <2>11. ASSUME NEW t \in Ticks, tick[t].pc = "build"
         PROVE  /\ tick[t].block.h <= height' /\ tick[t].block.h <= height' + 1
                /\ tick[t].block.era <= era
    <3>1. Reached(tick[t].block)
      BY <1>1, <2>11, Zenon DEF ProposeInv
    <3> QED BY <2>6, <2>8, <2>11, <3>1, Zenon
  <2> QED BY <1>1, <1>2, <2>1, <2>2, <2>9, <2>10, <2>11, Zenon
          DEF ProposeInv, OneProposalPerHeight, Reached
<1> QED BY <1>1, <1>2, <1>4, <1>6, <1>7, StallKept, EraKept, Zenon DEF EngineInv

\* With another validator set no block of the old one is at hand.
LEMMA ChangeKeeps ==
  ASSUME EngineInv, ClearLastProposed, UNCHANGED <<tick, resent, races>>,
         \/ ChangeMembers
         \/ UNCHANGED <<round, era>>
  PROVE  /\ lastHeight' = 0 /\ lastBlock' \in BlockRecord /\ prepared' \in BlockRecord
         /\ era' \in {era, era + 1} /\ era' \in Nat
         /\ EraInv'
<1>1. EngineType /\ EraInv
  BY Zenon DEF EngineInv
<1>2. lastHeight' = 0 /\ lastBlock' = NoBlock
  BY Zenon DEF ClearLastProposed
<1>3. NoBlock \in BlockRecord
  BY DEF NoBlock, BlockRecord
<1>4. CASE ChangeMembers
  <2>1. /\ era' = era + 1 /\ prepared' = NoBlock
        /\ "setChange" \in races \/ \A t \in Ticks : tick[t].pc = "idle"
    BY <1>4, Zenon DEF ChangeMembers
  <2>2. era' \in Nat
    BY <1>1, <2>1 DEF EngineType
  <2>3. ASSUME "setChange" \notin races
        PROVE  \A t \in Ticks : tick[t].block = NoBlock
    BY <1>1, <2>1, <2>3, Zenon DEF EngineType
  <2>4. EraInv'
    BY <1>1, <1>2, <2>1, <2>3, Zenon DEF EraInv
  <2> QED BY <1>2, <1>3, <2>1, <2>2, <2>4, Zenon
<1>5. CASE UNCHANGED <<round, era>>
  <2>1. UNCHANGED <<prepared, era>>
    BY <1>5, Zenon DEF round
  <2>2. EraInv'
    BY <1>1, <1>2, <2>1, Zenon DEF EraInv
  <2> QED BY <1>1, <1>2, <1>3, <2>1, <2>2, Zenon DEF EngineType
<1> QED BY <1>4, <1>5, Zenon

\* The own block is forgotten: it is on the chain, or of a validator set that is gone.
LEMMA ForgetKeeps ==
  ASSUME EngineInv, UNCHANGED <<tick, height, finalized, built, races>>,
         lastHeight' \in {0, lastHeight}, era' \in {era, era + 1},
         \/ finalizing = "report" /\ finalizing' = "idle"
         \/ finalizing = "resync" /\ finalizing' = "idle"
         \/ finalizing' = finalizing /\ era' = era + 1
  PROVE  ProposeInv'
<1> SUFFICES ASSUME races \cap {"overlap", "report", "applyFails"} = {} PROVE ProposeInv'
  BY Zenon DEF ProposeInv
<1>1. EngineType /\ ProposeInv
  BY Zenon DEF EngineInv
<1>2. /\ height \in Nat /\ lastHeight \in Nat /\ era \in Nat
      /\ \A t \in Ticks : tick[t].block \in BlockRecord
      /\ built \subseteq BlockRecord
  BY <1>1 DEF EngineType, TickRecord
<1>3. \A b \in BlockRecord : b.h \in Nat /\ b.era \in Nat
  BY DEF BlockRecord
<1>4. \/ finalizing = "report" /\ finalizing' = "idle"
      \/ finalizing' = finalizing /\ era' = era + 1
  BY <1>1, Zenon DEF ProposeInv
<1>5. \A n \in Nat : n <= era => n <= era' /\ (era' = era + 1 => n # era')
  BY <1>2
<1>6. ASSUME NEW b \in BlockRecord, Reached(b)
      PROVE  /\ b.h <= height + 1 /\ b.era <= era'
             /\ finalizing' = "apply" => b.h <= finalized \/ b.h <= height
             /\ finalizing' = "report" => b.h <= height
             /\ b.era = era' => b.h <= height
  <2>1. b.era <= era' /\ (era' = era + 1 => b.era # era')
    BY <1>3, <1>5, <1>6, Zenon DEF Reached
  <2> QED BY <1>4, <1>6, <2>1, Zenon DEF Reached
<1>7. ASSUME NEW b \in built
      PROVE  Reached(b)' /\ (b.era = era' => b.h <= lastHeight' \/ b.h <= height)
  <2>1. Reached(b) /\ b \in BlockRecord
    BY <1>1, <1>2, <1>7, Zenon DEF ProposeInv
  <2> QED BY <1>6, <2>1, Zenon DEF Reached
<1>8. ASSUME NEW t \in Ticks PROVE tick[t].pc = "turn" => lastHeight' <= height
  <2>1. tick[t].pc = "turn" => lastHeight <= height
    BY <1>1, <1>8, Zenon DEF ProposeInv
  <2>2. 0 <= height
    BY <1>2
  <2> QED BY <2>1, <2>2, Zenon
<1>9. ASSUME NEW t \in Ticks, tick[t].pc = "build"
      PROVE  /\ tick[t].block.h <= height + 1 /\ tick[t].block.era <= era'
             /\ finalizing' = "apply" => tick[t].block.h <= finalized \/ tick[t].block.h <= height
             /\ finalizing' = "report" => tick[t].block.h <= height
             /\ lastHeight' < tick[t].block.h
             /\ \A b \in built : b.era = tick[t].block.era => b.h < tick[t].block.h
  <2>1. /\ Reached(tick[t].block) /\ lastHeight < tick[t].block.h
        /\ \A b \in built : b.era = tick[t].block.era => b.h < tick[t].block.h
    BY <1>1, <1>9, Zenon DEF ProposeInv
  <2>2. \A n, m \in Nat : n < m => 0 < m
    OBVIOUS
  <2>3. tick[t].block \in BlockRecord /\ tick[t].block.h \in Nat
    BY <1>2, <1>3, <1>9, Zenon
  <2>4. lastHeight' < tick[t].block.h
    BY <1>2, <2>1, <2>2, <2>3, Zenon
  <2> QED BY <1>6, <2>1, <2>3, <2>4, Zenon
<1> QED BY <1>1, <1>4, <1>7, <1>8, <1>9, Zenon DEF ProposeInv, OneProposalPerHeight, Reached

\* The end of onFinalized, and a new validator set.
LEMMA ChangeSteps == ASSUME EngineInv, Report \/ OnValidatorSetChange PROVE EngineInv'
<1>1. EngineType /\ StallInv /\ SyncInv /\ EraInv /\ ProposeInv
  BY Zenon DEF EngineInv
<1>2. UNCHANGED <<tick, height, finalized, built, resent, races, sync, syncing>>
  BY Zenon DEF Report, OnValidatorSetChange, syncing, history
<1>3. /\ lastHeight' \in {0, lastHeight} /\ lastBlock' \in BlockRecord /\ prepared' \in BlockRecord
      /\ era' \in {era, era + 1} /\ era' \in Nat
      /\ EraInv'
  <2>1. CASE ClearLastProposed /\ (ChangeMembers \/ UNCHANGED <<round, era>>)
    BY <1>2, <2>1, ChangeKeeps, Zenon
  <2>2. CASE UNCHANGED <<lastHeight, lastBlock, round, era>>
    <3>1. UNCHANGED <<lastHeight, lastBlock, prepared, era>>
      BY <2>2, Zenon DEF round
    <3> QED BY <1>1, <1>2, <3>1, EraKept, Zenon DEF EngineType
  <2> QED BY <2>1, <2>2, Zenon DEF Report, OnValidatorSetChange, ChangeMembers
<1>4. \/ finalizing = "report" /\ finalizing' = "idle"
      \/ finalizing = "resync" /\ finalizing' = "idle"
      \/ finalizing' = finalizing /\ era' = era + 1
  BY Zenon DEF Report, OnValidatorSetChange, ChangeMembers
<1>5. lastHeight' \in Nat
  <2>1. 0 \in Nat
    OBVIOUS
  <2> QED BY <1>1, <1>3, <2>1, Zenon DEF EngineType
<1>6. EngineType'
  BY <1>1, <1>2, <1>3, <1>4, <1>5, Zenon DEF EngineType
<1>7. ProposeInv'
  BY <1>2, <1>3, <1>4, ForgetKeeps, Zenon
<1>8. StallInv'
  BY <1>1, <1>2, Zenon DEF StallInv, Report, OnValidatorSetChange, NotifyBftProgress, watchdog
<1> QED BY <1>1, <1>2, <1>3, <1>6, <1>7, <1>8, SyncKept, Zenon DEF EngineInv
------------------------------------------------------------------------------
\* Nothing is built, and nobody proposes or syncs.
LEMMA EngineStarts == Init => EngineInv
<1> SUFFICES ASSUME Init PROVE EngineInv
  OBVIOUS
<1>1. Idle \in TickRecord /\ Idle.pc = "idle" /\ Idle.block = NoBlock
      /\ NoBlock \in BlockRecord /\ NoBlock.era = 0
  BY DEF Idle, TickRecord, NoBlock, BlockRecord
<1>2. tick \in [Ticks -> TickRecord] /\ \A t \in Ticks : tick[t] = Idle
  BY <1>1, Zenon DEF Init
<1>3. \A t \in Ticks : tick[t].pc = "idle" /\ tick[t].block = NoBlock
  BY <1>1, <1>2, Zenon
<1>4. /\ sync \in [Syncs -> {"idle", "trySync", "forceSnapSync", "adopt", "import"}]
      /\ \A s \in Syncs : sync[s] = "idle"
  BY Zenon DEF Init
<1>5. 0 \in Nat /\ 0 <= 0 /\ "idle" # "build" /\ "idle" # "turn" /\ "idle" # "apply"
      /\ "idle" # "resync"
  OBVIOUS
<1>6. built = {} /\ IsFiniteSet(built)
  BY FS_EmptySet, Zenon DEF Init
<1>7. EngineType
  BY <1>1, <1>2, <1>3, <1>4, <1>5, <1>6, Zenon DEF EngineType, Init
<1>8. resent.block.era = resent.at
  BY <1>1 DEF Init
<1>9. StallInv /\ SyncInv
  BY <1>4, Zenon DEF StallInv, SyncInv, Init
<1>10. EraInv
  BY <1>3, <1>8, Zenon DEF EraInv, Init
<1>11. ProposeInv
  BY <1>3, <1>5, <1>6, Zenon DEF ProposeInv, OneProposalPerHeight, Init
<1> QED BY <1>7, <1>9, <1>10, <1>11, Zenon DEF EngineInv

\* Every step keeps it.
LEMMA EngineSteps == EngineInv /\ [Next]_vars => EngineInv'
<1> SUFFICES ASSUME EngineInv, [Next]_vars PROVE EngineInv'
  OBVIOUS
<1>1. CASE UNCHANGED vars
  <2>1. UNCHANGED <<tick, lastHeight, lastBlock, prepared, height, finalized, finalizing, era, built,
                    resent, races, sync, syncing, watchdog>>
    BY <1>1, Zenon DEF vars, proposing, syncing, chain, round, history
  <2> QED BY <2>1, TypeKept, StallKept, SyncKept, EraKept, ProposeKept, Zenon DEF EngineInv
<1>2. CASE \E t \in Ticks : TryPropose(t) \/ Propose(t)
  BY <1>2, ProposeSteps, Zenon
<1>3. CASE \/ \E s \in Syncs : StartSync(s, "trySync") \/ StartSync(s, "forceSnapSync")
                               \/ Fetched(s) \/ Adopt(s)
           \/ TooLong \/ CheckSyncInFlightWatchdog
  BY <1>3, SyncSteps, Zenon
<1>4. CASE \/ CheckDegradedTimeout \/ CooldownEnds
           \/ NoProgressForLong \/ WatchProgress \/ ActOnStall
  BY <1>4, WatchSteps, Zenon
<1>5. CASE PeerBlock \/ RoundTimeout \/ Finalize \/ Apply \/ Report \/ OnValidatorSetChange
  BY <1>5, RoundSteps, FinalizeStep, ApplyStep, ChangeSteps, Zenon
<1> QED BY <1>1, <1>2, <1>3, <1>4, <1>5, Zenon DEF Next

\* The invariant of the engine.
LEMMA EngineInvHolds == Spec => []EngineInv
BY EngineStarts, EngineSteps, PTL DEF Spec

\* The engine never builds two blocks for one height in one validator set, however the
\* ticks, the syncs, the watchdogs and the coordinator's rounds and finalizations
\* interleave, unless ticks overlap in the tip read, a tick overtakes the rest of
\* onFinalized, or a finalized block cannot be applied.
THEOREM ProposesOncePerHeightThm == Spec => []ProposesOncePerHeight
<1>1. EngineInv => ProposesOncePerHeight
  BY Zenon DEF EngineInv, ProposeInv, ProposesOncePerHeight
<1> QED BY <1>1, EngineInvHolds, PTL

\* A block is only sent again to the validator set it was built for, and the proposer
\* override is only armed while nothing is finalized; each but for the one race it names.
THEOREM StaleStateIsClearedThm == Spec => []StaleStateIsCleared
<1>1. EngineInv => StaleStateIsCleared
  BY Zenon DEF EngineInv, EraInv, StallInv, StaleStateIsCleared, NoStaleRebroadcast, OverrideIsEarned
<1> QED BY <1>1, EngineInvHolds, PTL

\* Of any number of calls of trySync and forceSnapSync at most one adopts a chain, unless an
\* adoption outlasts the watchdog that releases the flag.
THEOREM NoConcurrentAdoptionThm == Spec => []NoConcurrentAdoption
<1>1. EngineInv => NoConcurrentAdoption
  <2> SUFFICES ASSUME EngineInv, "slowSync" \notin races
               PROVE  Cardinality({s \in Syncs : sync[s] \in {"adopt", "import"}}) <= 1
    BY Zenon DEF NoConcurrentAdoption
  <2> DEFINE S == {s \in Syncs : sync[s] \in {"adopt", "import"}}
  <2>1. \A s, u \in S : s = u
    <3>1. \A s \in S : s \in Syncs /\ sync[s] # "idle"
      OBVIOUS
    <3> QED BY <3>1, Zenon DEF EngineInv, SyncInv
  <2>2. CASE S = {}
    <3>1. Cardinality(S) = 0
      BY <2>2, FS_EmptySet, Zenon
    <3> QED BY <3>1
  <2>3. CASE \E s : s \in S
    <3>1. PICK s : s \in S
      BY <2>3
    <3>2. S = {s}
      <4> HIDE DEF S
      <4> QED BY <2>1, <3>1
    <3>3. Cardinality(S) = 1
      BY <3>2, FS_Singleton, Zenon
    <3> QED BY <3>3
  <2> QED BY <2>2, <2>3
<1> QED BY <1>1, EngineInvHolds, PTL
==============================================================================
