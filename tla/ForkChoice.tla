------------------------------ MODULE ForkChoice -----------------------------
(***************************************************************************)
(* node/src/fork-choice.ts: which of two chains wins, and the loop of      *)
(* selectBestFork over the candidates.  Hashes and peer ids are compared   *)
(* as strings in the code; only their order matters, so they are naturals. *)
(***************************************************************************)
EXTENDS Naturals, Sequences

CONSTANT Candidates   \* candidates that occur, a set of candidate records

Candidate == [height : Nat, bftFinalized : BOOLEAN, cumulativeWeight : Nat,
              tipHash : Nat, peerId : Nat]

ASSUME CandidatesAssumption == Candidates \subseteq Candidate

\* The five rules of compareForks: a wins over b by this rule.
ByFinality(a, b) == a.bftFinalized /\ ~b.bftFinalized /\ a.height >= b.height
ByHeight(a, b) == a.height > b.height
ByWeight(a, b) == a.cumulativeWeight > b.cumulativeWeight

\* A plausible slip: no order on peer ids, the first argument stays.
ByNoPeerId(a, b) == FALSE

ByHash(a, b) == a.tipHash < b.tipHash
ByPeerId(a, b) == a.peerId < b.peerId

Choice(winner, loser, reason) == [winner |-> winner, loser |-> loser, reason |-> reason]

CompareForks(a, b) ==
  IF ByFinality(a, b) THEN Choice(a, b, "bft-finality")
  ELSE IF ByFinality(b, a) THEN Choice(b, a, "bft-finality")
  ELSE IF ByHeight(a, b) THEN Choice(a, b, "longer-chain")
  ELSE IF ByHeight(b, a) THEN Choice(b, a, "longer-chain")
  ELSE IF ByWeight(a, b) THEN Choice(a, b, "higher-weight")
  ELSE IF ByWeight(b, a) THEN Choice(b, a, "higher-weight")
  ELSE IF ByHash(a, b) THEN Choice(a, b, "lower-hash")
  ELSE IF ByHash(b, a) THEN Choice(b, a, "lower-hash")
  ELSE IF ByPeerId(a, b) THEN Choice(a, b, "lower-peer-id")
  ELSE IF ByPeerId(b, a) THEN Choice(b, a, "lower-peer-id")
  ELSE Choice(a, b, "equal")

Winner(a, b) == CompareForks(a, b).winner

\* A plausible slip: the arguments swapped, so that a tie goes to the remote chain.
SwitchOnTie(local, remote) == CompareForks(remote, local).winner = remote

\* shouldSwitchFork
ShouldSwitchFork(local, remote) ==
  /\ CompareForks(local, remote).winner = remote
  /\ CompareForks(local, remote).reason # "equal"
------------------------------------------------------------------------------
CONSTANT MaxCandidates   \* bound on the length of the candidate array

VARIABLES candidates, \* the array
          i,          \* index of the next candidate to look at
          best

forkVars == <<candidates, i, best>>

ForkInit ==
  /\ candidates \in UNION {[1 .. n -> Candidates] : n \in 1 .. MaxCandidates}
  /\ i = 2
  /\ best = candidates[1]

\* One pass of the loop of selectBestFork.
Step ==
  /\ i <= Len(candidates)
  /\ best' = Winner(best, candidates[i])
  /\ i' = i + 1
  /\ UNCHANGED candidates

ForkSpec == ForkInit /\ [][Step]_forkVars
------------------------------------------------------------------------------
\* selectBestFork returns the winner over every candidate, so it "produces the same
\* result regardless of candidate array order" (rule 5 of compareForks).
BestBeatsAll ==
  i = Len(candidates) + 1 =>
    \A k \in DOMAIN candidates :
      /\ Winner(best, candidates[k]) = best
      /\ Winner(candidates[k], best) = best

\* A node that switched to a remote chain never finds it should switch back, also
\* not by way of a third chain: shouldSwitchFork has no cycles of length two or three.
NoPingPong ==
  \A j, k \in DOMAIN candidates :
    /\ ~(ShouldSwitchFork(candidates[j], candidates[k])
           /\ ShouldSwitchFork(candidates[k], candidates[j]))
    /\ \A m \in DOMAIN candidates :
         ShouldSwitchFork(candidates[j], candidates[k])
           /\ ShouldSwitchFork(candidates[k], candidates[m])
         => ShouldSwitchFork(candidates[j], candidates[m])

==============================================================================
