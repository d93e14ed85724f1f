------------------------- MODULE EquivocationDetector ------------------------
(***************************************************************************)
(* class EquivocationDetector of node/src/bft.ts: the first vote of every  *)
(* validator per height and phase, the evidence of double votes, and the   *)
(* counters that keep one validator's evidence from flushing another's.    *)
(*                                                                         *)
(* A detector is a record: votes, a set of first votes [v, h, p, b];       *)
(* evidence, a sequence of [v, h, p, b1, b2], oldest first; and count, the *)
(* evidence counter of every validator (0 for an absent key).              *)
(***************************************************************************)
EXTENDS Integers, Sequences, SequencesExt, FiniteSets

CONSTANTS
  Validators,
  VotePhases,      \* {"prepare", "commit"}
  Heights,         \* heights that occur, a set of naturals
  Blocks,
  MaxTracked,      \* maxTrackedHeights (100)
  MaxEvidence,     \* maxEvidence (1000)
  MaxPerValidator  \* maxEvidencePerValidator (100)

DetectorAssumption ==
  /\ Heights \subseteq Nat
  /\ {MaxTracked, MaxEvidence, MaxPerValidator} \subseteq Nat \ {0}

Vote == [v : Validators, h : Heights, p : VotePhases, b : Blocks]
EvidenceRecord == [v : Validators, h : Heights, p : VotePhases, b1 : Blocks, b2 : Blocks]

EmptyDetector == [votes |-> {}, evidence |-> <<>>, count |-> [v \in Validators |-> 0]]

SameOffence(x, y) == x.v = y.v /\ x.h = y.h /\ x.p = y.p
Smaller(m, n) == IF m < n THEN m ELSE n

\* The stored vote that conflicts with m, if any, as a set.
Conflicting(d, m) == {f \in d.votes : SameOffence(f, m) /\ f.b # m.b}

\* splice(findIndex(e => e.validatorId === v), 1)
DropOldestOf(evidence, v) == RemoveFirstMatch(evidence, LAMBDA e : e.v = v)

\* The validators the global cap may evict from when evidence about v comes in:
\* v itself unless others have more; among several others the first in the map.
EvictionVictims(d, v) ==
  LET most == {w \in Validators : \A u \in Validators : d.count[u] <= d.count[w]} IN
  IF v \in most THEN {v} ELSE most

\* A plausible slip: the global cap drops the oldest evidence of anyone.
PushEvictingOldest(d, e, victim) ==
  LET mine == IF d.count[e.v] >= MaxPerValidator THEN DropOldestOf(d.evidence, e.v)
              ELSE d.evidence
      full == Len(mine) >= MaxEvidence
      w == Head(mine).v
      less == IF full THEN [d.count EXCEPT ![w] = @ - 1] ELSE d.count
  IN  [d EXCEPT !.evidence = Append(IF full THEN Tail(mine) ELSE mine, e),
                !.count = [less EXCEPT ![e.v] = Smaller(MaxPerValidator, @ + 1)]]

\* Both caps and the push, as in recordVote and importEvidence.
Push(d, e, victim) ==
  LET mine == IF d.count[e.v] >= MaxPerValidator THEN DropOldestOf(d.evidence, e.v)
              ELSE d.evidence
      full == Len(mine) >= MaxEvidence
      less == IF full THEN [d.count EXCEPT ![victim] = @ - 1] ELSE d.count
  IN  [d EXCEPT !.evidence = Append(IF full THEN DropOldestOf(mine, victim) ELSE mine, e),
                !.count = [less EXCEPT ![e.v] = Smaller(MaxPerValidator, @ + 1)]]

TrackedHeights(votes) == {f.h : f \in votes}

\* pruneOldHeights: keep the MaxTracked highest heights.
PruneOldHeights(votes) ==
  {f \in votes : Cardinality({h \in TrackedHeights(votes) : h > f.h}) < MaxTracked}

Accuse(f, m) == [v |-> m.v, h |-> m.h, p |-> m.p, b1 |-> f.b, b2 |-> m.b]

\* recordVote when there is no conflict.
Remember(d, m) ==
  [d EXCEPT !.votes = PruneOldHeights({f \in @ : ~SameOffence(f, m)} \cup {m})]

\* importEvidence: the duplicate check.
Known(d, e) == \E i \in DOMAIN d.evidence : SameOffence(d.evidence[i], e)

\* A plausible slip: the evidence goes, the counters stay.
ClearKeepingCounters(d, h) ==
  [d EXCEPT !.evidence = SelectSeq(@, LAMBDA e : e.h >= h)]

\* clearEvidenceBefore
ClearEvidenceBefore(d, h) ==
  LET gone(v) == Cardinality({i \in DOMAIN d.evidence :
                                d.evidence[i].v = v /\ d.evidence[i].h < h})
  IN  [d EXCEPT !.evidence = SelectSeq(@, LAMBDA e : e.h >= h),
                !.count = [v \in Validators |-> IF @[v] > gone(v) THEN @[v] - gone(v) ELSE 0]]

\* pruneByMaxHeight
PruneByMaxHeight(d, keep) ==
  LET heights == {d.evidence[i].h : i \in DOMAIN d.evidence}
      above(h) == Cardinality({g \in heights : g > h})
  IN  IF keep = 0 THEN [d EXCEPT !.evidence = <<>>, !.count = [v \in Validators |-> 0]]
      ELSE IF Cardinality(heights) <= keep THEN d
      ELSE ClearEvidenceBefore(d, CHOOSE h \in heights : above(h) = keep - 1)
==============================================================================
