--------------------------- MODULE EquivocationSpec --------------------------
(***************************************************************************)
(* A detector of module EquivocationDetector at work: votes come in from   *)
(* handleMessage, evidence from gossip, finalization and the operator      *)
(* prune.  Validators sign what they like; signed collects what they sign. *)
(***************************************************************************)
EXTENDS EquivocationDetector

CONSTANTS Signable,   \* votes that get signed
          Claims,     \* evidence peers send, true or not
          MaxSteps    \* bounds the evidence ever recorded

VARIABLES detector,
          accepted,   \* history: votes recordVote let through
          pushes      \* bounds the run

vars == <<detector, accepted, pushes>>

Init == detector = EmptyDetector /\ accepted = {} /\ pushes = 0

RecordVote(m) ==
  IF Conflicting(detector, m) = {}
  THEN /\ detector' = Remember(detector, m)
       /\ accepted' = accepted \cup {m}
       /\ UNCHANGED pushes
  ELSE /\ pushes < MaxSteps
       /\ \E f \in Conflicting(detector, m), w \in EvictionVictims(detector, m.v) :
            detector' = Push(detector, Accuse(f, m), w)
       /\ pushes' = pushes + 1
       /\ UNCHANGED accepted

\* Both signatures recover to the accused validator.
Verified(e) ==
  /\ e.b1 # e.b2
  /\ \A b \in {e.b1, e.b2} : [v |-> e.v, h |-> e.h, p |-> e.p, b |-> b] \in Signable

ImportEvidence(e) ==
  /\ Verified(e)
  /\ ~Known(detector, e)
  /\ pushes < MaxSteps
  /\ \E w \in EvictionVictims(detector, e.v) : detector' = Push(detector, e, w)
  /\ pushes' = pushes + 1
  /\ UNCHANGED accepted

Clear(h) ==
  /\ detector' = ClearEvidenceBefore(detector, h)
  /\ UNCHANGED <<accepted, pushes>>

PruneByHeights(keep) ==
  /\ detector' = PruneByMaxHeight(detector, keep)
  /\ UNCHANGED <<accepted, pushes>>

Next ==
  \/ \E m \in Signable : RecordVote(m)
  \/ \E e \in Claims : ImportEvidence(e)
  \/ \E h \in Heights : Clear(h)
  \/ \E keep \in 0 .. 1 : PruneByHeights(keep)

Spec == Init /\ [][Next]_vars
------------------------------------------------------------------------------
EntriesOf(evidence, v) == {i \in DOMAIN evidence : evidence[i].v = v}

TypeOK ==
  /\ detector.votes \subseteq Vote
  /\ detector.evidence \in Seq(EvidenceRecord)
  /\ detector.count \in [Validators -> Nat]
  /\ accepted \subseteq Vote

\* Nobody is accused who did not sign two conflicting votes, whether the evidence
\* was found by recordVote or came in by gossip.
EvidenceIsTrue ==
  \A i \in DOMAIN detector.evidence :
    LET e == detector.evidence[i] IN
    /\ e.b1 # e.b2
    /\ \A b \in {e.b1, e.b2} : [v |-> e.v, h |-> e.h, p |-> e.p, b |-> b] \in Signable

\* Two conflicting votes both get through recordVote only for a height that has
\* been pushed out by MaxTracked higher ones.
DoubleVotesAreCaught ==
  \A x, y \in accepted :
    SameOffence(x, y) /\ x.b # y.b =>
      Cardinality({a.h : a \in {c \in accepted : c.h > x.h}}) >= MaxTracked

\* After any sequence of recordings, imports, evictions and prunes the evidence is
\* true, no double vote slips through while its height is tracked, and the counters
\* of evidenceCountByValidator are exact and within both caps, so the "counter
\* desync" repair of recordVote has nothing to repair.
EvidenceIsExact ==
  /\ TypeOK /\ EvidenceIsTrue /\ DoubleVotesAreCaught
  /\ \A v \in Validators :
       /\ detector.count[v] = Cardinality(EntriesOf(detector.evidence, v))
       /\ detector.count[v] <= MaxPerValidator
  /\ Len(detector.evidence) <= MaxEvidence

\* "Per-validator evidence count to prevent one validator from flushing another's
\* evidence": evidence about v is given up for evidence about somebody else only
\* while v has more of it than they do.
Newest(d) == d.evidence[Len(d.evidence)].v
FlushesNobody ==
  pushes' > pushes =>
    \A v \in Validators \ {Newest(detector')} :
      detector'.count[v] < detector.count[v] =>
        detector.count[v] > detector.count[Newest(detector')]
NoFlushing == [][FlushesNobody]_vars
==============================================================================
