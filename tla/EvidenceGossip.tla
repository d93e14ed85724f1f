---------------------------- MODULE EvidenceGossip ---------------------------
(***************************************************************************)
(* Evidence between nodes: each has a detector (EquivocationDetector) and  *)
(* a BftSlashingHandler (node/src/bft-slashing.ts); index.ts connects them *)
(* (handleEquivocationEvidence, onBftEvidence) and gossips every piece of  *)
(* evidence that is new to a node to its peers.  Messages are delayed and  *)
(* reordered, and none is lost; the accused signs for any block.           *)
(***************************************************************************)
EXTENDS EquivocationDetector

CONSTANTS Nodes, Peers,   \* Peers \in [Nodes -> SUBSET Nodes]
          Ballots,        \* the votes that get signed
          LastHeight      \* bound

VARIABLES
  detector,  \* [Nodes -> detector]
  consumed,  \* [Nodes -> keys already slashed]
  slashes,   \* [Nodes -> Seq of evidence slashed]: slashHistory
  final,     \* [Nodes -> last finalized height]
  inflight   \* evidence on its way: [to, e]

vars == <<detector, consumed, slashes, final, inflight>>

Init ==
  /\ detector = [n \in Nodes |-> EmptyDetector]
  /\ consumed = [n \in Nodes |-> {}]
  /\ slashes = [n \in Nodes |-> <<>>]
  /\ final = [n \in Nodes |-> 0]
  /\ inflight = {}

\* evidenceKey: the two hashes are sorted.
EvidenceKey(e) == <<e.v, e.h, e.p, {e.b1, e.b2}>>

\* handleEquivocation of the slashing handler, for a validator that is active.
Slash(n, e) ==
  IF EvidenceKey(e) \in consumed[n] THEN UNCHANGED <<consumed, slashes>>
  ELSE /\ consumed' = [consumed EXCEPT ![n] = @ \cup {EvidenceKey(e)}]
       /\ slashes' = [slashes EXCEPT ![n] = Append(@, e)]

\* A plausible slip: what a node did not witness itself it does not pass on.
SlashOnly(n, e, others) == Slash(n, e) /\ inflight' = others

\* handleEquivocationEvidence: slash, then gossip; others is what else is on its way.
HandleEvidence(n, e, others) ==
  /\ Slash(n, e)
  /\ inflight' = others \cup {[to |-> m, e |-> e] : m \in Peers[n]}

\* handleMessage: only the active height, which is above the finalized one.
ReceiveVote(n, m) ==
  /\ m.h > final[n]
  /\ IF Conflicting(detector[n], m) = {}
     THEN /\ detector' = [detector EXCEPT ![n] = Remember(@, m)]
          /\ UNCHANGED <<consumed, slashes, inflight>>
     ELSE \E f \in Conflicting(detector[n], m) :
            /\ detector' = [detector EXCEPT ![n] = Push(@, Accuse(f, m), m.v)]
            /\ HandleEvidence(n, Accuse(f, m), inflight)
  /\ UNCHANGED final

\* onBftEvidence: imported evidence takes the same path as evidence found here.
ReceiveEvidence(g) ==
  LET n == g.to IN
  /\ IF Known(detector[n], g.e)
     THEN /\ inflight' = inflight \ {g}
          /\ UNCHANGED <<detector, consumed, slashes>>
     ELSE /\ detector' = [detector EXCEPT ![n] = Push(@, g.e, g.e.v)]
          /\ HandleEvidence(n, g.e, inflight \ {g})
  /\ UNCHANGED final

\* The height is finalized: clearEvidenceBefore(height + 1).
Finalize(n) ==
  /\ final[n] < LastHeight
  /\ final' = [final EXCEPT ![n] = @ + 1]
  /\ detector' = [detector EXCEPT ![n] = ClearEvidenceBefore(@, final'[n] + 1)]
  /\ UNCHANGED <<consumed, slashes, inflight>>

Next ==
  \/ \E n \in Nodes : Finalize(n) \/ \E m \in Ballots : ReceiveVote(n, m)
  \/ \E g \in inflight : ReceiveEvidence(g)

Spec == Init /\ [][Next]_vars
------------------------------------------------------------------------------
\* "A single equivocation must be slashed exactly once", however often, in
\* whichever order of the two hashes and whenever its evidence comes again, also
\* after finalization made the detector forget it.
OneSlashPerOffence ==
  \A n \in Nodes : \A i, j \in DOMAIN slashes[n] :
    SameOffence(slashes[n][i], slashes[n][j]) => i = j

\* "Every node converges on the same equivocation history (required for consistent
\* slashing)": once no evidence is on its way, every node has slashed the same
\* offences the same number of times.
Offences(n) == {SubSeq(EvidenceKey(slashes[n][i]), 1, 3) : i \in DOMAIN slashes[n]}
SlashesConverge ==
  inflight = {} =>
    \A m, n \in Nodes : Offences(m) = Offences(n) /\ Len(slashes[m]) = Len(slashes[n])
==============================================================================
