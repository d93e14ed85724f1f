--------------------------- MODULE MCBftCoordinator --------------------------
(***************************************************************************)
(* One validator and two peers; two rival blocks at height 1 and, in some  *)
(* configurations, one block at height 2.                                  *)
(***************************************************************************)
EXTENDS BftCoordinator, TLC

CONSTANTS me, p1, p2, a1, b1, a2, s1, s2

MCIds == {me, p1, p2}
MCStake == (me :> 2) @@ (p1 :> 1) @@ (p2 :> 1)
MCSets == {MCStake}
\* Governance may remove p2, which also removes its stake from the threshold.
ChangingSets == {MCStake, (me :> 2) @@ (p1 :> 1)}
MCProposerOf == (a1 :> p1) @@ (b1 :> me) @@ (a2 :> p2)
MCHeightOf == (a1 :> 1) @@ (b1 :> 1) @@ (a2 :> 2)
OneHeight == {a1, b1}
TwoHeights == {a1, b1, a2}
OneSlot == {s1}
TwoSlots == {s1, s2}
Msg(t, p, b) == [type |-> t, sender |-> p, block |-> b, root |-> NoRoot]
\* p1 follows the chain a1, a2.
ChainMessages == {Msg(t, p1, b) : t \in {"prepare", "commit"}, b \in {a1, a2}}
\* The same, with the commit of a2 lost.
OpenMessages == ChainMessages \ {Msg("commit", p1, a2)}
\* p1 votes for a1, p2 is on the side of its rival b1.
FewMessages == {Msg("prepare", p1, a1), Msg("commit", p1, a1), Msg("prepare", p2, b1)}
\* p1 alone, for a1.
SideMessages == {Msg("prepare", p1, a1), Msg("commit", p1, a1)}
NoMessages == {}
Chain == {a1, a2}
ChainHeightOf == (a1 :> 1) @@ (a2 :> 2)
ChainProposerOf == (a1 :> p1) @@ (a2 :> me)
MCSymmetry == Permutations({s1, s2})

HeightOne == [b \in OneHeight |-> 1]
ProposersOne == (a1 :> p1) @@ (b1 :> me)
==============================================================================
