----------------------------- MODULE BftRoundSpec ----------------------------
(***************************************************************************)
(* A round of module BftRound driven by whatever messages arrive: votes    *)
(* for any block, with any root, from any sender, in any order.            *)
(***************************************************************************)
EXTENDS BftRound

CONSTANT Stake   \* the round's validator snapshot

\* The snapshot is a validator set of known nodes.
StakeAssumption == ValidatorSet(Stake) /\ DOMAIN Stake \subseteq Ids

\* The local vote alone is no quorum: handlePropose never looks for one.
LocalIsNoQuorum == ~HasQuorum({LocalId}, Stake, Relaxed)
\* Nobody's votes are no quorum (fails for relaxedQuorum with a total stake of 1).
NobodyIsNoQuorum == ~HasQuorum({}, Stake, Relaxed)
ThresholdAssumption == LocalIsNoQuorum /\ NobodyIsNoQuorum

VARIABLE round

Init == \E b \in Blocks : round = NewRound(b, Stake)

Propose == \E root \in Vote : round' = HandlePropose(round, root)

\* A vote from anyone; the local node's own votes may be echoed back to it.
Prepare(sender, b, root) == round' = HandlePrepare(round, sender, b, root)
Commit(sender, b, root) == round' = HandleCommit(round, sender, b, root)

TimeOut ==
  /\ round.phase \notin {"finalized", "failed"}
  /\ round' = Fail(round)

Next ==
  \/ Propose
  \/ \E sender \in Ids, b \in Blocks, root \in Vote :
       Prepare(sender, b, root) \/ Commit(sender, b, root)
  \/ TimeOut

Spec == Init /\ [][Next]_round
------------------------------------------------------------------------------
\* A round that finalizes has a prepare quorum and a commit quorum on the local
\* node's own (blockHash, stateRoot) pair: handlePrepare and handleCommit never
\* finalize a state the node cannot reproduce, whatever came early or late.
FinalizedIsReproducible ==
  round.phase = "finalized" =>
    \A votes \in {round.prepareVotes, round.commitVotes} :
      LET same == {id \in Ids : votes[id] \in {NoRoot, round.prepareVotes[LocalId]}}
          any == {id \in Ids : votes[id] # NoVote}
      IN  /\ round.prepareVotes[LocalId] # NoVote
          /\ round.commitVotes[LocalId] = round.prepareVotes[LocalId]
          /\ HasQuorum(IF round.prepareVotes[LocalId] = NoRoot THEN any ELSE same,
                       Stake, Relaxed)

\* No vote is overlooked: a round that waits, in prepare or in commit, really
\* lacks that phase's quorum.  Commits that handleCommit stored before the
\* prepare quorum must therefore be counted when handlePrepare reaches it.
NoMissedQuorum ==
  /\ round.phase = "prepare" => ~GroupHasQuorum(round, round.prepareVotes)
  /\ round.phase = "commit" => ~GroupHasQuorum(round, round.commitVotes)
==============================================================================
