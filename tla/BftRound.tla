------------------------------- MODULE BftRound ------------------------------
(***************************************************************************)
(* class BftRound of node/src/bft.ts: one consensus round of one node.     *)
(*                                                                         *)
(* A round is a record.  Votes are only ever stored for the proposed block *)
(* (both handlers reject any other hash), so a vote map gives, for every   *)
(* node, the state root it voted with: NoRoot for a vote without one,      *)
(* NoVote for no vote at all.                                              *)
(***************************************************************************)
EXTENDS BftQuorum

CONSTANTS
  Ids,        \* node ids that may send messages
  LocalId,    \* this node
  Blocks,     \* candidate blocks
  ProposerOf, \* [Blocks -> Ids]
  Roots,      \* state roots a vote may carry
  NoRoot,     \* a vote without a state root
  NoVote,     \* no vote
  Relaxed     \* relaxedQuorum

ASSUME RoundAssumption ==
  /\ LocalId \in Ids
  /\ ProposerOf \in [Blocks -> Ids]
  /\ NoRoot \notin Roots
  /\ NoVote \notin Roots \cup {NoRoot}
  /\ Relaxed \in BOOLEAN

Vote == Roots \cup {NoRoot}
VoteMap == [Ids -> Vote \cup {NoVote}]
Phases == {"propose", "prepare", "commit", "finalized", "failed"}

NewRound(b, validators) ==
  [block |-> b, phase |-> "propose", validators |-> validators,
   prepareVotes |-> [id \in Ids |-> NoVote], commitVotes |-> [id \in Ids |-> NoVote]]

IsKnownValidator(r, id) == id \in DOMAIN r.validators
IsValidator(r) == IsKnownValidator(r, LocalId)

\* A plausible slip: group by block hash alone.
PickByHash(votes) ==
  IF votes[LocalId] = NoVote THEN {} ELSE {id \in Ids : votes[id] # NoVote}

\* The voters that share the local node's (blockHash, stateRoot) pair.  A vote
\* without a root matches any; without a local vote there is no group.
PickWinningVoteGroup(votes) ==
  LET anchor == votes[LocalId] IN
  IF anchor = NoVote THEN {}
  ELSE {id \in Ids : /\ votes[id] # NoVote
                     /\ anchor = NoRoot \/ votes[id] \in {anchor, NoRoot}}

GroupHasQuorum(r, votes) == HasQuorum(PickWinningVoteGroup(votes), r.validators, Relaxed)

\* handlePropose, called by startRound with senderId = block.proposer.
HandlePropose(r, root) ==
  IF r.phase # "propose" \/ ~IsKnownValidator(r, ProposerOf[r.block]) THEN r
  ELSE IF ~IsValidator(r) THEN [r EXCEPT !.phase = "prepare"]
  ELSE [r EXCEPT !.phase = "prepare", !.prepareVotes[LocalId] = root]

\* A plausible slip: the early commits are not looked at.
EnterCommitOnly(r) ==
  [r EXCEPT !.phase = "commit", !.commitVotes[LocalId] = r.prepareVotes[LocalId]]

\* What handlePrepare does once the anchored group has a prepare quorum: vote
\* commit, and finalize at once when the commits that came early are a quorum.
EnterCommit(r) ==
  LET c == [r EXCEPT !.phase = "commit", !.commitVotes[LocalId] = r.prepareVotes[LocalId]] IN
  IF ~IsValidator(r) THEN [r EXCEPT !.phase = "commit"]
  ELSE IF GroupHasQuorum(c, c.commitVotes) THEN [c EXCEPT !.phase = "finalized"]
  ELSE c

AcceptsPrepare(r, sender, b) ==
  /\ r.phase = "prepare"
  /\ IsKnownValidator(r, sender)
  /\ b = r.block
  /\ r.prepareVotes[sender] = NoVote

HandlePrepare(r, sender, b, root) ==
  LET voted == [r EXCEPT !.prepareVotes[sender] = root] IN
  IF ~AcceptsPrepare(r, sender, b) THEN r
  ELSE IF GroupHasQuorum(voted, voted.prepareVotes) THEN EnterCommit(voted)
  ELSE voted

AcceptsCommit(r, sender, b) ==
  /\ r.phase \in {"prepare", "commit"}
  /\ IsKnownValidator(r, sender)
  /\ b = r.block
  /\ r.commitVotes[sender] = NoVote

HandleCommit(r, sender, b, root) ==
  LET voted == [r EXCEPT !.commitVotes[sender] = root] IN
  IF ~AcceptsCommit(r, sender, b) THEN r
  ELSE IF r.phase = "commit" /\ GroupHasQuorum(voted, voted.commitVotes)
       THEN [voted EXCEPT !.phase = "finalized"]
  ELSE voted

Fail(r) == [r EXCEPT !.phase = "failed"]
==============================================================================
