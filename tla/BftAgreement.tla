----------------------------- MODULE BftAgreement ----------------------------
(***************************************************************************)
(* What the BFT layer of node/src/bft.ts and node/src/bft-coordinator.ts   *)
(* promises, seen from the network: which votes exist and which blocks a   *)
(* validator has finalized.  Votes are never withdrawn; a validator may    *)
(* act on any subset of them at any time, so loss, delay, duplication and  *)
(* reordering of messages, and crashes of a validator whose vote ledger    *)
(* survives, are all behaviours of this specification.                     *)
(*                                                                         *)
(* Module BftCoordinator gives one validator in full; it implements this   *)
(* specification with itself as the only correct validator.                *)
(***************************************************************************)
EXTENDS BftQuorum

CONSTANTS
  Stake,      \* the validator set: [validator -> stake]
  Faulty,     \* validators that may vote for anything
  Blocks,     \* candidate blocks
  HeightOf    \* [Blocks -> height]

Validators == DOMAIN Stake
Correct == Validators \ Faulty

ASSUME ValidatorsAssumption ==
  /\ ValidatorSet(Stake)
  /\ Faulty \subseteq Validators
  /\ HeightOf \in [Blocks -> Nat]

\* Less than one third of the stake is faulty (bft.ts: "Byzantine-safe").
FaultBound == 3 * AccumulatedStake(Faulty, Stake) < TotalStake(Stake)

VARIABLES
  prepares,   \* <<v, b>>: v has signed a prepare vote for b
  commits,    \* <<v, b>>: v has signed a commit vote for b
  finalized   \* <<v, b>>: v has finalized b

vars == <<prepares, commits, finalized>>

Conflict(a, b) == a # b /\ HeightOf[a] = HeightOf[b]
Voters(votes, b) == {v \in Validators : <<v, b>> \in votes}
Quorum(votes, b) == HasQuorum(Voters(votes, b), Stake, FALSE)

Init ==
  /\ prepares = {}
  /\ commits = {}
  /\ finalized = {}

\* A plausible slip: no Phase R guard.
PrepareUnguarded(v, b) ==
  /\ prepares' = prepares \cup {<<v, b>>}
  /\ UNCHANGED <<commits, finalized>>

\* handlePropose behind the Phase R guard of startRound.
Prepare(v, b) ==
  /\ \A a \in Blocks : Conflict(a, b) => <<v, a>> \notin prepares
  /\ prepares' = prepares \cup {<<v, b>>}
  /\ UNCHANGED <<commits, finalized>>

\* A plausible slip: commit without waiting for the prepare quorum.
CommitEarly(v, b) ==
  /\ <<v, b>> \in prepares
  /\ commits' = commits \cup {<<v, b>>}
  /\ UNCHANGED <<prepares, finalized>>

\* handlePrepare reaching prepare quorum on the block this validator prepared.
Commit(v, b) ==
  /\ <<v, b>> \in prepares
  /\ Quorum(prepares, b)
  /\ commits' = commits \cup {<<v, b>>}
  /\ UNCHANGED <<prepares, finalized>>

\* handleCommit reaching commit quorum, or handlePrepare finding that the
\* commits recorded early already are one: the own commit vote is cast in the
\* same step.
Finalize(v, b) ==
  /\ <<v, b>> \in prepares
  /\ Quorum(prepares, b)
  /\ commits' = commits \cup {<<v, b>>}
  /\ Quorum(commits', b)
  /\ finalized' = finalized \cup {<<v, b>>}
  /\ UNCHANGED prepares

\* A faulty validator votes as it likes.
FaultyVote(v, b) ==
  /\ \/ prepares' = prepares \cup {<<v, b>>} /\ UNCHANGED commits
     \/ commits' = commits \cup {<<v, b>>} /\ UNCHANGED prepares
  /\ UNCHANGED finalized

Next ==
  \E b \in Blocks :
    \/ \E v \in Correct : Prepare(v, b) \/ Commit(v, b) \/ Finalize(v, b)
    \/ \E v \in Faulty : FaultyVote(v, b)

Spec == Init /\ [][Next]_vars
------------------------------------------------------------------------------
TypeOK ==
  /\ prepares \subseteq Validators \X Blocks
  /\ commits \subseteq Validators \X Blocks
  /\ finalized \subseteq Correct \X Blocks

\* No correct validator signs two conflicting prepares: the no-double-vote
\* invariant the coordinator calls Phase R.
OnePreparePerHeight ==
  \A v \in Correct : \A a, b \in Blocks :
    <<v, a>> \in prepares /\ <<v, b>> \in prepares => ~Conflict(a, b)

\* A correct validator's commit is backed by a prepare quorum.
CommitsAreBacked ==
  \A v \in Correct : \A b \in Blocks : <<v, b>> \in commits => Quorum(prepares, b)

\* A finalized block has a commit quorum.
FinalizedAreCommitted ==
  \A v \in Correct : \A b \in Blocks : <<v, b>> \in finalized => Quorum(commits, b)

\* Agreement: with less than a third of the stake faulty, no two correct
\* validators ever call onFinalized for different blocks of one height.
Agreement ==
  FaultBound =>
    \A v, w \in Correct : \A a, b \in Blocks :
      <<v, a>> \in finalized /\ <<w, b>> \in finalized => ~Conflict(a, b)

\* A correct validator never commits two different blocks of a height either,
\* although only the prepare guard protects it here (lock-in through the
\* prepare quorum).
OneCommitPerHeight ==
  FaultBound =>
    \A v, w \in Correct : \A a, b \in Blocks :
      <<v, a>> \in commits /\ <<w, b>> \in commits => ~Conflict(a, b)
==============================================================================
