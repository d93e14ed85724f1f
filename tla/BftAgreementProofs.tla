-------------------------- MODULE BftAgreementProofs -------------------------
(***************************************************************************)
(* Proofs about BftAgreement, for every validator set, every distribution  *)
(* of stake and every set of candidate blocks.                             *)
(***************************************************************************)
EXTENDS BftAgreement, TotalsProofs

\* Two strict quorums share a validator outside any group that holds less than
\* a third of the stake: why quorumThreshold is floor(2/3 total) + 1.
LEMMA QuorumsOverlap ==
  ASSUME NEW Q, NEW R, NEW F, NEW stake, ValidatorSet(stake),
         3 * AccumulatedStake(F, stake) < TotalStake(stake),
         HasQuorum(Q, stake, FALSE), HasQuorum(R, stake, FALSE)
  PROVE  \E v \in DOMAIN stake : v \in Q /\ v \in R /\ v \notin F
<1> DEFINE A(S) == AccumulatedStake(S, stake)
           total == TotalStake(stake)
<1>1. /\ A(Q) \in Nat /\ A(R) \in Nat /\ A(F) \in Nat /\ total \in Nat
      /\ A(Q \cup R) \in Nat /\ A(Q \cap R) \in Nat
  BY PartIsTable, Zenon DEF ValidatorSet, AccumulatedStake, TotalStake
<1>2. total # 0
  BY <1>1
<1>3. /\ A(Q) >= (2 * total) \div 3 + 1
      /\ A(R) >= (2 * total) \div 3 + 1
  BY <1>2 DEF HasQuorum, QuorumThreshold
<1>4. A(Q \cup R) <= total
  BY PartGrows DEF ValidatorSet, AccumulatedStake, TotalStake
<1>5. A(Q \cup R) = A(Q) + A(R) - A(Q \cap R)
  BY PartsOverlap DEF ValidatorSet, AccumulatedStake
<1> HIDE DEF A, total
<1>6. A(Q \cap R) > A(F)
  <2>1. 3 * ((2 * total) \div 3) >= 2 * total - 2
    BY <1>1
  <2>2. 3 * A(F) < total
    BY DEF A, total
  <2> QED BY <1>1, <1>3, <1>4, <1>5, <2>1, <2>2
<1>7. CASE \A v \in DOMAIN stake : v \in Q /\ v \in R => v \in F
  <2>1. (Q \cap R) \cap DOMAIN stake \subseteq F
    BY <1>7
  <2>2. A(Q \cap R) <= A(F)
    BY <2>1, PartGrows DEF A, ValidatorSet, AccumulatedStake
  <2> QED BY <1>1, <1>6, <2>2
<1> QED BY <1>7

\* A quorum always has a member outside such a group.
LEMMA QuorumHasCorrect ==
  ASSUME NEW Q, NEW F, NEW stake, ValidatorSet(stake),
         3 * AccumulatedStake(F, stake) < TotalStake(stake),
         HasQuorum(Q, stake, FALSE)
  PROVE  \E v \in DOMAIN stake : v \in Q /\ v \notin F
BY QuorumsOverlap, Zenon

\* Whatever holds a quorum holds it with more voters.
LEMMA QuorumGrows ==
  ASSUME NEW S, NEW T, NEW stake, ValidatorSet(stake), NEW relaxed \in BOOLEAN,
         S \cap DOMAIN stake \subseteq T, HasQuorum(S, stake, relaxed)
  PROVE  HasQuorum(T, stake, relaxed)
<1> DEFINE s == AccumulatedStake(S, stake)
           t == AccumulatedStake(T, stake)
           q == QuorumThreshold(stake, relaxed)
<1>1. s \in Nat /\ t \in Nat /\ TotalStake(stake) \in Nat
  BY PartIsTable, Zenon DEF ValidatorSet, AccumulatedStake, TotalStake
<1>2. s <= t
  BY PartGrows DEF ValidatorSet, AccumulatedStake
<1>3. q \in Int
  BY <1>1, SafeIntegerAssumption DEF QuorumThreshold
<1>4. s >= q
  BY DEF HasQuorum
<1> HIDE DEF s, t, q
<1>5. t >= q
  BY <1>1, <1>2, <1>3, <1>4
<1> QED BY <1>5 DEF t, q, HasQuorum

\* Votes only accumulate, so a quorum on the network never disappears.
LEMMA QuorumMonotone ==
  ASSUME NEW V, NEW W, NEW b, V \subseteq W, Quorum(V, b)
  PROVE  Quorum(W, b)
<1>1. Voters(V, b) \cap DOMAIN Stake \subseteq Voters(W, b)
  BY DEF Voters
<1> QED BY <1>1, QuorumGrows, ValidatorsAssumption, Zenon DEF Quorum
------------------------------------------------------------------------------
\* The inductive invariant: the type, the no-double-vote rule, and the two
\* facts that every commit and every finalization is backed by a quorum that
\* is still visible.
IInv ==
  /\ TypeOK
  /\ OnePreparePerHeight
  /\ CommitsAreBacked
  /\ FinalizedAreCommitted

\* Nobody has voted: the invariant holds.
LEMMA InitIInv == Init => IInv
BY DEF Init, IInv, TypeOK, OnePreparePerHeight, CommitsAreBacked, FinalizedAreCommitted

\* A correct prepare is the only one of its validator at the height.
LEMMA PrepareKeepsIInv ==
  ASSUME IInv, NEW b \in Blocks, NEW v \in Correct, Prepare(v, b)
  PROVE  IInv'
<1>1. TypeOK'
  BY DEF IInv, TypeOK, Prepare, Correct
<1>2. OnePreparePerHeight'
  BY DEF IInv, OnePreparePerHeight, Prepare, Conflict
<1>3. CommitsAreBacked'
  <2>1. \A a \in Blocks : Quorum(prepares, a) => Quorum(prepares', a)
    BY QuorumMonotone DEF Prepare
  <2> QED BY <2>1 DEF IInv, CommitsAreBacked, Prepare
<1>4. FinalizedAreCommitted'
  BY Zenon DEF IInv, FinalizedAreCommitted, Prepare, Quorum, Voters
<1> QED BY <1>1, <1>2, <1>3, <1>4 DEF IInv

\* A correct commit stands on the quorum of prepares that its guard asks for.
LEMMA CommitKeepsIInv ==
  ASSUME IInv, NEW b \in Blocks, NEW v \in Correct, Commit(v, b)
  PROVE  IInv'
<1>1. TypeOK'
  BY DEF IInv, TypeOK, Commit, Correct
<1>2. OnePreparePerHeight'
  BY DEF IInv, OnePreparePerHeight, Commit, Conflict
<1>3. CommitsAreBacked'
  BY Zenon DEF IInv, CommitsAreBacked, Commit, Quorum, Voters
<1>4. FinalizedAreCommitted'
  <2>1. \A a \in Blocks : Quorum(commits, a) => Quorum(commits', a)
    BY QuorumMonotone DEF Commit
  <2> QED BY <2>1 DEF IInv, FinalizedAreCommitted, Commit
<1> QED BY <1>1, <1>2, <1>3, <1>4 DEF IInv

\* A finalization stands on the quorum of commits that its guard asks for.
LEMMA FinalizeKeepsIInv ==
  ASSUME IInv, NEW b \in Blocks, NEW v \in Correct, Finalize(v, b)
  PROVE  IInv'
<1>1. TypeOK'
  BY DEF IInv, TypeOK, Finalize, Correct
<1>2. OnePreparePerHeight'
  BY DEF IInv, OnePreparePerHeight, Finalize, Conflict
<1>3. CommitsAreBacked'
  BY Zenon DEF IInv, CommitsAreBacked, Finalize, Quorum, Voters
<1>4. FinalizedAreCommitted'
  <2>1. \A a \in Blocks : Quorum(commits, a) => Quorum(commits', a)
    BY QuorumMonotone DEF Finalize
  <2> QED BY <2>1 DEF IInv, FinalizedAreCommitted, Finalize
<1> QED BY <1>1, <1>2, <1>3, <1>4 DEF IInv

\* A faulty vote only adds to the votes that exist.
LEMMA FaultyVoteKeepsIInv ==
  ASSUME IInv, NEW b \in Blocks, NEW v \in Faulty, FaultyVote(v, b)
  PROVE  IInv'
<1>1. TypeOK'
  BY ValidatorsAssumption DEF IInv, TypeOK, FaultyVote, Correct
<1>2. OnePreparePerHeight'
  BY DEF IInv, OnePreparePerHeight, FaultyVote, Conflict, Correct
<1>3. \A a \in Blocks : /\ Quorum(prepares, a) => Quorum(prepares', a)
                        /\ Quorum(commits, a) => Quorum(commits', a)
  BY QuorumMonotone DEF FaultyVote
<1>4. CommitsAreBacked'
  BY <1>3 DEF IInv, CommitsAreBacked, FaultyVote, Correct
<1>5. FinalizedAreCommitted'
  BY <1>3 DEF IInv, FinalizedAreCommitted, FaultyVote
<1> QED BY <1>1, <1>2, <1>4, <1>5 DEF IInv

\* Every step keeps the invariant.
LEMMA NextKeepsIInv == IInv /\ [Next]_vars => IInv'
<1> SUFFICES ASSUME IInv, [Next]_vars PROVE IInv'
  OBVIOUS
<1>1. CASE UNCHANGED vars
  BY <1>1, Zenon DEF vars, IInv, TypeOK, OnePreparePerHeight, CommitsAreBacked,
              FinalizedAreCommitted, Quorum, Voters
<1>2. CASE Next
  BY <1>2, PrepareKeepsIInv, CommitKeepsIInv, FinalizeKeepsIInv, FaultyVoteKeepsIInv
     DEF Next
<1> QED BY <1>1, <1>2

\* Two blocks with a prepare quorum each are not in conflict: their quorums
\* share a correct validator, and that one prepared a single block per height.
LEMMA PrepareQuorumsAgree ==
  ASSUME IInv, FaultBound, NEW a \in Blocks, NEW b \in Blocks,
         Quorum(prepares, a), Quorum(prepares, b)
  PROVE  ~Conflict(a, b)
<1> DEFINE Q == Voters(prepares, a)
           R == Voters(prepares, b)
<1>0. /\ ValidatorSet(Stake)
      /\ 3 * AccumulatedStake(Faulty, Stake) < TotalStake(Stake)
      /\ HasQuorum(Q, Stake, FALSE)
      /\ HasQuorum(R, Stake, FALSE)
  BY ValidatorsAssumption, Zenon DEF FaultBound, Quorum
<1> HIDE DEF Q, R
<1>1. PICK v \in DOMAIN Stake : v \in Q /\ v \in R /\ v \notin Faulty
  BY <1>0, QuorumsOverlap, Zenon
<1> USE DEF Q, R
<1>2. v \in Correct
  BY <1>1 DEF Correct, Validators
<1> QED BY <1>1, <1>2 DEF IInv, OnePreparePerHeight, Voters

\* A block with a commit quorum has a prepare quorum.
LEMMA CommitQuorumIsPrepared ==
  ASSUME IInv, FaultBound, NEW b \in Blocks, Quorum(commits, b)
  PROVE  Quorum(prepares, b)
<1>1. PICK v \in DOMAIN Stake : v \in Voters(commits, b) /\ v \notin Faulty
  BY QuorumHasCorrect, ValidatorsAssumption, Zenon DEF FaultBound, Quorum
<1> QED BY <1>1 DEF IInv, CommitsAreBacked, Voters, Correct, Validators

\* Two quorums share a correct validator, who prepared one block.
LEMMA IInvAgreement == IInv => Agreement /\ OneCommitPerHeight
<1>1. ASSUME IInv, FaultBound, NEW v \in Correct, NEW w \in Correct,
             NEW a \in Blocks, NEW b \in Blocks,
             <<v, a>> \in finalized, <<w, b>> \in finalized
      PROVE  ~Conflict(a, b)
  <2>1. Quorum(commits, a) /\ Quorum(commits, b)
    BY <1>1 DEF IInv, FinalizedAreCommitted
  <2>2. Quorum(prepares, a) /\ Quorum(prepares, b)
    BY <1>1, <2>1, CommitQuorumIsPrepared
  <2> QED BY <1>1, <2>2, PrepareQuorumsAgree
<1>2. ASSUME IInv, FaultBound, NEW v \in Correct, NEW w \in Correct,
             NEW a \in Blocks, NEW b \in Blocks,
             <<v, a>> \in commits, <<w, b>> \in commits
      PROVE  ~Conflict(a, b)
  <2>1. Quorum(prepares, a) /\ Quorum(prepares, b)
    BY <1>2 DEF IInv, CommitsAreBacked
  <2> QED BY <1>2, <2>1, PrepareQuorumsAgree
<1> QED BY <1>1, <1>2 DEF Agreement, OneCommitPerHeight

\* The inductive invariant holds in every reachable state: correct validators
\* never double-prepare, and every commit and finalization in handlePrepare
\* and handleCommit stands on a quorum.
THEOREM InvariantThm == Spec => []IInv
<1>1. Init => IInv
  BY InitIInv
<1>2. IInv /\ [Next]_vars => IInv'
  BY NextKeepsIInv
<1> QED BY <1>1, <1>2, PTL DEF Spec

\* The votes and finalizations keep their types.
THEOREM TypeCorrect == Spec => []TypeOK
<1>1. IInv => TypeOK
  BY DEF IInv
<1> QED BY <1>1, InvariantThm, PTL

\* No two correct validators finalize different blocks of one height, for any
\* number of validators and any distribution of stake with less than a third
\* faulty.
THEOREM AgreementThm == Spec => []Agreement
<1>1. IInv => Agreement
  BY IInvAgreement
<1> QED BY <1>1, InvariantThm, PTL

\* Nor do they commit different blocks of one height.
THEOREM OneCommitThm == Spec => []OneCommitPerHeight
<1>1. IInv => OneCommitPerHeight
  BY IInvAgreement
<1> QED BY <1>1, InvariantThm, PTL
==============================================================================
