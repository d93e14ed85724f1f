------------------------ MODULE BftCoordinatorProofs -------------------------
(***************************************************************************)
(* The theorems about module BftCoordinator, from the invariants of        *)
(* BftCoordinatorInv: its commits stand on quorums, it never votes twice,  *)
(* its votes are on disk, and it implements BftAgreement.                  *)
(***************************************************************************)
EXTENDS BftCoordinatorInv, TotalsProofs

USE DEF BlockOrNone

\* The threshold is above zero.
QuorumsNeedVotes == \A vs \in ValidatorSets : QuorumThreshold(vs, Relaxed) > 0

\* Whatever holds a quorum holds it with more voters.
LEMMA QuorumGrows ==
  ASSUME NEW S, NEW T, NEW stake, ValidatorSet(stake), NEW relaxed \in BOOLEAN,
         S \cap DOMAIN stake \subseteq T, HasQuorum(S, stake, relaxed)
  PROVE  HasQuorum(T, stake, relaxed)
<1> DEFINE s == AccumulatedStake(S, stake)
           t == AccumulatedStake(T, stake)
           q == QuorumThreshold(stake, relaxed)
<1>1. s \in Nat /\ t \in Nat /\ TotalStake(stake) \in Nat
  BY PartIsTable, Zenon DEF ValidatorSet, AccumulatedStake, TotalStake
<1>2. s <= t
  BY PartGrows, Zenon DEF ValidatorSet, AccumulatedStake
<1>3. q \in Int
  BY <1>1, SafeIntegerAssumption DEF QuorumThreshold
<1>4. s >= q
  BY Zenon DEF HasQuorum
<1> HIDE DEF s, t, q
<1>5. t >= q
  BY <1>1, <1>2, <1>3, <1>4
<1> QED BY <1>5, Zenon DEF t, q, HasQuorum

\* Nobody is no quorum, unless the threshold is zero.
LEMMA NobodyIsNoQuorum ==
  ASSUME NEW stake, NEW relaxed \in BOOLEAN, ValidatorSet(stake),
         QuorumThreshold(stake, relaxed) > 0
  PROVE  ~HasQuorum({}, stake, relaxed)
<1>2. AccumulatedStake({}, stake) = 0
  BY NoPart, Zenon DEF AccumulatedStake
<1>3. QuorumThreshold(stake, relaxed) \in Int
  BY PartIsTable, SafeIntegerAssumption DEF ValidatorSet, QuorumThreshold, TotalStake, AccumulatedStake
<1> QED BY <1>2, <1>3 DEF HasQuorum

\* A positive threshold is all that QuorumArithmetic needs.
LEMMA ArithmeticHolds ==
  ASSUME QuorumsNeedVotes PROVE QuorumArithmetic
<1> SUFFICES ASSUME NEW vs \in ValidatorSets
             PROVE  /\ ~HasQuorum({}, vs, Relaxed)
                    /\ \A S, T : S \cap DOMAIN vs \subseteq T /\ HasQuorum(S, vs, Relaxed)
                                 => HasQuorum(T, vs, Relaxed)
  BY Zenon DEF QuorumArithmetic
<1>1. ValidatorSet(vs) /\ Relaxed \in BOOLEAN /\ QuorumThreshold(vs, Relaxed) > 0
  BY CoordinatorAssumption, RoundAssumption, Zenon DEF QuorumsNeedVotes
<1>2. ~HasQuorum({}, vs, Relaxed)
  BY <1>1, NobodyIsNoQuorum, Zenon
<1>3. ASSUME NEW S, NEW T, S \cap DOMAIN vs \subseteq T, HasQuorum(S, vs, Relaxed)
      PROVE  HasQuorum(T, vs, Relaxed)
  BY <1>1, <1>3, QuorumGrows
<1> QED BY <1>2, <1>3, Zenon

\* A commit that leaves this node, from handlePrepare, a retry timer, the linger
\* timer or the replay after a restart, and every finalization, stands on a
\* prepare quorum of votes really sent, the own among them: for all validator
\* sets with a positive threshold, any number of overlapping startRound calls,
\* failing ledger writes and crashes at any moment.
THEOREM CommitsStandThm ==
  ASSUME QuorumsNeedVotes PROVE Spec => []CommitsStandOnQuorum
<1>1. Init => QuorumInv
  BY QuorumInit, Zenon
<1>2. QuorumInv /\ [Next]_vars => QuorumInv'
  BY ArithmeticHolds, QuorumStep, Zenon
<1>3. QuorumInv => CommitsStandOnQuorum
  BY Zenon DEF QuorumInv
<1> QED BY <1>1, <1>2, <1>3, PTL DEF Spec
\* Phase R: this validator never broadcasts prepares, or commits, for two blocks
\* of one height, through any number of timeouts, re-entries, retries, deferrals
\* and restarts, for every set of blocks, heights, peers and peer votes.
THEOREM NoDoubleVoteThm ==
  ASSUME Undisturbed, QuorumsNeedVotes PROVE Spec => []NoDoubleVote
<1>1. VoteInv /\ [Next]_vars => VoteInv'
  BY ArithmeticHolds, VoteStep, Zenon
<1>2. VoteInv => NoDoubleVote
  BY VotesAreSafe
<1> QED BY <1>1, <1>2, VoteInit, PTL DEF Spec

\* Write-ahead: a vote sent for an open height is in the ledger file at every
\* moment, so that a crash is followed by a restart that knows of it.
THEOREM OnDiskThm ==
  ASSUME Undisturbed, QuorumsNeedVotes PROVE Spec => []VotesAreOnDisk
<1>1. VoteInv /\ [Next]_vars => VoteInv'
  BY ArithmeticHolds, VoteStep, Zenon
<1>2. VoteInv => VotesAreOnDisk
  BY VotesAreSafe, Zenon
<1> QED BY <1>1, <1>2, VoteInit, PTL DEF Spec
------------------------------------------------------------------------------
\* The coordinator implements BftAgreement.

\* The network of BftAgreement: one fixed validator set, strict quorums, no
\* votes before the start, votes from validators only.
OneNetwork ==
  /\ Trouble = {}
  /\ ValidatorSets = {InitialValidators}
  /\ Relaxed = FALSE
  /\ InitialNet = {}
  /\ \A m \in PeerMessages : m.sender \in DOMAIN InitialValidators

\* It satisfies the hypotheses of the theorems above.
LEMMA NetworkHypotheses ==
  ASSUME OneNetwork PROVE Undisturbed /\ QuorumArithmetic
<1>1. Undisturbed
  BY Zenon DEF OneNetwork, Undisturbed, SteadyMembership
<1>2. ASSUME NEW vs \in ValidatorSets PROVE QuorumThreshold(vs, Relaxed) > 0
  <2>1. TotalStake(vs) \in Nat
    BY PartIsTable, CoordinatorAssumption, Zenon DEF ValidatorSet, TotalStake, AccumulatedStake
  <2> HIDE DEF TotalStake
  <2> QED BY <2>1, SafeIntegerAssumption DEF QuorumThreshold, OneNetwork
<1> QED BY <1>1, <1>2, ArithmeticHolds, Zenon DEF QuorumsNeedVotes

\* The two instances of the quorum arithmetic are the same.
LEMMA SameCardinality ==
  ASSUME NEW S PROVE Network!Cardinality(S) = Cardinality(S)
BY Zenon DEF Network!Cardinality, Cardinality

\* ... and so are its quorums.
LEMMA SameQuorum ==
  ASSUME NEW S, NEW vs, NEW rel
  PROVE  Network!HasQuorum(S, vs, rel) = HasQuorum(S, vs, rel)
BY SameCardinality, Zenon DEF Network!HasQuorum, HasQuorum, Network!AccumulatedStake, AccumulatedStake,
   Network!QuorumThreshold, QuorumThreshold, Network!TotalStake, TotalStake,
   Network!Total, Total, Network!Part, Part, Network!Units, Units

\* The votes of the network of BftAgreement.
Prepares == Own(sentPrepares) \cup Sent("prepare")
\* ... its commits, the one a finalization casts included.
Commits == Own(sentCommits \cup finals) \cup Sent("commit")

\* A quorum of senders whose votes are in the network is a quorum of
\* BftAgreement.
LEMMA NetworkQuorum ==
  ASSUME OneNetwork, NEW votes, NEW b, NEW S,
         \A v \in S : <<v, b>> \in votes, HasQuorum(S, InitialValidators, Relaxed)
  PROVE  Network!Quorum(votes, b)
<1> DEFINE V == Network!Voters(votes, b)
<1>1. S \cap DOMAIN InitialValidators \subseteq V
  BY Zenon DEF Network!Voters, Network!Validators
<1>2. ValidatorSet(InitialValidators) /\ Relaxed \in BOOLEAN
  BY CoordinatorAssumption, RoundAssumption, Zenon
<1>3. HasQuorum(V, InitialValidators, Relaxed)
  <2> HIDE DEF V
  <2> QED BY <1>1, <1>2, QuorumGrows
<1>4. Network!HasQuorum(V, InitialValidators, FALSE)
  BY <1>3, SameQuorum, Zenon DEF OneNetwork
<1> QED BY <1>4, Zenon DEF Network!Quorum

\* A step that sends no new vote and finalizes nothing is a stutter.
LEMMA NetworkStutters ==
  ASSUME UNCHANGED <<sentPrepares, finals, net>>, sentCommits' \cup finals' = sentCommits \cup finals
  PROVE  UNCHANGED Network!vars
BY Zenon DEF Network!vars, Own, Sent

\* This validator is a correct one of the network.
LEMMA OwnIsCorrect ==
  ASSUME LocalId \in DOMAIN InitialValidators PROVE LocalId \in Network!Correct
BY Zenon DEF Network!Correct, Network!Validators

\* createRound's vote is a Prepare step: the Phase R guard is the guard of
\* BftAgreement.
LEMMA NetworkPrepares ==
  ASSUME OneNetwork, VoteInv, NEW s \in Slots, CreateRound(s) PROVE [Network!Next]_(Network!vars)
<1> USE DEF roundVars, ledgerVars, chainVars, sentVars, peerVars, restVars
<1> DEFINE b == calls[s].block
<1>1. /\ calls[s] # None /\ calls[s].pc = "root" /\ b \in Blocks
      /\ calls[s].validators = InitialValidators
  BY Zenon DEF CreateRound, VoteInv, QuorumInv, TypeOK, Calls, OneNetwork
<1>2. UNCHANGED <<sentCommits, finals, net>>
  BY Zenon DEF CreateRound
<1>3. CASE sentPrepares' = sentPrepares
  BY <1>2, <1>3, NetworkStutters, Zenon
<1>4. CASE sentPrepares' = sentPrepares \cup {b} /\ IsValidator(round')
  <2>1. round'.validators = InitialValidators
    BY <1>1, NewRoundType DEF CreateRound, HandlePropose, NewRound
  <2>2. LocalId \in Network!Correct
    BY <1>4, <2>1, OwnIsCorrect, Zenon DEF IsValidator, IsKnownValidator
  <2>3. \A a \in Blocks : Network!Conflict(a, b) => <<LocalId, a>> \notin Prepares
    <3>1. \A a \in sentPrepares : SameHeight(a, b) => a = b
      BY <1>1, Zenon DEF VoteInv, CallsAreSafe
    <3>2. \A m \in net : m.sender # LocalId
      BY CoordinatorAssumption DEF VoteInv, QuorumInv, TypeOK
    <3> QED BY <3>1, <3>2 DEF Network!Conflict, SameHeight, Prepares, Own, Sent
  <2>4. Prepares' = Prepares \cup {<<LocalId, b>>}
    BY <1>2, <1>4, Zenon DEF Prepares, Own, Sent
  <2>5. Commits' = Commits /\ Own(finals)' = Own(finals)
    BY <1>2, Zenon DEF Commits, Own, Sent
  <2>6. Network!Prepare(LocalId, b)
    BY <2>3, <2>4, <2>5, Zenon DEF Network!Prepare, Prepares, Commits
  <2> QED BY <1>1, <2>2, <2>6, Zenon DEF Network!Next
<1> QED BY <1>3, <1>4, Zenon DEF CreateRound

\* handlePrepare reaching the prepare quorum is a Commit step.
LEMMA NetworkCommits ==
  ASSUME OneNetwork, VoteInv, NEW m \in net, NEW rest, CastCommit(m, rest)
  PROVE  [Network!Next]_(Network!vars)
<1> USE DEF roundVars, ledgerVars, chainVars, sentVars, peerVars, restVars
<1> DEFINE b == round.block
           S == PrepareSenders(b) \cup {LocalId}
<1>1. /\ ReachesRound(m) /\ round # None /\ b \in Blocks /\ round.validators = InitialValidators
      /\ Counted(m).phase = "commit"
  BY Zenon DEF CastCommit, ReachesRound, VoteInv, QuorumInv, TypeOK, Rounds, OneNetwork
<1>2. UNCHANGED <<sentPrepares, finals, net>>
  BY Zenon DEF CastCommit, RecordVote
<1>3. CASE sentCommits' = sentCommits
  BY <1>2, <1>3, NetworkStutters, Zenon
<1>4. CASE sentCommits' = sentCommits \cup {b}
  <2>1. /\ round.prepareVotes[LocalId] # NoVote
        /\ HasQuorum(S, InitialValidators, Relaxed)
    BY <1>1, CountedIsBacked, NetworkHypotheses, Zenon DEF VoteInv
  <2>2. b \in sentPrepares /\ LocalId \in Network!Correct
    BY <1>1, <2>1, OwnIsCorrect, Zenon DEF VoteInv, QuorumInv, RoundIsBacked, IsValidator, IsKnownValidator
  <2>3. \A v \in S : <<v, b>> \in Prepares
    BY <2>2 DEF Prepares, Own, Sent, PrepareSenders
  <2>4. Network!Quorum(Prepares, b)
    <3> HIDE DEF S
    <3> QED BY <2>1, <2>3, NetworkQuorum, Zenon
  <2>5. Commits' = Commits \cup {<<LocalId, b>>}
    BY <1>2, <1>4, Zenon DEF Commits, Own, Sent
  <2>6. Prepares' = Prepares /\ Own(finals)' = Own(finals) /\ <<LocalId, b>> \in Prepares
    BY <1>2, <2>3, Zenon DEF Prepares, Own, Sent
  <2>7. Network!Commit(LocalId, b)
    BY <2>4, <2>5, <2>6, Zenon DEF Network!Commit, Prepares, Commits
  <2> QED BY <1>1, <2>2, <2>7, Zenon DEF Network!Next
<1> QED BY <1>3, <1>4, Zenon DEF CastCommit

\* Reaching the commit quorum is a Finalize step, own commit included.
LEMMA NetworkFinalizes ==
  ASSUME OneNetwork, VoteInv, NEW m \in net, NEW rest, FinalizeRound(m, rest)
  PROVE  [Network!Next]_(Network!vars)
<1> USE DEF roundVars, ledgerVars, chainVars, sentVars, peerVars, restVars
<1> DEFINE b == round.block
           S == PrepareSenders(b) \cup {LocalId}
           T == CommitSenders(b) \cup {LocalId}
<1>1. /\ ReachesRound(m) /\ round # None /\ b \in Blocks /\ round.validators = InitialValidators
      /\ Counted(m).phase = "finalized"
  BY Zenon DEF FinalizeRound, ReachesRound, VoteInv, QuorumInv, TypeOK, Rounds, OneNetwork
<1>2. round.phase # "finalized"
  BY <1>1, Zenon DEF VoteInv, QuorumInv, RoundIsBacked
<1>3. UNCHANGED <<sentPrepares, sentCommits, net>> /\ finals' = finals \cup {b}
  BY Zenon DEF FinalizeRound, RecordVote
<1>4. /\ round.prepareVotes[LocalId] # NoVote
      /\ HasQuorum(S, InitialValidators, Relaxed)
      /\ HasQuorum(T, InitialValidators, Relaxed)
  BY <1>1, <1>2, CountedIsBacked, NetworkHypotheses, Zenon DEF VoteInv
<1>5. b \in sentPrepares /\ LocalId \in Network!Correct
  BY <1>1, <1>4, OwnIsCorrect, Zenon DEF VoteInv, QuorumInv, RoundIsBacked, IsValidator, IsKnownValidator
<1>6. /\ Prepares' = Prepares /\ Commits' = Commits \cup {<<LocalId, b>>}
      /\ Own(finals)' = Own(finals) \cup {<<LocalId, b>>}
  BY <1>3, Zenon DEF Prepares, Commits, Own, Sent
<1>7. /\ \A v \in S : <<v, b>> \in Prepares
      /\ \A v \in T : <<v, b>> \in Commits'
  BY <1>3, <1>5 DEF Prepares, Commits, Own, Sent, PrepareSenders, CommitSenders
<1>8. Network!Quorum(Prepares, b) /\ <<LocalId, b>> \in Prepares
  <2>1. <<LocalId, b>> \in Prepares
    BY <1>7, Zenon
  <2> HIDE DEF S
  <2> QED BY <1>4, <1>7, <2>1, NetworkQuorum, Zenon
<1>9. Network!Quorum(Commits', b)
  <2> HIDE DEF T
  <2> QED BY <1>4, <1>7, NetworkQuorum, Zenon
<1>10. Network!Finalize(LocalId, b)
  BY <1>6, <1>8, <1>9, Zenon DEF Network!Finalize, Prepares, Commits
<1> QED BY <1>1, <1>5, <1>10, Zenon DEF Network!Next

\* A peer's vote is a FaultyVote step.
LEMMA NetworkFaulty ==
  ASSUME OneNetwork, NEW m \in PeerMessages, PeerSends(m) PROVE [Network!Next]_(Network!vars)
<1> USE DEF sentVars
<1>1. /\ m.sender \in DOMAIN InitialValidators \ {LocalId} /\ m.block \in Blocks
      /\ m.type \in {"prepare", "commit"}
  BY CoordinatorAssumption, Zenon DEF OneNetwork
<1>2. UNCHANGED <<sentPrepares, sentCommits, finals>> /\ net' = net \cup {m}
  BY Zenon DEF PeerSends
<1>3. /\ Prepares' = IF m.type = "prepare" THEN Prepares \cup {<<m.sender, m.block>>} ELSE Prepares
      /\ Commits' = IF m.type = "commit" THEN Commits \cup {<<m.sender, m.block>>} ELSE Commits
      /\ Own(finals)' = Own(finals)
  BY <1>2, Zenon DEF Prepares, Commits, Own, Sent
<1>4. Network!FaultyVote(m.sender, m.block)
  BY <1>1, <1>3, Zenon DEF Network!FaultyVote, Prepares, Commits
<1> QED BY <1>1, <1>4, Zenon DEF Network!Next

\* Every handler, timer, crash and restart is a step of BftAgreement or a
\* stutter; a resent vote is a stutter.
LEMMA NetworkStep ==
  ASSUME OneNetwork, VoteInv, [Next]_vars PROVE [Network!Next]_(Network!vars)
<1> USE DEF sentVars, peerVars
<1>1. ASSUME UNCHANGED <<sentPrepares, sentCommits, finals, net>> PROVE UNCHANGED Network!vars
  BY <1>1, NetworkStutters, Zenon
<1>2. ASSUME NEW m \in net, NEW rest, HandleMessage(m, rest) PROVE [Network!Next]_(Network!vars)
  <2>1. CASE BufferMessage(m, rest) \/ DropMessage(m, rest) \/ CountVote(m, rest)
    BY <1>1, <2>1, Zenon DEF BufferMessage, DropMessage, CountVote, RecordVote
  <2> QED BY <1>2, <2>1, NetworkCommits, NetworkFinalizes, Zenon DEF HandleMessage
<1>3. (\E m \in net : Deliver(m)) \/ (\E m \in draining : Drain(m)) => [Network!Next]_(Network!vars)
  BY <1>2, Zenon DEF Deliver, Drain, VoteInv, QuorumInv, TypeOK
<1>4. CASE CommitRetry \/ PrepareRetry \/ LingerTick \/ ReplayUnfinalizedVotes
  <2>1. UNCHANGED <<sentPrepares, finals, net>>
    BY <1>4, ResentVotes, Zenon DEF CommitRetry, PrepareRetry, LingerTick, ReplayUnfinalizedVotes
  <2>2. sentCommits' \subseteq sentCommits \cup finals
    BY <1>4, ResentVotes DEF VoteInv, QuorumInv, LingerIsFinal
  <2>3. sentCommits \subseteq sentCommits'
    BY <1>4, Zenon DEF CommitRetry, PrepareRetry, LingerTick, ReplayUnfinalizedVotes
  <2> QED BY <2>1, <2>2, <2>3, NetworkStutters, Zenon
<1>5. CASE Running
  <2>1. \/ UNCHANGED <<sentPrepares, sentCommits, finals, net>>
        \/ \E s \in Slots : CreateRound(s)
        \/ \E m \in PeerMessages : PeerSends(m)
        \/ (\E m \in net : Deliver(m)) \/ (\E m \in draining : Drain(m))
        \/ CommitRetry \/ PrepareRetry \/ LingerTick \/ ReplayUnfinalizedVotes
    BY <1>5, Zenon DEF Running, ProposeBlock, ReceiveBlock, CheckStart, ArmRound, Timeout,
       LeakedTimerFires, LivenessWatchdog, UpdateValidators, FinishApply, AdoptBlock
  <2> QED BY <1>1, <1>3, <1>4, <2>1, NetworkPrepares, NetworkFaulty, Zenon
<1>6. CASE ForceClearRound \/ Stop \/ CrashAndRestart \/ UNCHANGED vars
  BY <1>1, <1>6, Zenon DEF ForceClearRound, Stop, CrashAndRestart, vars
<1> QED BY <1>5, <1>6, Zenon DEF Next

\* The coordinator implements BftAgreement with itself as the only correct
\* validator: one prepare per height, commits and finalizations only on quorums
\* of votes that exist.
THEOREM CoordinatorImplementsAgreement ==
  ASSUME OneNetwork PROVE Spec => ImplementsAgreement
<1>1. Init => Network!Init
  BY Zenon DEF Init, Network!Init, Own, Sent, OneNetwork
<1>2. VoteInv /\ [Next]_vars => VoteInv'
  BY VoteStep, NetworkHypotheses, Zenon
<1>3. VoteInv /\ [Next]_vars => [Network!Next]_(Network!vars)
  BY NetworkStep, Zenon
<1> QED BY <1>1, <1>2, <1>3, VoteInit, PTL DEF Spec, ImplementsAgreement, Network!Spec
==============================================================================
