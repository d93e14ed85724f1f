-------------------------- MODULE BftCoordinatorInv --------------------------
(***************************************************************************)
(* The inductive invariants of module BftCoordinator, and the proof that   *)
(* every handler keeps them, for every set of blocks, heights, peers, peer *)
(* votes, validator sets and concurrent calls.                             *)
(*                                                                         *)
(* QuorumInv carries CommitsStandOnQuorum and needs no assumption on the   *)
(* environment. VoteInv extends it with what the vote ledger knows and     *)
(* carries NoDoubleVote and VotesAreOnDisk; it holds in an undisturbed     *)
(* environment only (the README gives the timings that break it).          *)
(***************************************************************************)
EXTENDS BftCoordinator, TLAPS

\* The rounds and the startRound calls the coordinator can hold.
Rounds == [block : Blocks, phase : Phases, validators : ValidatorSets,
           prepareVotes : VoteMap, commitVotes : VoteMap]

\* Calls of startRound in their awaits.
Calls == [block : Blocks, pc : {"floor", "root", "sent"}, floor : Nat,
          validators : ValidatorSets]
\* localPreparedAt, localCommittedAt and localPreparedBlock, by height.
Ballots == [Heights -> BlockOrNone]

\* The type invariant: every block, vote and validator set the coordinator holds
\* is one the environment offered, and what it buffers or drains was really
\* sent.
TypeOK ==
  /\ validators \in ValidatorSets
  /\ round \in Rounds \cup {None}
  /\ calls \in [Slots -> Calls \cup {None}]
  /\ deferred \in BlockOrNone /\ linger \in BlockOrNone
  /\ lastFinalized \in Nat /\ tip \in Nat
  /\ prepared \in Ballots /\ committed \in Ballots /\ preparedBlock \in Ballots
  /\ disk \in [prepared : Ballots, committed : Ballots]
  /\ sentPrepares \subseteq Blocks /\ sentCommits \subseteq Blocks /\ finals \subseteq Blocks
  /\ net \subseteq PeerMessages /\ pending \subseteq net /\ draining \subseteq net

USE DEF BlockOrNone

\* Heights are positive naturals, and every block has one.
LEMMA HeightsType ==
  /\ Heights \subseteq Nat \ {0}
  /\ \A b \in Blocks : HeightOf[b] \in Heights
BY CoordinatorAssumption, Zenon DEF Heights

\* startRound puts a well-formed call in flight.
LEMMA BeginCallType ==
  ASSUME TypeOK, NEW b \in BlockOrNone, BeginCall(b, lastFinalized)
  PROVE  calls' \in [Slots -> Calls \cup {None}]
<1>1. CASE UNCHANGED calls
  BY <1>1, Zenon DEF TypeOK
<1>2. CASE ~(b = None \/ stopped)
  <2>1. b \in Blocks
    BY <1>2, Zenon
  <2>2. [block |-> b, pc |-> "floor", floor |-> lastFinalized, validators |-> validators] \in Calls
    BY <2>1, Zenon DEF TypeOK, Calls
  <2> QED BY <1>2, <2>2, Zenon DEF TypeOK, BeginCall
<1> QED BY <1>1, <1>2, Zenon DEF BeginCall

\* handlePropose, handlePrepare and handleCommit return rounds.
LEMMA HandlerTypes ==
  ASSUME NEW r \in Rounds, NEW sender \in Ids, NEW b \in Blocks, NEW root \in Vote
  PROVE  /\ HandlePropose(r, root) \in Rounds
         /\ HandlePrepare(r, sender, b, root) \in Rounds
         /\ HandleCommit(r, sender, b, root) \in Rounds
<1> USE RoundAssumption DEF Rounds, VoteMap, Vote, Phases
<1>1. HandlePropose(r, root) \in Rounds
  BY Zenon DEF HandlePropose
<1>2. ASSUME NEW q \in Rounds PROVE EnterCommit(q) \in Rounds
  BY <1>2, Zenon DEF EnterCommit
<1>3. HandlePrepare(r, sender, b, root) \in Rounds
  BY <1>2 DEF HandlePrepare
<1>4. HandleCommit(r, sender, b, root) \in Rounds
  BY Zenon DEF HandleCommit
<1> QED BY <1>1, <1>3, <1>4, Zenon

\* The constructor of BftRound returns a round.
LEMMA NewRoundType ==
  ASSUME NEW b \in Blocks, NEW vs \in ValidatorSets PROVE NewRound(b, vs) \in Rounds
BY Zenon DEF NewRound, Rounds, VoteMap, Phases

\* Every handler keeps the type invariant.
LEMMA StepType ==
  ASSUME TypeOK, [Next]_vars PROVE TypeOK'
<1> USE HeightsType, CoordinatorAssumption
<1> USE DEF roundVars, ledgerVars, chainVars, sentVars, peerVars, restVars
<1>1. ASSUME NEW b \in Blocks, ProposeBlock(b) PROVE TypeOK'
  <2>1. calls' \in [Slots -> Calls \cup {None}]
    BY <1>1, BeginCallType, Zenon DEF ProposeBlock
  <2> QED BY <1>1, <2>1, Zenon DEF TypeOK, ProposeBlock
<1>2. ASSUME NEW b \in Blocks, ReceiveBlock(b) PROVE TypeOK'
  <2>1. calls' \in [Slots -> Calls \cup {None}]
    BY <1>2, BeginCallType, Zenon DEF ReceiveBlock, TypeOK
  <2>2. round' \in {round, None} /\ draining' \in {draining, {}} /\ deferred' \in {deferred, b}
    BY <1>2, Zenon DEF ReceiveBlock, ClearRound
  <2> QED BY <1>2, <2>1, <2>2, Zenon DEF TypeOK, ReceiveBlock
<1>3. ASSUME NEW s \in Slots, CheckStart(s) PROVE TypeOK'
  <2>1. calls[s] \in Calls
    BY <1>3, Zenon DEF CheckStart, TypeOK
  <2>2. calls' \in [Slots -> Calls \cup {None}]
    <3> DEFINE c == [calls[s] EXCEPT !.pc = "root", !.validators = validators]
    <3>1. c \in Calls
      BY <2>1, Zenon DEF TypeOK, Calls
    <3>2. \/ EndCall(s)
          \/ calls' = [calls EXCEPT ![s].pc = "root", ![s].validators = validators]
      BY <1>3, Zenon DEF CheckStart
    <3>3. CASE calls' = [calls EXCEPT ![s].pc = "root", ![s].validators = validators]
      <4>1. calls' = [calls EXCEPT ![s] = c]
        BY <3>3, Zenon DEF TypeOK
      <4> HIDE DEF c
      <4> QED BY <3>1, <4>1, Zenon DEF TypeOK
    <3> QED BY <3>2, <3>3, Zenon DEF EndCall, TypeOK
  <2>3. /\ round' \in {round, None} /\ draining' \in {draining, {}}
        /\ deferred' \in {deferred, calls[s].block, None}
    BY <1>3, Zenon DEF CheckStart, ClearRound
  <2> QED BY <1>3, <2>1, <2>2, <2>3, Zenon DEF TypeOK, CheckStart, Calls
<1>4. ASSUME NEW s \in Slots, CreateRound(s) PROVE TypeOK'
  <2>1. calls[s] \in Calls
    BY <1>4, Zenon DEF CreateRound, TypeOK
  <2>2. calls' \in [Slots -> Calls \cup {None}]
    BY <1>4, <2>1, Zenon DEF CreateRound, TypeOK, Calls
  <2>3. round' \in Rounds
    <3>1. PICK root \in Vote :
            round' = HandlePropose(NewRound(calls[s].block, calls[s].validators), root)
      BY <1>4, Zenon DEF CreateRound
    <3>2. calls[s].block \in Blocks /\ calls[s].validators \in ValidatorSets
      BY <2>1, Zenon DEF Calls
    <3>3. NewRound(calls[s].block, calls[s].validators) \in Rounds
      BY <3>2, NewRoundType, Zenon
    <3> QED BY <3>1, <3>2, <3>3, HandlerTypes, RoundAssumption, Zenon
  <2>4. calls[s].block \in Blocks /\ HeightOf[calls[s].block] \in Heights
    BY <2>1, Zenon DEF Calls
  <2>5. /\ prepared' \in Ballots /\ preparedBlock' \in Ballots
        /\ disk' \in [prepared : Ballots, committed : Ballots]
        /\ sentPrepares' \subseteq Blocks
    BY <1>4, <2>4 DEF CreateRound, TypeOK, RecordPrepare, FlushIfChanged, Flush, Ballots
  <2> QED BY <1>4, <2>2, <2>3, <2>5, Zenon DEF TypeOK, CreateRound
<1>5. ASSUME NEW s \in Slots, ArmRound(s) PROVE TypeOK'
  <2>1. calls' \in [Slots -> Calls \cup {None}]
    BY <1>5, Zenon DEF ArmRound, TypeOK, EndCall
  <2>2. pending' \subseteq net /\ draining' \subseteq net
    BY <1>5, Zenon DEF ArmRound, TypeOK
  <2> QED BY <1>5, <2>1, <2>2, Zenon DEF TypeOK, ArmRound
<1>6. ASSUME NEW m \in PeerMessages, PeerSends(m) PROVE TypeOK'
  BY <1>6, Zenon DEF TypeOK, PeerSends
<1>7. ASSUME NEW m \in net, NEW rest \in SUBSET net, HandleMessage(m, rest) PROVE TypeOK'
  <2>1. /\ m \in PeerMessages /\ m.sender \in Ids /\ m.block \in Blocks /\ m.root \in Vote
        /\ HeightOf[m.block] \in Heights
    BY <1>7 DEF TypeOK
  <2>2. CASE BufferMessage(m, rest)
    <3>1. pending' \subseteq net
      BY <2>2, Zenon DEF BufferMessage, TypeOK
    <3> QED BY <2>2, <3>1, Zenon DEF BufferMessage, TypeOK
  <2>3. CASE DropMessage(m, rest)
    BY <2>3, Zenon DEF DropMessage, TypeOK
  <2>4. ASSUME ReachesRound(m) PROVE round \in Rounds /\ Counted(m) \in Rounds
    BY <2>1, <2>4, HandlerTypes, Zenon DEF TypeOK, ReachesRound, Counted
  <2>5. CASE CountVote(m, rest)
    BY <2>4, <2>5, Zenon DEF CountVote, RecordVote, TypeOK
  <2>6. CASE CastCommit(m, rest)
    <3>1. round \in Rounds /\ Counted(m) \in Rounds /\ round.block \in Blocks
      BY <2>4, <2>6, Zenon DEF CastCommit, Rounds
    <3>2. /\ committed' \in Ballots /\ disk' \in [prepared : Ballots, committed : Ballots]
          /\ sentCommits' \subseteq Blocks
      BY <2>6, <3>1 DEF CastCommit, TypeOK, RecordCommit, FlushIfChanged, Flush, Ballots
    <3> QED BY <2>6, <3>1, <3>2, Zenon DEF CastCommit, RecordVote, TypeOK
  <2>7. CASE FinalizeRound(m, rest)
    <3>1. round \in Rounds /\ round.block \in Blocks /\ HeightOf[round.block] \in Heights
      BY <2>4, <2>7, Zenon DEF FinalizeRound, Rounds
    <3>2. /\ committed' \in Ballots /\ prepared' \in Ballots /\ preparedBlock' \in Ballots
          /\ disk' \in [prepared : Ballots, committed : Ballots]
      BY <2>7, <3>1 DEF FinalizeRound, PruneLocalVoteLedger, Above, TypeOK, FlushIfChanged, Flush,
         Ballots
    <3>3. lastFinalized' \in Nat /\ linger' \in Blocks /\ finals' \subseteq Blocks
      BY <2>7, <3>1, Zenon DEF FinalizeRound, TypeOK
    <3> QED BY <2>7, <3>2, <3>3, Zenon DEF FinalizeRound, ClearRound, RecordVote, TypeOK
  <2> QED BY <1>7, <2>2, <2>3, <2>5, <2>6, <2>7, Zenon DEF HandleMessage
<1>8. ASSUME NEW m \in net, Deliver(m) PROVE TypeOK'
  BY <1>7, <1>8, Zenon DEF Deliver, TypeOK
<1>9. ASSUME NEW m \in draining, Drain(m) PROVE TypeOK'
  BY <1>7, <1>9, Zenon DEF Drain, TypeOK
<1>10. ASSUME NEW h \in Heights, NEW d \in BlockOrNone, ReenterOrProcess(h, d)
       PROVE  calls' \in [Slots -> Calls \cup {None}] /\ deferred' = None
  <2>1. preparedBlock[h] \in BlockOrNone
    BY Zenon DEF TypeOK, Ballots
  <2> QED BY <1>10, <2>1, BeginCallType, Zenon DEF ReenterOrProcess
<1>11. round # None => RoundHeight \in Heights
  BY Zenon DEF TypeOK, Rounds, RoundHeight
<1>12. CASE Timeout
  BY <1>10, <1>11, <1>12, Zenon DEF Timeout, ClearRound, TypeOK
<1>13. CASE LeakedTimerFires
  BY <1>13, Zenon DEF LeakedTimerFires, TypeOK
<1>14. CASE LivenessWatchdog
  BY <1>10, <1>11, <1>14, Zenon DEF LivenessWatchdog, ClearRound, TypeOK
<1>15. CASE ForceClearRound
  BY <1>15, Zenon DEF ForceClearRound, ClearRound, TypeOK
<1>16. CASE CommitRetry
  BY <1>16, Zenon DEF CommitRetry, TypeOK, Rounds
<1>17. CASE PrepareRetry
  BY <1>17, Zenon DEF PrepareRetry, TypeOK, Rounds
<1>18. CASE LingerTick
  BY <1>18, Zenon DEF LingerTick, TypeOK
<1>19. CASE ReplayUnfinalizedVotes
  BY <1>19 DEF ReplayUnfinalizedVotes, TypeOK, Ballots
<1>20. ASSUME DropCaches
       PROVE  /\ prepared' \in Ballots /\ committed' \in Ballots /\ preparedBlock' \in Ballots
              /\ disk' \in [prepared : Ballots, committed : Ballots]
              /\ pending' = {} /\ deferred' = None
              /\ round' \in {round, None} /\ draining' \in {draining, {}}
  BY <1>20 DEF DropCaches, NoVotes, FlushIfChanged, Flush, ClearRound, TypeOK, Ballots
<1>21. ASSUME NEW vs \in ValidatorSets, UpdateValidators(vs) PROVE TypeOK'
  BY <1>20, <1>21, Zenon DEF UpdateValidators, TypeOK
<1>22. ASSUME NEW applied \in BOOLEAN, NEW vs \in ValidatorSets, FinishApply(applied, vs)
       PROVE  TypeOK'
  <2>1. tip' \in Nat
    BY <1>22 DEF FinishApply, TypeOK
  <2>2. CASE MembershipChanges(vs)
    BY <1>20, <1>22, <2>1, <2>2, Zenon DEF FinishApply, TypeOK
  <2>3. CASE ~MembershipChanges(vs)
    <3>1. calls' \in [Slots -> Calls \cup {None}]
      BY <1>22, <2>3, BeginCallType, Zenon DEF FinishApply, TypeOK
    <3> QED BY <1>22, <2>1, <2>3, <3>1, Zenon DEF FinishApply, TypeOK
  <2> QED BY <2>2, <2>3, Zenon
<1>23. CASE AdoptBlock
  BY <1>23, Zenon DEF AdoptBlock, TypeOK
<1>24. CASE Stop
  BY <1>24, Zenon DEF Stop, ClearRound, TypeOK
<1>25. CASE CrashAndRestart
  BY <1>25, Zenon DEF CrashAndRestart, ClearRound, NoVotes, TypeOK, Ballots
<1>26. CASE UNCHANGED vars
  BY <1>26, Zenon DEF vars, TypeOK
<1> QED BY <1>1, <1>2, <1>3, <1>4, <1>5, <1>6, <1>8, <1>9, <1>12, <1>13, <1>14, <1>15, <1>16,
        <1>17, <1>18, <1>19, <1>21, <1>22, <1>23, <1>24, <1>25, <1>26, Zenon DEF Next, Running

\* The peers that have sent a commit for b.
CommitSenders(b) == {m.sender : m \in {n \in net : n.type = "commit" /\ n.block = b}}

\* What the proofs below use of the quorum arithmetic. (BftCoordinatorProofs derives
\* it from a positive threshold.)
QuorumArithmetic ==
  \A vs \in ValidatorSets :
    /\ ~HasQuorum({}, vs, Relaxed)
    /\ \A S, T : S \cap DOMAIN vs \subseteq T /\ HasQuorum(S, vs, Relaxed) => HasQuorum(T, vs, Relaxed)

\* b was prepared here, and a prepare quorum of votes really sent is behind it.
Stands(b) ==
  /\ b \in sentPrepares
  /\ \E vs \in ValidatorSets : HasQuorum(PrepareSenders(b) \cup {LocalId}, vs, Relaxed)

\* Every vote the active round has counted was sent, the own one included; a
\* round in its commit phase has the own prepare and a prepare quorum behind it.
RoundIsBacked ==
  round # None =>
    /\ round.phase \in {"propose", "prepare", "commit"}
    /\ \A id \in Ids \ {LocalId} :
         /\ round.prepareVotes[id] # NoVote => id \in PrepareSenders(round.block)
         /\ round.commitVotes[id] # NoVote => id \in CommitSenders(round.block)
    /\ round.prepareVotes[LocalId] # NoVote => round.block \in sentPrepares /\ IsValidator(round)
    /\ round.phase = "commit" =>
         /\ round.prepareVotes[LocalId] # NoVote
         /\ HasQuorum(PrepareSenders(round.block) \cup {LocalId}, round.validators, Relaxed)

\* The vote ledger, in memory and in its file, holds only votes that went out.
LedgerWasSent ==
  \A h \in Heights :
    /\ {prepared[h], disk.prepared[h]} \subseteq sentPrepares \cup {None}
    /\ {committed[h], disk.committed[h]} \subseteq sentCommits \cup {None}

\* Only the votes of a finalized block linger.
LingerIsFinal == linger \in finals \cup {None}

\* The inductive invariant behind CommitsStandOnQuorum. The property alone is
\* not inductive: the retry timers send what the round and the ledger say, and
\* the quorum is judged on the votes the round has counted.
QuorumInv == TypeOK /\ RoundIsBacked /\ LedgerWasSent /\ LingerIsFinal /\ CommitsStandOnQuorum

\* What handling a message leaves of a round.
LEMMA EnterCommitEffect ==
  ASSUME NEW r \in Rounds
  PROVE  LET c == EnterCommit(r) IN
         /\ c.block = r.block /\ c.validators = r.validators /\ c.prepareVotes = r.prepareVotes
         /\ \A id \in Ids \ {LocalId} : c.commitVotes[id] = r.commitVotes[id]
         /\ c.phase \in {"commit", "finalized"}
         /\ c.phase = "finalized" => HasQuorum(PickWinningVoteGroup(c.commitVotes), c.validators, Relaxed)
<1> USE RoundAssumption DEF Rounds, VoteMap
<1> DEFINE voted == [r EXCEPT !.phase = "commit", !.commitVotes[LocalId] = r.prepareVotes[LocalId]]
           final == [voted EXCEPT !.phase = "finalized"]
<1>1. /\ voted.block = r.block /\ voted.validators = r.validators
      /\ voted.prepareVotes = r.prepareVotes /\ voted.phase = "commit"
      /\ \A id \in Ids \ {LocalId} : voted.commitVotes[id] = r.commitVotes[id]
  BY Zenon
<1>2. /\ final.block = r.block /\ final.validators = r.validators
      /\ final.prepareVotes = r.prepareVotes /\ final.phase = "finalized"
      /\ final.commitVotes = voted.commitVotes
  BY Zenon
<1>3. \/ EnterCommit(r) = [r EXCEPT !.phase = "commit"]
      \/ EnterCommit(r) = voted
      \/ EnterCommit(r) = final /\ GroupHasQuorum(voted, voted.commitVotes)
  BY Zenon DEF EnterCommit
<1>4. CASE EnterCommit(r) = [r EXCEPT !.phase = "commit"]
  BY <1>4, Zenon
<1>5. CASE EnterCommit(r) = voted
  <2> HIDE DEF voted
  <2> QED BY <1>1, <1>5, Zenon
<1>6. CASE EnterCommit(r) = final /\ GroupHasQuorum(voted, voted.commitVotes)
  <2> HIDE DEF voted, final
  <2> QED BY <1>1, <1>2, <1>6, Zenon DEF GroupHasQuorum
<1> QED BY <1>3, <1>4, <1>5, <1>6, Zenon

\* handlePrepare and handleCommit change no vote but the sender's and, entering
\* the commit phase, the own commit; they leave the prepare phase only on a
\* prepare quorum of the own group and finalize only on a commit quorum of it.
LEMMA CountingEffect ==
  ASSUME NEW r \in Rounds, NEW m \in PeerMessages,
         NEW c, \/ c = HandlePrepare(r, m.sender, m.block, m.root) /\ m.type = "prepare"
                \/ c = HandleCommit(r, m.sender, m.block, m.root) /\ m.type = "commit"
  PROVE  /\ c.block = r.block /\ c.validators = r.validators
         /\ c.prepareVotes[LocalId] = r.prepareVotes[LocalId]
         /\ \A id \in Ids \ {LocalId} :
              /\ \/ c.prepareVotes[id] = r.prepareVotes[id]
                 \/ m.type = "prepare" /\ id = m.sender /\ m.block = r.block
              /\ \/ c.commitVotes[id] = r.commitVotes[id]
                 \/ m.type = "commit" /\ id = m.sender /\ m.block = r.block
         /\ \/ c.phase = r.phase
            \/ /\ r.phase = "prepare" /\ c.phase \in {"commit", "finalized"}
               /\ HasQuorum(PickWinningVoteGroup(c.prepareVotes), c.validators, Relaxed)
            \/ r.phase = "commit" /\ c.phase = "finalized"
         /\ c.phase = "finalized" /\ r.phase # "finalized" =>
              HasQuorum(PickWinningVoteGroup(c.commitVotes), c.validators, Relaxed)
<1>0. m.sender \in Ids \ {LocalId} /\ m.root \in Vote
  BY CoordinatorAssumption, Zenon
<1>1. CASE c = HandlePrepare(r, m.sender, m.block, m.root) /\ m.type = "prepare"
  <2> DEFINE voted == [r EXCEPT !.prepareVotes[m.sender] = m.root]
  <2>1. /\ voted \in Rounds
        /\ voted.block = r.block /\ voted.validators = r.validators /\ voted.phase = r.phase
        /\ voted.commitVotes = r.commitVotes
        /\ voted.prepareVotes[LocalId] = r.prepareVotes[LocalId]
        /\ \A id \in Ids \ {LocalId} : voted.prepareVotes[id] = r.prepareVotes[id] \/ id = m.sender
    BY <1>0, RoundAssumption, Zenon DEF Rounds, VoteMap, Vote
  <2> HIDE DEF voted
  <2>2. CASE ~AcceptsPrepare(r, m.sender, m.block)
    BY <1>1, <2>2, Zenon DEF HandlePrepare
  <2>3. CASE AcceptsPrepare(r, m.sender, m.block) /\ ~GroupHasQuorum(voted, voted.prepareVotes)
    <3>1. c = voted /\ m.block = r.block
      BY <1>1, <2>3, Zenon DEF HandlePrepare, AcceptsPrepare, voted
    <3> QED BY <1>1, <2>1, <3>1
  <2>4. CASE AcceptsPrepare(r, m.sender, m.block) /\ GroupHasQuorum(voted, voted.prepareVotes)
    <3>1. c = EnterCommit(voted)
      BY <1>1, <2>4, Zenon DEF HandlePrepare, voted
    <3>2. r.phase = "prepare" /\ m.block = r.block
      BY <2>4, Zenon DEF AcceptsPrepare
    <3>3. c.phase \in {"commit", "finalized"} /\ c.block = voted.block
      BY <2>1, <3>1, EnterCommitEffect, Zenon
    <3> QED BY <1>1, <2>1, <2>4, <3>1, <3>2, EnterCommitEffect DEF GroupHasQuorum
  <2> QED BY <2>2, <2>3, <2>4, Zenon
<1>2. CASE c = HandleCommit(r, m.sender, m.block, m.root) /\ m.type = "commit"
  <2> DEFINE voted == [r EXCEPT !.commitVotes[m.sender] = m.root]
             final == [voted EXCEPT !.phase = "finalized"]
  <2>1. /\ voted.block = r.block /\ voted.validators = r.validators /\ voted.phase = r.phase
        /\ voted.prepareVotes = r.prepareVotes
        /\ \A id \in Ids \ {LocalId} : voted.commitVotes[id] = r.commitVotes[id] \/ id = m.sender
    BY <1>0, Zenon DEF Rounds, VoteMap
  <2>2. /\ final.block = r.block /\ final.validators = r.validators /\ final.phase = "finalized"
        /\ final.prepareVotes = r.prepareVotes /\ final.commitVotes = voted.commitVotes
    BY Zenon DEF Rounds
  <2> HIDE DEF voted, final
  <2>3. CASE ~AcceptsCommit(r, m.sender, m.block)
    BY <1>2, <2>3, Zenon DEF HandleCommit
  <2>4. CASE AcceptsCommit(r, m.sender, m.block) /\ c = voted
    BY <1>2, <2>1, <2>4 DEF AcceptsCommit
  <2>5. CASE AcceptsCommit(r, m.sender, m.block) /\ c = final /\ r.phase = "commit"
             /\ GroupHasQuorum(voted, voted.commitVotes)
    BY <1>2, <2>1, <2>2, <2>5, Zenon DEF AcceptsCommit, GroupHasQuorum
  <2> QED BY <1>2, <2>3, <2>4, <2>5, Zenon DEF HandleCommit, voted, final
<1> QED BY <1>1, <1>2, Zenon

\* Votes sent, and blocks finalized, are never taken back.
Grows == /\ net \subseteq net' /\ finals \subseteq finals'
         /\ sentPrepares \subseteq sentPrepares' /\ sentCommits \subseteq sentCommits'

\* No handler takes back a vote, a message or a finalization.
LEMMA Growth == [Next]_vars => Grows
<1> USE DEF sentVars, peerVars, vars, Grows
<1>1. ASSUME NEW m, NEW rest, HandleMessage(m, rest) PROVE Grows
  BY <1>1, Zenon DEF HandleMessage, BufferMessage, DropMessage, CountVote, CastCommit, FinalizeRound,
     RecordVote
<1>2. ASSUME Running PROVE Grows
  BY <1>1, <1>2, Zenon DEF Running, ProposeBlock, ReceiveBlock, CheckStart, CreateRound, ArmRound,
     PeerSends, Deliver, Drain, Timeout, LeakedTimerFires, LivenessWatchdog, CommitRetry,
     PrepareRetry, LingerTick, ReplayUnfinalizedVotes, UpdateValidators, FinishApply, AdoptBlock
<1> QED BY <1>2, Zenon DEF Next, ForceClearRound, Stop, CrashAndRestart

\* A prepare quorum stays one when more votes are sent.
LEMMA StandsStays ==
  ASSUME QuorumArithmetic, Grows, NEW b, Stands(b) PROVE Stands(b)'
<1>1. PICK vs \in ValidatorSets : HasQuorum(PrepareSenders(b) \cup {LocalId}, vs, Relaxed)
  BY Zenon DEF Stands
<1>2. PrepareSenders(b) \subseteq PrepareSenders(b)'
  BY Zenon DEF Grows, PrepareSenders
<1> DEFINE S == PrepareSenders(b) \cup {LocalId}
           T == PrepareSenders(b)' \cup {LocalId}
<1>3. S \cap DOMAIN vs \subseteq T
  BY <1>2, Zenon
<1>4. HasQuorum(T, vs, Relaxed)
  <2> HIDE DEF S, T
  <2> QED BY <1>1, <1>3, Zenon DEF S, QuorumArithmetic
<1> QED BY <1>4, Zenon DEF Stands, Grows

\* CommitsStandOnQuorum, block by block.
LEMMA CommitsStand == CommitsStandOnQuorum <=> \A b \in sentCommits \cup finals : Stands(b)
BY Zenon DEF CommitsStandOnQuorum, Stands

\* CommitsStandOnQuorum holds after a step whose commits and finalizations stood
\* before it.
LEMMA CommitsStillStand ==
  ASSUME QuorumArithmetic, Grows, \A b \in sentCommits' \cup finals' : Stands(b)
  PROVE  CommitsStandOnQuorum'
<1>1. \A b \in sentCommits' \cup finals' : Stands(b)'
  BY StandsStays, Zenon
<1> QED BY <1>1, Zenon DEF CommitsStandOnQuorum, Stands

\* A step that keeps or clears the active round keeps RoundIsBacked.
LEMMA BackedStays ==
  ASSUME QuorumArithmetic, TypeOK, RoundIsBacked, Grows, round' \in {round, None} PROVE RoundIsBacked'
<1> SUFFICES ASSUME round # None, round' = round PROVE RoundIsBacked'
  BY Zenon DEF RoundIsBacked
<1> DEFINE b == round.block
           S == PrepareSenders(b) \cup {LocalId}
           T == PrepareSenders(b)' \cup {LocalId}
<1>1. /\ PrepareSenders(b) \subseteq PrepareSenders(b)'
      /\ CommitSenders(b) \subseteq CommitSenders(b)'
  BY Zenon DEF Grows, PrepareSenders, CommitSenders
<1>2. ASSUME HasQuorum(S, round.validators, Relaxed) PROVE HasQuorum(T, round.validators, Relaxed)
  <2>1. round.validators \in ValidatorSets
    BY Zenon DEF TypeOK, Rounds
  <2>2. S \cap DOMAIN round.validators \subseteq T
    BY <1>1, Zenon
  <2> HIDE DEF S, T
  <2> QED BY <1>2, <2>1, <2>2, Zenon DEF QuorumArithmetic
<1> QED BY <1>1, <1>2, Zenon DEF RoundIsBacked, IsValidator, IsKnownValidator, Grows

\* A group with a quorum has the own vote in it, unless the threshold is zero.
LEMMA GroupHasOwnVote ==
  ASSUME QuorumArithmetic, NEW votes, NEW vs \in ValidatorSets,
         HasQuorum(PickWinningVoteGroup(votes), vs, Relaxed)
  PROVE  votes[LocalId] # NoVote
<1>1. CASE votes[LocalId] = NoVote
  <2>1. PickWinningVoteGroup(votes) = {}
    BY <1>1, Zenon DEF PickWinningVoteGroup
  <2> QED BY <2>1, Zenon DEF QuorumArithmetic
<1> QED BY <1>1, Zenon

\* The steps that send, record and count nothing.
Quiet ==
  /\ round' \in {round, None}
  /\ UNCHANGED <<sentVars, prepared, committed, disk>>
  /\ linger' \in {linger, None}

\* Such a step keeps every part of QuorumInv.
LEMMA QuietKeeps ==
  ASSUME QuorumInv, QuorumArithmetic, Grows, Quiet
  PROVE  RoundIsBacked' /\ LedgerWasSent' /\ LingerIsFinal' /\ CommitsStandOnQuorum'
<1>1. RoundIsBacked'
  BY BackedStays, Zenon DEF QuorumInv, Quiet
<1>2. LedgerWasSent'
  BY Zenon DEF QuorumInv, Quiet, LedgerWasSent, sentVars
<1>3. LingerIsFinal'
  BY Zenon DEF QuorumInv, Quiet, LingerIsFinal, sentVars
<1>4. CommitsStandOnQuorum'
  BY CommitsStillStand, CommitsStand, Zenon DEF QuorumInv, Quiet, sentVars
<1> QED BY <1>1, <1>2, <1>3, <1>4, Zenon

\* Proposing, receiving, the guards of startRound, arming, buffering, dropping,
\* the timeouts and watchdogs, adoption and stopping are such steps.
LEMMA QuietSteps ==
  \/ \E b \in Blocks : ProposeBlock(b) \/ ReceiveBlock(b)
  \/ \E s \in Slots : CheckStart(s) \/ ArmRound(s)
  \/ \E m \in PeerMessages : PeerSends(m)
  \/ \E m, rest : BufferMessage(m, rest) \/ DropMessage(m, rest)
  \/ Timeout \/ LeakedTimerFires \/ LivenessWatchdog \/ ForceClearRound \/ AdoptBlock \/ Stop
  \/ UNCHANGED vars
  => Quiet
<1> USE DEF Quiet, roundVars, ledgerVars, sentVars, restVars, ClearRound
<1>1. ASSUME NEW b, ProposeBlock(b) \/ ReceiveBlock(b) PROVE Quiet
  BY <1>1, Zenon DEF ProposeBlock, ReceiveBlock
<1>2. ASSUME NEW s, CheckStart(s) \/ ArmRound(s) PROVE Quiet
  BY <1>2, Zenon DEF CheckStart, ArmRound
<1>3. ASSUME NEW m, NEW rest, PeerSends(m) \/ BufferMessage(m, rest) \/ DropMessage(m, rest)
      PROVE  Quiet
  BY <1>3, Zenon DEF PeerSends, BufferMessage, DropMessage
<1>4. Timeout \/ LeakedTimerFires \/ LivenessWatchdog \/ ForceClearRound => Quiet
  BY Zenon DEF Timeout, LeakedTimerFires, LivenessWatchdog, ForceClearRound
<1>5. AdoptBlock \/ Stop \/ UNCHANGED vars => Quiet
  BY Zenon DEF AdoptBlock, Stop, vars
<1> QED BY <1>1, <1>2, <1>3, <1>4, <1>5, Zenon

\* A timer may send again what stands.
LEMMA ResendKeeps ==
  ASSUME QuorumInv, QuorumArithmetic, Grows, round' = round, UNCHANGED <<finals, prepared, committed, disk>>,
         linger' \in {linger, None},
         \A b \in sentCommits' \ sentCommits : Stands(b)
  PROVE  RoundIsBacked' /\ LedgerWasSent' /\ LingerIsFinal' /\ CommitsStandOnQuorum'
<1>1. RoundIsBacked'
  BY BackedStays, Zenon DEF QuorumInv
<1>2. LedgerWasSent'
  BY Zenon DEF QuorumInv, LedgerWasSent, Grows
<1>3. LingerIsFinal'
  BY Zenon DEF QuorumInv, LingerIsFinal
<1>4. CommitsStandOnQuorum'
  BY CommitsStillStand, CommitsStand, Zenon DEF QuorumInv
<1> QED BY <1>1, <1>2, <1>3, <1>4, Zenon

\* What a step has to keep of QuorumInv besides the types.
Kept == RoundIsBacked' /\ LedgerWasSent' /\ LingerIsFinal' /\ CommitsStandOnQuorum'

\* The commit and prepare retries, the linger timer and replayUnfinalizedVotes
\* send only commits that stand.
LEMMA ResendSteps ==
  ASSUME QuorumInv, QuorumArithmetic, Grows, CommitRetry \/ PrepareRetry \/ LingerTick \/ ReplayUnfinalizedVotes
  PROVE  Kept
<1> USE DEF roundVars, ledgerVars, sentVars, restVars
<1>1. \A b \in sentCommits \cup finals : Stands(b)
  BY CommitsStand, Zenon DEF QuorumInv
<1>2. CASE CommitRetry
  <2>1. round \in Rounds /\ round # None /\ round.phase = "commit"
    BY <1>2, Zenon DEF CommitRetry, QuorumInv, TypeOK
  <2>2. Stands(round.block)
    BY <2>1, Zenon DEF QuorumInv, RoundIsBacked, Stands, Rounds
  <2> QED BY <1>2, <2>2, ResendKeeps, Zenon DEF CommitRetry, Kept
<1>3. CASE PrepareRetry
  <2>1. round \in Rounds /\ HeightOf[round.block] \in Heights
    BY <1>3, HeightsType, Zenon DEF PrepareRetry, QuorumInv, TypeOK, Rounds
  <2>2. \A b \in sentCommits' \ sentCommits : b = None
    BY <1>3, <2>1, Zenon DEF PrepareRetry, QuorumInv, LedgerWasSent
  <2>3. sentCommits' \subseteq Blocks
    BY <1>3, <2>1, Zenon DEF PrepareRetry, QuorumInv, TypeOK, Rounds
  <2> QED BY <1>3, <2>2, <2>3, ResendKeeps, CoordinatorAssumption, Zenon DEF PrepareRetry, Kept
<1>4. CASE LingerTick
  BY <1>1, <1>4, ResendKeeps, Zenon DEF LingerTick, Kept, QuorumInv, LingerIsFinal
<1>5. CASE ReplayUnfinalizedVotes
  <2>1. sentCommits' = sentCommits
    BY <1>5, Zenon DEF ReplayUnfinalizedVotes, QuorumInv, LedgerWasSent
  <2> QED BY <1>5, <2>1, ResendKeeps, Zenon DEF ReplayUnfinalizedVotes, Kept
<1> QED BY <1>2, <1>3, <1>4, <1>5, Zenon

\* The ledger file is as it was or the working copy.
Written == disk' = disk \/ disk' = [prepared |-> prepared', committed |-> committed']

\* flush leaves the file or makes it the working copy.
LEMMA WrittenByFlush ==
  ASSUME FlushIfChanged(prepared', committed') \/ (FlushIfChanged(prepared', committed) /\ UNCHANGED committed)
         \/ (FlushIfChanged(prepared, committed') /\ UNCHANGED prepared)
  PROVE  Written
BY Zenon DEF FlushIfChanged, Flush, Written

\* A ledger whose working copy holds only sent votes, and whose file is that
\* copy or as before, holds only sent votes.
LEMMA LedgerStays ==
  ASSUME QuorumInv, QuorumArithmetic, Grows, Written,
         \A h \in Heights : prepared'[h] \in sentPrepares' \cup {None},
         \A h \in Heights : committed'[h] \in sentCommits' \cup {None}
  PROVE  LedgerWasSent'
<1>1. CASE disk' = disk
  BY <1>1, Zenon DEF QuorumInv, LedgerWasSent, Grows
<1>2. CASE disk' = [prepared |-> prepared', committed |-> committed']
  <2>1. disk'.prepared = prepared' /\ disk'.committed = committed'
    BY <1>2, Zenon
  <2> QED BY <2>1, Zenon DEF LedgerWasSent
<1> QED BY <1>1, <1>2, Zenon DEF Written

\* startRound, after its guards, creates a round that has counted only the own
\* prepare, which it broadcasts.
LEMMA CreateRoundKeeps ==
  ASSUME QuorumInv, QuorumArithmetic, Grows, NEW s \in Slots, CreateRound(s) PROVE Kept
<1> USE DEF roundVars, ledgerVars, sentVars, restVars
<1> DEFINE b == calls[s].block
           vs == calls[s].validators
<1>1. /\ calls[s] \in Calls /\ b \in Blocks /\ vs \in ValidatorSets /\ HeightOf[b] \in Heights
  BY HeightsType, Zenon DEF CreateRound, QuorumInv, TypeOK, Calls
<1>2. PICK root \in Vote : round' = HandlePropose(NewRound(b, vs), root)
  BY Zenon DEF CreateRound
<1>3. NewRound(b, vs) \in Rounds
  BY <1>1, NewRoundType, Zenon
<1>4. /\ round'.block = b /\ round'.validators = vs
      /\ \A id \in Ids \ {LocalId} : round'.prepareVotes[id] = NoVote /\ round'.commitVotes[id] = NoVote
      /\ round'.phase \in {"propose", "prepare"}
      /\ round'.prepareVotes[LocalId] # NoVote => round'.phase = "prepare" /\ IsValidator(round')
  BY <1>2, <1>3, RoundAssumption, Zenon DEF HandlePropose, NewRound, Rounds, VoteMap, IsValidator,
     IsKnownValidator
<1>5. round'.prepareVotes[LocalId] # NoVote => b \in sentPrepares'
  BY <1>4, Zenon DEF CreateRound
<1>6. RoundIsBacked'
  BY <1>4, <1>5, Zenon DEF RoundIsBacked, IsValidator, IsKnownValidator
<1>7. LedgerWasSent'
  <2>1. CASE UNCHANGED <<prepared, preparedBlock, disk, sentPrepares>>
    BY <2>1, Zenon DEF CreateRound, QuorumInv, LedgerWasSent
  <2>2. CASE RecordPrepare(b) /\ sentPrepares' = sentPrepares \cup {b}
    <3>1. \A h \in Heights : prepared'[h] \in {prepared[h], b}
      BY <1>1, <2>2, Zenon DEF RecordPrepare, QuorumInv, TypeOK, Ballots
    <3>2. /\ \A h \in Heights : prepared'[h] \in sentPrepares' \cup {None}
          /\ UNCHANGED committed
      BY <2>2, <3>1, Zenon DEF QuorumInv, LedgerWasSent, CreateRound
    <3>3. \A h \in Heights : committed'[h] \in sentCommits' \cup {None}
      BY <3>2, Zenon DEF QuorumInv, LedgerWasSent, Grows
    <3>4. Written
      BY <2>2, <3>2, WrittenByFlush, Zenon DEF RecordPrepare
    <3> QED BY <3>2, <3>3, <3>4, LedgerStays, Zenon
  <2> QED BY <2>1, <2>2, Zenon DEF CreateRound
<1>8. LingerIsFinal'
  BY Zenon DEF CreateRound, QuorumInv, LingerIsFinal
<1>9. CommitsStandOnQuorum'
  BY CommitsStillStand, CommitsStand, Zenon DEF QuorumInv, CreateRound
<1> QED BY <1>6, <1>7, <1>8, <1>9, Zenon DEF Kept

\* A message counted into the active round leaves it backed: every vote in it
\* was sent, and a commit phase or a finalization it reaches stands on quorums
\* of votes sent, the own among them.
LEMMA CountedIsBacked ==
  ASSUME QuorumInv, QuorumArithmetic, NEW m \in net, ReachesRound(m)
  PROVE  LET c == Counted(m) IN
         /\ c \in Rounds /\ c.block = round.block /\ c.validators = round.validators
         /\ \A id \in Ids \ {LocalId} :
              /\ c.prepareVotes[id] # NoVote => id \in PrepareSenders(c.block)
              /\ c.commitVotes[id] # NoVote => id \in CommitSenders(c.block)
         /\ c.prepareVotes[LocalId] = round.prepareVotes[LocalId]
         /\ c.phase = "commit" \/ (c.phase = "finalized" /\ round.phase # "finalized") =>
              /\ c.prepareVotes[LocalId] # NoVote
              /\ HasQuorum(PrepareSenders(c.block) \cup {LocalId}, c.validators, Relaxed)
         /\ c.phase = "finalized" /\ round.phase # "finalized" =>
              HasQuorum(CommitSenders(c.block) \cup {LocalId}, c.validators, Relaxed)
<1> DEFINE c == Counted(m)
           P == PickWinningVoteGroup(c.prepareVotes)
           C == PickWinningVoteGroup(c.commitVotes)
           PS == PrepareSenders(round.block) \cup {LocalId}
           CS == CommitSenders(round.block) \cup {LocalId}
<1>1. /\ round \in Rounds /\ round # None /\ m \in PeerMessages
      /\ m.sender \in Ids \ {LocalId} /\ m.block \in Blocks /\ m.root \in Vote
      /\ m.type \in {"prepare", "commit"}
  BY CoordinatorAssumption DEF QuorumInv, TypeOK, ReachesRound
<1>2. c \in Rounds
  BY <1>1, HandlerTypes, Zenon DEF Counted
<1>3. /\ c.block = round.block /\ c.validators = round.validators
      /\ c.prepareVotes[LocalId] = round.prepareVotes[LocalId]
      /\ \A id \in Ids \ {LocalId} :
           /\ \/ c.prepareVotes[id] = round.prepareVotes[id]
              \/ m.type = "prepare" /\ id = m.sender /\ m.block = round.block
           /\ \/ c.commitVotes[id] = round.commitVotes[id]
              \/ m.type = "commit" /\ id = m.sender /\ m.block = round.block
      /\ \/ c.phase = round.phase
         \/ /\ round.phase = "prepare" /\ c.phase \in {"commit", "finalized"}
            /\ HasQuorum(P, c.validators, Relaxed)
         \/ round.phase = "commit" /\ c.phase = "finalized"
      /\ c.phase = "finalized" /\ round.phase # "finalized" => HasQuorum(C, c.validators, Relaxed)
  <2>1. \/ c = HandlePrepare(round, m.sender, m.block, m.root) /\ m.type = "prepare"
        \/ c = HandleCommit(round, m.sender, m.block, m.root) /\ m.type = "commit"
    BY <1>1, Zenon DEF Counted
  <2> HIDE DEF c
  <2> QED BY <1>1, <2>1, CountingEffect, Zenon
<1> HIDE DEF c
<1>4. \A id \in Ids \ {LocalId} :
           /\ c.prepareVotes[id] # NoVote => id \in PrepareSenders(round.block)
           /\ c.commitVotes[id] # NoVote => id \in CommitSenders(round.block)
  BY <1>1, <1>3 DEF QuorumInv, RoundIsBacked, PrepareSenders, CommitSenders
<1>5. /\ c.validators \in ValidatorSets /\ ValidatorSet(c.validators)
      /\ P \cap DOMAIN c.validators \subseteq PS
      /\ C \cap DOMAIN c.validators \subseteq CS
  BY <1>2, <1>4, CoordinatorAssumption, Zenon DEF Rounds, PickWinningVoteGroup
<1>6. ASSUME HasQuorum(P, c.validators, Relaxed)
      PROVE  c.prepareVotes[LocalId] # NoVote /\ HasQuorum(PS, c.validators, Relaxed)
  <2>1. c.prepareVotes[LocalId] # NoVote
    BY <1>5, <1>6, GroupHasOwnVote, Zenon
  <2> HIDE DEF P, PS
  <2>2. HasQuorum(PS, c.validators, Relaxed)
    BY <1>5, <1>6, Zenon DEF QuorumArithmetic
  <2> QED BY <2>1, <2>2, Zenon
<1>7. ASSUME HasQuorum(C, c.validators, Relaxed) PROVE HasQuorum(CS, c.validators, Relaxed)
  <2> HIDE DEF C, CS
  <2> QED BY <1>5, <1>7, Zenon DEF QuorumArithmetic
<1>8. round.phase = "commit" => /\ round.prepareVotes[LocalId] # NoVote
                                /\ HasQuorum(PS, round.validators, Relaxed)
  BY <1>1, Zenon DEF QuorumInv, RoundIsBacked
<1> HIDE DEF P, C, PS, CS
<1>9. c.phase = "commit" \/ (c.phase = "finalized" /\ round.phase # "finalized") =>
        c.prepareVotes[LocalId] # NoVote /\ HasQuorum(PS, c.validators, Relaxed)
  BY <1>3, <1>6, <1>8, Zenon
<1>10. c.phase = "finalized" /\ round.phase # "finalized" => HasQuorum(CS, c.validators, Relaxed)
  BY <1>3, <1>7, Zenon
<1> QED BY <1>2, <1>3, <1>4, <1>9, <1>10, Zenon DEF c, PS, CS

\* handleMessage keeps QuorumInv: buffering, dropping, counting, casting the
\* commit, finalizing.
LEMMA HandleMessageKeeps ==
  ASSUME QuorumInv, QuorumArithmetic, Grows, NEW m \in net, NEW rest, HandleMessage(m, rest)
  PROVE  Kept
<1> USE DEF roundVars, ledgerVars, sentVars, restVars
<1> DEFINE b == round.block
           h == HeightOf[b]
<1>1. CASE BufferMessage(m, rest) \/ DropMessage(m, rest)
  BY <1>1, QuietSteps, QuietKeeps, Zenon DEF Kept
<1>2. ASSUME ReachesRound(m)
      PROVE  /\ round \in Rounds /\ round # None /\ b \in Blocks /\ h \in Heights
             /\ b = Counted(m).block
  BY <1>2, HeightsType, CountedIsBacked, Zenon DEF QuorumInv, TypeOK, ReachesRound, Rounds
<1>3. ASSUME ReachesRound(m), round' = Counted(m), net' = net, sentPrepares' = sentPrepares,
             Counted(m).phase \in {round.phase, "commit"}
      PROVE  RoundIsBacked'
  <2> DEFINE c == Counted(m)
  <2>1. /\ c.block = b /\ c.validators = round.validators
        /\ \A id \in Ids \ {LocalId} :
              /\ c.prepareVotes[id] # NoVote => id \in PrepareSenders(c.block)
              /\ c.commitVotes[id] # NoVote => id \in CommitSenders(c.block)
        /\ c.prepareVotes[LocalId] = round.prepareVotes[LocalId]
        /\ c.phase = "commit" =>
              /\ c.prepareVotes[LocalId] # NoVote
              /\ HasQuorum(PrepareSenders(c.block) \cup {LocalId}, c.validators, Relaxed)
    BY <1>3, CountedIsBacked, Zenon
  <2> HIDE DEF c
  <2>2. /\ PrepareSenders(c.block) = PrepareSenders(round.block)'
        /\ CommitSenders(c.block) = CommitSenders(round.block)'
        /\ round' = c
    BY <1>3, Zenon DEF PrepareSenders, CommitSenders, c
  <2>3. /\ round.prepareVotes[LocalId] # NoVote => b \in sentPrepares /\ IsValidator(round)
        /\ c.phase \in {"propose", "prepare", "commit"}
    BY <1>2, <1>3, Zenon DEF QuorumInv, RoundIsBacked, c
  <2> QED BY <1>3, <2>1, <2>2, <2>3, Zenon DEF RoundIsBacked, IsValidator, IsKnownValidator
<1>4. ASSUME sentCommits' \subseteq sentCommits \cup {b}, finals' \subseteq finals \cup {b}, Stands(b)
      PROVE  CommitsStandOnQuorum'
  BY <1>4, CommitsStillStand, CommitsStand, Zenon DEF QuorumInv
<1>5. ASSUME ReachesRound(m), \/ Counted(m).phase = "commit"
                              \/ Counted(m).phase = "finalized" /\ round.phase # "finalized"
      PROVE  Stands(b)
  <2> DEFINE c == Counted(m)
  <2>1. /\ c \in Rounds /\ c.block = b
        /\ c.prepareVotes[LocalId] = round.prepareVotes[LocalId]
        /\ c.prepareVotes[LocalId] # NoVote
        /\ HasQuorum(PrepareSenders(c.block) \cup {LocalId}, c.validators, Relaxed)
    BY <1>5, CountedIsBacked, Zenon
  <2> QED BY <1>2, <1>5, <2>1, Zenon DEF Stands, QuorumInv, RoundIsBacked, Rounds
<1>6. CASE CountVote(m, rest)
  <2>1. RoundIsBacked'
    BY <1>3, <1>6, Zenon DEF CountVote, RecordVote
  <2>2. LedgerWasSent' /\ LingerIsFinal'
    BY <1>6, Zenon DEF CountVote, QuorumInv, LedgerWasSent, LingerIsFinal
  <2>3. CommitsStandOnQuorum'
    BY <1>6, CommitsStand, CommitsStillStand, Zenon DEF CountVote, QuorumInv
  <2> QED BY <2>1, <2>2, <2>3, Zenon DEF Kept
<1>7. CASE CastCommit(m, rest)
  <2>0. ReachesRound(m) /\ Counted(m).phase = "commit"
    BY <1>7, Zenon DEF CastCommit
  <2>1. RoundIsBacked'
    BY <1>3, <1>7, Zenon DEF CastCommit, RecordVote
  <2>2. LingerIsFinal'
    BY <1>7, Zenon DEF CastCommit, QuorumInv, LingerIsFinal
  <2>3. CommitsStandOnQuorum'
    BY <1>4, <1>5, <1>7, <2>0, Zenon DEF CastCommit
  <2>4. LedgerWasSent'
    <3>1. CASE UNCHANGED <<committed, disk, sentCommits>>
      BY <1>7, <3>1, Zenon DEF CastCommit, QuorumInv, LedgerWasSent
    <3>2. CASE RecordCommit(b) /\ sentCommits' = sentCommits \cup {b}
      <4>1. \A g \in Heights : committed'[g] \in {committed[g], b}
        BY <1>2, <2>0, <3>2, Zenon DEF RecordCommit, QuorumInv, TypeOK, Ballots
      <4>2. /\ \A g \in Heights : committed'[g] \in sentCommits' \cup {None}
            /\ UNCHANGED prepared
        BY <1>7, <3>2, <4>1, Zenon DEF QuorumInv, LedgerWasSent, CastCommit
      <4>3. \A g \in Heights : prepared'[g] \in sentPrepares' \cup {None}
        BY <4>2, Zenon DEF QuorumInv, LedgerWasSent, Grows
      <4>4. Written
        BY <3>2, <4>2, WrittenByFlush, Zenon DEF RecordCommit
      <4> QED BY <4>2, <4>3, <4>4, LedgerStays, Zenon
    <3> QED BY <1>7, <3>1, <3>2, Zenon DEF CastCommit
  <2> QED BY <2>1, <2>2, <2>3, <2>4, Zenon DEF Kept
<1>8. CASE FinalizeRound(m, rest)
  <2>0. ReachesRound(m) /\ Counted(m).phase = "finalized"
    BY <1>8, Zenon DEF FinalizeRound
  <2>1. RoundIsBacked' /\ LingerIsFinal'
    BY <1>8, Zenon DEF FinalizeRound, ClearRound, RoundIsBacked, LingerIsFinal
  <2>2. CommitsStandOnQuorum'
    <3>1. round.phase # "finalized"
      BY <1>2, <2>0, Zenon DEF QuorumInv, RoundIsBacked
    <3> QED BY <1>4, <1>5, <1>8, <2>0, <3>1, Zenon DEF FinalizeRound
  <2>3. LedgerWasSent'
    <3>1. \A g \in Heights : /\ prepared'[g] \in {prepared[g], None}
                             /\ committed'[g] \in {committed[g], None}
      BY <1>8, Zenon DEF FinalizeRound, PruneLocalVoteLedger, Above
    <3>2. Written
      BY <1>8, WrittenByFlush, Zenon DEF FinalizeRound, PruneLocalVoteLedger
    <3>3. \A g \in Heights : /\ prepared'[g] \in sentPrepares' \cup {None}
                             /\ committed'[g] \in sentCommits' \cup {None}
      BY <3>1, Zenon DEF QuorumInv, LedgerWasSent, Grows
    <3> QED BY <3>2, <3>3, LedgerStays, Zenon
  <2> QED BY <2>1, <2>2, <2>3, Zenon DEF Kept
<1> QED BY <1>1, <1>6, <1>7, <1>8, Zenon DEF HandleMessage

\* Dropping the vote ledger on a membership change leaves only sent votes in it.
LEMMA DropCachesKeeps ==
  ASSUME QuorumInv, QuorumArithmetic, Grows, DropCaches \/ UNCHANGED <<prepared, committed, disk>>
  PROVE  LedgerWasSent'
<1>1. CASE UNCHANGED <<prepared, committed, disk>>
  BY <1>1, Zenon DEF QuorumInv, LedgerWasSent, Grows
<1>2. CASE DropCaches
  <2>1. \A h \in Heights : prepared'[h] = None /\ committed'[h] = None
    BY <1>2, Zenon DEF DropCaches, NoVotes
  <2>2. Written
    BY <1>2, Zenon DEF DropCaches, Written, FlushIfChanged, Flush
  <2> QED BY <2>1, <2>2, LedgerStays, Zenon
<1> QED BY <1>1, <1>2, Zenon

\* QuorumInv is inductive, whatever interleaves, fails or crashes.
LEMMA QuorumStep ==
  ASSUME QuorumInv, QuorumArithmetic, [Next]_vars PROVE QuorumInv'
<1> USE DEF roundVars, ledgerVars, sentVars, restVars
<1>1. Grows /\ TypeOK'
  BY Growth, StepType, Zenon DEF QuorumInv
<1> SUFFICES Kept
  BY <1>1, Zenon DEF QuorumInv, Kept
<1>2. ASSUME Quiet PROVE Kept
  BY <1>1, <1>2, QuietKeeps, Zenon DEF Kept
<1>3. ASSUME NEW vs, NEW applied, UpdateValidators(vs) \/ FinishApply(applied, vs) PROVE Kept
  <2>1. round' \in {round, None} /\ (DropCaches \/ UNCHANGED <<prepared, committed, disk>>)
    BY <1>3, Zenon DEF UpdateValidators, FinishApply, DropCaches, ClearRound
  <2>2. UNCHANGED <<sentVars, linger>>
    BY <1>3, Zenon DEF UpdateValidators, FinishApply
  <2>3. RoundIsBacked' /\ LedgerWasSent' /\ LingerIsFinal'
    BY <1>1, <2>1, <2>2, DropCachesKeeps, BackedStays, Zenon DEF QuorumInv, LingerIsFinal
  <2>4. CommitsStandOnQuorum'
    BY <1>1, <2>2, CommitsStand, CommitsStillStand, Zenon DEF QuorumInv
  <2> QED BY <2>3, <2>4, Zenon DEF Kept
<1>4. CASE CrashAndRestart
  <2>1. RoundIsBacked' /\ LingerIsFinal'
    BY <1>4, Zenon DEF CrashAndRestart, ClearRound, RoundIsBacked, LingerIsFinal
  <2>2. LedgerWasSent'
    BY <1>4, Zenon DEF CrashAndRestart, QuorumInv, LedgerWasSent
  <2>3. CommitsStandOnQuorum'
    BY <1>1, <1>4, CommitsStand, CommitsStillStand, Zenon DEF QuorumInv, CrashAndRestart
  <2> QED BY <2>1, <2>2, <2>3, Zenon DEF Kept
<1>5. ASSUME NEW m \in net, NEW rest, HandleMessage(m, rest) PROVE Kept
  BY <1>1, <1>5, HandleMessageKeeps, Zenon
<1>6. (\E m \in net : Deliver(m)) \/ (\E m \in draining : Drain(m)) => Kept
  BY <1>5, Zenon DEF Deliver, Drain, QuorumInv, TypeOK
<1>7. CASE Running
  <2>1. ASSUME NEW s \in Slots, CreateRound(s) PROVE Kept
    BY <1>1, <2>1, CreateRoundKeeps, Zenon
  <2>2. ASSUME CommitRetry \/ PrepareRetry \/ LingerTick \/ ReplayUnfinalizedVotes PROVE Kept
    BY <1>1, <2>2, ResendSteps, Zenon
  <2>3. \/ Quiet
        \/ \E s \in Slots : CreateRound(s)
        \/ (\E m \in net : Deliver(m)) \/ (\E m \in draining : Drain(m))
        \/ CommitRetry \/ PrepareRetry \/ LingerTick \/ ReplayUnfinalizedVotes
        \/ \E vs, applied : UpdateValidators(vs) \/ FinishApply(applied, vs)
    BY <1>7, QuietSteps, Zenon DEF Running
  <2> QED BY <1>2, <1>3, <1>6, <2>1, <2>2, <2>3, Zenon
<1>8. CASE ForceClearRound \/ Stop \/ UNCHANGED vars
  BY <1>2, <1>8, QuietSteps, Zenon
<1> QED BY <1>4, <1>7, <1>8, Zenon DEF Next

\* The constructor establishes QuorumInv.
LEMMA QuorumInit == Init => QuorumInv
<1> SUFFICES ASSUME Init PROVE QuorumInv
  BY Zenon
<1>1. TypeOK
  BY CoordinatorAssumption, Zenon DEF Init, TypeOK, NoVotes, Ballots
<1> QED BY <1>1, Zenon DEF Init, QuorumInv, RoundIsBacked, LedgerWasSent, LingerIsFinal,
           CommitsStandOnQuorum, NoVotes
------------------------------------------------------------------------------
\* The own votes.

\* Governance changes stakes but not who is a validator. (updateValidators drops
\* the vote ledger when the membership changes.)
SteadyMembership == \A vs, ws \in ValidatorSets : DOMAIN vs = DOMAIN ws

\* The ledger file is the working copy: no write has failed.
DiskIsCurrent == disk = [prepared |-> prepared, committed |-> committed]

\* A ledger entry of a height is a block of that height.
LedgerFits ==
  \A h \in Heights : /\ prepared[h] # None => HeightOf[prepared[h]] = h
                     /\ committed[h] # None => HeightOf[committed[h]] = h

\* The chain and this validator have not decided height h.
Open(h) == h > Max(lastFinalized, tip)
\* Every vote sent for an open height is in the ledger.
VotesAreRecorded ==
  /\ \A b \in sentPrepares : Open(HeightOf[b]) => prepared[HeightOf[b]] = b
  /\ \A b \in sentCommits : Open(HeightOf[b]) => committed[HeightOf[b]] = b

\* At most one block of a height was prepared here, decided or not.
OnePrepare == \A a, b \in sentPrepares : SameHeight(a, b) => a = b

\* A startRound call before its first check has read the current
\* lastFinalizedHeight; one that has passed the Phase R guard is above it and
\* holds the only block prepared at its height; and two calls are never inside
\* their guards together.
CallsAreSafe ==
  /\ \A s \in Slots : calls[s] # None =>
       /\ calls[s].pc = "floor" => calls[s].floor = lastFinalized
       /\ calls[s].pc = "root" =>
            /\ HeightOf[calls[s].block] > lastFinalized
            /\ \A a \in sentPrepares : SameHeight(a, calls[s].block) => a = calls[s].block
  /\ \A s, t \in Slots :
       calls[s] # None /\ calls[s].pc # "sent" /\ calls[t] # None /\ calls[t].pc # "sent" => s = t

\* The active round is above lastFinalizedHeight; in its commit phase its commit
\* has been recorded and sent; lingering votes are of decided heights.
RoundIsOpen ==
  /\ round # None => /\ RoundHeight > lastFinalized
                     /\ round.phase = "commit" => /\ round.block \in sentCommits
                                                  /\ committed[RoundHeight] = round.block
  /\ linger # None => HeightOf[linger] <= lastFinalized

\* The inductive invariant behind NoDoubleVote and VotesAreOnDisk.
VoteInv ==
  QuorumInv /\ DiskIsCurrent /\ LedgerFits /\ VotesAreRecorded /\ OnePrepare /\ CallsAreSafe /\ RoundIsOpen

\* No startRound is overtaken inside its guards, no ledger write or chain-height
\* read fails, no crash falls between finalization and applyBlock, and the
\* membership is steady.
Undisturbed == Trouble = {} /\ SteadyMembership

\* What a step has to keep of VoteInv besides QuorumInv.
VoteKept ==
  DiskIsCurrent' /\ LedgerFits' /\ VotesAreRecorded' /\ OnePrepare' /\ CallsAreSafe' /\ RoundIsOpen'

\* To exceed Math.max is to exceed both.
LEMMA MaxGreater ==
  ASSUME NEW m \in Nat, NEW n \in Nat, NEW h \in Nat
  PROVE  h > Max(m, n) <=> h > m /\ h > n
BY DEF Max

\* With nothing interleaved a call begins when no other is in its guards.
LEMMA CallsBegin ==
  ASSUME Undisturbed, TypeOK, CallsAreSafe, Free, NEW b, BeginCall(b, lastFinalized),
         UNCHANGED <<lastFinalized, sentPrepares>>
  PROVE  CallsAreSafe'
<1>1. \A s \in Slots : calls[s] # None => calls[s].pc = "sent"
  BY Zenon DEF Free, Undisturbed
<1>2. CASE UNCHANGED calls
  BY <1>2, Zenon DEF CallsAreSafe
<1>3. CASE ~UNCHANGED calls
  <2>1. PICK s \in Slots : calls' = [calls EXCEPT ![s] =
              [block |-> b, pc |-> "floor", floor |-> lastFinalized, validators |-> validators]]
    BY <1>3, Zenon DEF BeginCall
  <2>2. \A t \in Slots : calls'[t] = IF t = s
          THEN [block |-> b, pc |-> "floor", floor |-> lastFinalized, validators |-> validators]
          ELSE calls[t]
    BY <2>1, Zenon DEF TypeOK
  <2>3. \A t \in Slots \ {s} : calls'[t] # None => calls'[t].pc = "sent"
    BY <1>1, <2>2, Zenon
  <2>4. calls'[s].pc = "floor" /\ calls'[s].floor = lastFinalized'
    BY <2>2
  <2> QED BY <2>3, <2>4, Zenon DEF CallsAreSafe
<1> QED BY <1>2, <1>3, Zenon

\* A startRound call that ends leaves the others safe.
LEMMA CallsEnd ==
  ASSUME TypeOK, CallsAreSafe, NEW s \in Slots, EndCall(s), UNCHANGED <<lastFinalized, sentPrepares>>
  PROVE  CallsAreSafe'
<1>1. \A t \in Slots : calls'[t] = IF t = s THEN None ELSE calls[t]
  BY Zenon DEF EndCall, TypeOK
<1> QED BY <1>1, Zenon DEF CallsAreSafe

\* The steps that neither vote nor finalize.
Silent ==
  /\ round' \in {round, None}
  /\ UNCHANGED <<sentVars, prepared, committed, disk, lastFinalized>>
  /\ linger' \in {linger, None}
  /\ tip' >= tip

\* Such a step keeps VoteInv if it keeps the calls safe.
LEMMA SilentKeeps ==
  ASSUME VoteInv, TypeOK', Silent, CallsAreSafe' PROVE VoteKept
<1> USE DEF sentVars
<1>1. DiskIsCurrent' /\ LedgerFits' /\ OnePrepare'
  BY Zenon DEF VoteInv, Silent, DiskIsCurrent, LedgerFits, OnePrepare, SameHeight
<1>2. \A b \in Blocks : Open(HeightOf[b])' => Open(HeightOf[b])
  <2>1. \A b \in Blocks : HeightOf[b] \in Nat
    BY CoordinatorAssumption, Zenon
  <2> QED BY <2>1, MaxGreater DEF Open, Silent, VoteInv, QuorumInv, TypeOK
<1>3. VotesAreRecorded'
  BY <1>2, Zenon DEF VoteInv, QuorumInv, TypeOK, Silent, VotesAreRecorded
<1>4. RoundIsOpen'
  BY Zenon DEF VoteInv, Silent, RoundIsOpen, RoundHeight
<1> QED BY <1>1, <1>3, <1>4, Zenon DEF VoteKept

\* The staleness check and the Phase R guard of startRound let a block through
\* only if nothing else was prepared at its height.
LEMMA CheckStartVotes ==
  ASSUME Undisturbed, VoteInv, TypeOK', NEW s \in Slots, CheckStart(s) PROVE VoteKept
<1> USE DEF roundVars, ledgerVars, chainVars, sentVars, peerVars, restVars
<1> DEFINE b == calls[s].block
<1>1. Silent
  BY DEF CheckStart, Silent, ClearRound, VoteInv, QuorumInv, TypeOK
<1>2. CASE EndCall(s)
  <2>1. CallsAreSafe'
    BY <1>2, CallsEnd, Zenon DEF CheckStart, VoteInv, QuorumInv
  <2> QED BY <1>1, <2>1, SilentKeeps, Zenon
<1>3. CASE ~EndCall(s)
  <2> DEFINE c == [calls[s] EXCEPT !.pc = "root", !.validators = validators]
  <2>1. calls[s] \in Calls /\ calls[s].pc = "floor" /\ calls[s] # None /\ b \in Blocks
        /\ HeightOf[b] \in Heights /\ HeightOf[b] \in Nat
    BY CoordinatorAssumption, HeightsType, Zenon DEF CheckStart, VoteInv, QuorumInv, TypeOK, Calls
  <2>2. PICK floor \in StalenessFloors(calls[s]) :
          /\ HeightOf[b] > floor /\ ~RefusesSelfEquivocation(b)
          /\ calls' = [calls EXCEPT ![s].pc = "root", ![s].validators = validators]
    BY <1>3, Zenon DEF CheckStart
  <2>3. calls[s].floor = lastFinalized
    BY <2>1, Zenon DEF VoteInv, CallsAreSafe
  <2>4. floor = Max(lastFinalized, tip)
    BY <2>2, <2>3, Zenon DEF StalenessFloors, Undisturbed
  <2>5. Open(HeightOf[b])
    BY <2>2, <2>4, Zenon DEF Open
  <2>6. HeightOf[b] > lastFinalized
    BY <2>1, <2>5, MaxGreater, Zenon DEF Open, VoteInv, QuorumInv, TypeOK
  <2>7. \A a \in sentPrepares : SameHeight(a, b) => a = b
    BY <2>2, <2>5, CoordinatorAssumption, Zenon
       DEF VoteInv, VotesAreRecorded, RefusesSelfEquivocation, SameHeight, QuorumInv, TypeOK
  <2>8. calls' = [calls EXCEPT ![s] = c]
    BY <2>2, Zenon DEF VoteInv, QuorumInv, TypeOK
  <2>9. c # None => c.pc = "root" /\ c.block = b
    BY <2>1, Zenon DEF Calls
  <2> HIDE DEF c
  <2>10. \A t \in Slots : calls'[t] = IF t = s THEN c ELSE calls[t]
    BY <2>8, Zenon DEF VoteInv, QuorumInv, TypeOK
  <2>11. \A t \in Slots \ {s} : calls[t] # None => calls[t].pc = "sent"
    BY <2>1, Zenon DEF VoteInv, CallsAreSafe
  <2>12. UNCHANGED <<lastFinalized, sentPrepares>>
    BY Zenon DEF CheckStart
  <2>13. CallsAreSafe'
    BY <2>6, <2>7, <2>9, <2>10, <2>11, <2>12, Zenon DEF CallsAreSafe, SameHeight
  <2> QED BY <1>1, <2>13, SilentKeeps, Zenon
<1> QED BY <1>2, <1>3, Zenon

\* Every other step that neither votes nor finalizes.
LEMMA SilentSteps ==
  ASSUME Undisturbed, VoteInv, TypeOK',
         \/ \E b \in Blocks : ProposeBlock(b) \/ ReceiveBlock(b)
         \/ \E s \in Slots : ArmRound(s)
         \/ \E m \in PeerMessages : PeerSends(m)
         \/ \E m, rest : BufferMessage(m, rest) \/ DropMessage(m, rest)
         \/ Timeout \/ LeakedTimerFires \/ LivenessWatchdog \/ ForceClearRound \/ AdoptBlock \/ Stop
         \/ \E vs \in ValidatorSets : UpdateValidators(vs)
         \/ \E applied \in BOOLEAN, vs \in ValidatorSets : FinishApply(applied, vs)
         \/ UNCHANGED vars
  PROVE  VoteKept
<1> USE DEF roundVars, ledgerVars, chainVars, sentVars, peerVars, restVars
<1> SUFFICES Silent /\ CallsAreSafe'
  BY SilentKeeps, Zenon
<1>1. lastFinalized \in Nat /\ tip \in Nat /\ TypeOK /\ CallsAreSafe
  BY Zenon DEF VoteInv, QuorumInv, TypeOK
<1>2. ASSUME UNCHANGED <<calls, lastFinalized, sentPrepares>> PROVE CallsAreSafe'
  BY <1>1, <1>2, Zenon DEF CallsAreSafe
<1>3. ASSUME NEW b \in Blocks, ProposeBlock(b) \/ ReceiveBlock(b) PROVE Silent /\ CallsAreSafe'
  <2>1. Silent
    <3>1. /\ round' \in {round, None} /\ linger' = linger /\ tip' = tip
          /\ UNCHANGED <<sentVars, prepared, committed, disk, lastFinalized>>
      BY <1>3, Zenon DEF ProposeBlock, ReceiveBlock, ClearRound
    <3> QED BY <1>1, <3>1 DEF Silent
  <2>2. /\ Free /\ UNCHANGED <<lastFinalized, sentPrepares>>
        /\ UNCHANGED calls \/ BeginCall(b, lastFinalized)
    BY <1>3, Zenon DEF ProposeBlock, ReceiveBlock
  <2> QED BY <1>1, <1>2, <2>1, <2>2, CallsBegin, Zenon
<1>4. ASSUME NEW s \in Slots, ArmRound(s) PROVE Silent /\ CallsAreSafe'
  <2>1. Silent
    <3>1. /\ round' \in {round, None} /\ linger' = linger /\ tip' = tip
          /\ UNCHANGED <<sentVars, prepared, committed, disk, lastFinalized>>
      BY <1>4, Zenon DEF ArmRound
    <3> QED BY <1>1, <3>1 DEF Silent
  <2> QED BY <1>1, <1>4, <2>1, CallsEnd, Zenon DEF ArmRound
<1>5. ASSUME NEW m, NEW rest, PeerSends(m) \/ BufferMessage(m, rest) \/ DropMessage(m, rest)
      PROVE  Silent /\ CallsAreSafe'
  BY <1>1, <1>2, <1>5 DEF PeerSends, BufferMessage, DropMessage, Silent
<1>6. CASE Timeout \/ LivenessWatchdog
  <2>1. Silent
    <3>1. CASE Timeout
      BY <1>1, <3>1 DEF Timeout, ClearRound, Silent
    <3>2. CASE LivenessWatchdog
      BY <1>1, <3>2 DEF LivenessWatchdog, ClearRound, Silent
    <3> QED BY <1>6, <3>1, <3>2, Zenon
  <2>2. Free /\ UNCHANGED <<lastFinalized, sentPrepares>>
    BY <1>6, Zenon DEF Timeout, LivenessWatchdog
  <2>3. ReenterOrProcess(RoundHeight, deferred) \/ ReenterOrProcess(RoundHeight, None)
    BY <1>6, Zenon DEF Timeout, LivenessWatchdog
  <2>4. \E b : BeginCall(b, lastFinalized)
    BY <2>3, Zenon DEF ReenterOrProcess
  <2> QED BY <1>1, <2>1, <2>2, <2>4, CallsBegin, Zenon
<1>7. CASE LeakedTimerFires \/ ForceClearRound \/ AdoptBlock \/ Stop \/ UNCHANGED vars
  <2>1. Silent
    <3>1. CASE LeakedTimerFires
      BY <1>1, <3>1 DEF LeakedTimerFires, Silent, ClearRound
    <3>2. CASE ForceClearRound
      BY <1>1, <3>2 DEF ForceClearRound, ClearRound, Silent
    <3>3. CASE AdoptBlock
      BY <1>1, <3>3 DEF AdoptBlock, Silent, ClearRound
    <3>4. CASE Stop
      BY <1>1, <3>4 DEF Stop, Silent, ClearRound
    <3>5. CASE UNCHANGED vars
      BY <1>1, <3>5 DEF vars, Silent
    <3> QED BY <1>7, <3>1, <3>2, <3>3, <3>4, <3>5
  <2>2. UNCHANGED <<calls, lastFinalized, sentPrepares>>
    BY <1>7, Zenon DEF LeakedTimerFires, ForceClearRound, AdoptBlock, Stop, vars
  <2> QED BY <1>2, <2>1, <2>2, Zenon
<1>8. \A vs \in ValidatorSets : ~MembershipChanges(vs)
  BY <1>1, Zenon DEF MembershipChanges, Undisturbed, SteadyMembership, TypeOK
<1>9. ASSUME NEW vs \in ValidatorSets, UpdateValidators(vs) PROVE Silent /\ CallsAreSafe'
  BY <1>1, <1>2, <1>8, <1>9 DEF UpdateValidators, Silent
<1>10. ASSUME NEW applied \in BOOLEAN, NEW vs \in ValidatorSets, FinishApply(applied, vs)
       PROVE  Silent /\ CallsAreSafe'
  <2>1. Silent
    BY <1>1, <1>8, <1>10 DEF FinishApply, Silent
  <2>2. Free /\ BeginCall(deferred, lastFinalized) /\ UNCHANGED <<lastFinalized, sentPrepares>>
    BY <1>8, <1>10, Zenon DEF FinishApply
  <2> QED BY <1>1, <2>1, <2>2, CallsBegin, Zenon
<1> QED BY <1>3, <1>4, <1>5, <1>6, <1>7, <1>9, <1>10

\* A flush that does not fail keeps the file current.
LEMMA FlushedDisk ==
  ASSUME Undisturbed, DiskIsCurrent, NEW p, NEW c, p = prepared', c = committed', FlushIfChanged(p, c)
  PROVE  DiskIsCurrent'
BY Zenon DEF Undisturbed, FlushIfChanged, Flush, DiskIsCurrent

\* The prepare vote startRound casts is the only one at its height, and is
\* written before it is sent.
LEMMA CreateRoundVotes ==
  ASSUME Undisturbed, VoteInv, NEW s \in Slots, CreateRound(s) PROVE VoteKept
<1> USE DEF roundVars, ledgerVars, chainVars, sentVars, peerVars, restVars
<1> DEFINE b == calls[s].block
           vs == calls[s].validators
           h == HeightOf[b]
<1>1. /\ calls[s] # None /\ calls[s].pc = "root"
      /\ calls[s] \in Calls /\ b \in Blocks /\ vs \in ValidatorSets /\ h \in Heights
  BY HeightsType, Zenon DEF CreateRound, VoteInv, QuorumInv, TypeOK, Calls
<1>2. /\ h > lastFinalized
      /\ \A a \in sentPrepares : SameHeight(a, b) => a = b
  BY <1>1, Zenon DEF VoteInv, CallsAreSafe
<1>3. \/ UNCHANGED <<prepared, preparedBlock, disk, sentPrepares>>
      \/ RecordPrepare(b) /\ sentPrepares' = sentPrepares \cup {b}
  BY Zenon DEF CreateRound
<1>4. UNCHANGED <<committed, sentCommits, lastFinalized, tip, linger>>
  BY Zenon DEF CreateRound
<1>5. DiskIsCurrent'
  BY <1>3, <1>4, FlushedDisk, Zenon DEF RecordPrepare, VoteInv, DiskIsCurrent
<1>6. \/ prepared' = prepared /\ sentPrepares' = sentPrepares
      \/ prepared' = [prepared EXCEPT ![h] = b] /\ sentPrepares' = sentPrepares \cup {b}
  BY <1>3, Zenon DEF RecordPrepare
<1>7. prepared \in Ballots /\ sentPrepares \subseteq Blocks
  BY Zenon DEF VoteInv, QuorumInv, TypeOK
<1>8. LedgerFits'
  BY <1>1, <1>4, <1>6, <1>7 DEF VoteInv, LedgerFits, Ballots
<1>9. OnePrepare'
  BY <1>2, <1>6, Zenon DEF VoteInv, OnePrepare, SameHeight
<1>10. VotesAreRecorded'
  <2>1. \A a : Open(HeightOf[a])' = Open(HeightOf[a])
    BY <1>4, Zenon DEF Open
  <2>2. CASE prepared' = prepared /\ sentPrepares' = sentPrepares
    BY <1>4, <2>1, <2>2, Zenon DEF VoteInv, VotesAreRecorded
  <2>3. CASE prepared' = [prepared EXCEPT ![h] = b] /\ sentPrepares' = sentPrepares \cup {b}
    <3>1. prepared'[h] = b /\ \A g \in Heights \ {h} : prepared'[g] = prepared[g]
      BY <1>1, <1>7, <2>3, Zenon DEF Ballots
    <3>2. \A a \in sentPrepares : HeightOf[a] \in Heights
      BY <1>7, HeightsType, Zenon
    <3> QED BY <1>2, <1>4, <2>1, <2>3, <3>1, <3>2, Zenon DEF VoteInv, VotesAreRecorded, SameHeight
  <2> QED BY <1>6, <2>2, <2>3, Zenon
<1>11. RoundIsOpen'
  <2>1. round'.block = b /\ round'.phase # "commit"
    BY <1>1, NewRoundType, RoundAssumption DEF CreateRound, HandlePropose, NewRound, Rounds
  <2> QED BY <1>2, <1>4, <2>1, Zenon DEF VoteInv, RoundIsOpen, RoundHeight
<1>12. CallsAreSafe'
  <2> DEFINE c == [calls[s] EXCEPT !.pc = "sent"]
  <2>1. calls' = [calls EXCEPT ![s] = c]
    BY Zenon DEF CreateRound, VoteInv, QuorumInv, TypeOK
  <2>2. c.pc = "sent"
    BY <1>1, Zenon DEF Calls
  <2> HIDE DEF c
  <2>3. \A t \in Slots : calls'[t] = IF t = s THEN c ELSE calls[t]
    BY <2>1, Zenon DEF VoteInv, QuorumInv, TypeOK
  <2>4. \A t \in Slots \ {s} : calls[t] # None => calls[t].pc = "sent"
    BY <1>1, Zenon DEF VoteInv, CallsAreSafe
  <2>5. \A t \in Slots : calls'[t] # None => calls'[t].pc = "sent"
    BY <2>2, <2>3, <2>4, Zenon
  <2> QED BY <2>5, Zenon DEF CallsAreSafe
<1> QED BY <1>5, <1>8, <1>9, <1>10, <1>11, <1>12 DEF VoteKept

\* A timer, or the replay after a restart, sends nothing new but the commit of
\* a finalized block.
LEMMA ResentVotes ==
  ASSUME VoteInv, CommitRetry \/ PrepareRetry \/ LingerTick \/ ReplayUnfinalizedVotes
  PROVE  /\ sentPrepares' = sentPrepares
         /\ \A b \in sentCommits' \ sentCommits : b = linger /\ linger # None
<1>1. sentPrepares' = sentPrepares
  <2>1. ASSUME PrepareRetry PROVE round.block \in sentPrepares
    BY <2>1, HeightsType, CoordinatorAssumption, Zenon
       DEF PrepareRetry, VoteInv, QuorumInv, TypeOK, Rounds, LedgerWasSent
  <2>2. {prepared[h] : h \in Heights} \subseteq sentPrepares \cup {None}
    BY Zenon DEF VoteInv, QuorumInv, LedgerWasSent
  <2> QED BY <2>1, <2>2, Zenon DEF CommitRetry, PrepareRetry, LingerTick, ReplayUnfinalizedVotes
<1>2. \A b \in sentCommits' \ sentCommits : b = linger /\ linger # None
  <2>1. ASSUME CommitRetry PROVE round.block \in sentCommits
    BY <2>1, Zenon DEF CommitRetry, VoteInv, RoundIsOpen
  <2>2. ASSUME PrepareRetry, committed[HeightOf[round.block]] = round.block
        PROVE  round.block \in sentCommits
    BY <2>2, HeightsType, CoordinatorAssumption, Zenon
       DEF PrepareRetry, VoteInv, QuorumInv, TypeOK, Rounds, LedgerWasSent
  <2>3. {committed[h] : h \in Heights} \subseteq sentCommits \cup {None}
    BY Zenon DEF VoteInv, QuorumInv, LedgerWasSent
  <2> QED BY <2>1, <2>2, <2>3, Zenon DEF CommitRetry, PrepareRetry, LingerTick, ReplayUnfinalizedVotes
<1> QED BY <1>1, <1>2, Zenon

\* The retry timers, the linger timer and the replay keep VoteInv.
LEMMA ResendVotes ==
  ASSUME VoteInv, CommitRetry \/ PrepareRetry \/ LingerTick \/ ReplayUnfinalizedVotes
  PROVE  VoteKept
<1> USE DEF roundVars, ledgerVars, chainVars, sentVars, peerVars, restVars
<1>1. UNCHANGED <<round, calls, prepared, committed, disk, lastFinalized, tip>>
  BY Zenon DEF CommitRetry, PrepareRetry, LingerTick, ReplayUnfinalizedVotes
<1>2. sentPrepares' = sentPrepares
  BY ResentVotes, Zenon
<1>3. \A b \in sentCommits' \ sentCommits : b = linger /\ linger # None
  BY ResentVotes, Zenon
<1>4. sentCommits \subseteq sentCommits' /\ linger' \in {linger, None}
  BY Zenon DEF CommitRetry, PrepareRetry, LingerTick, ReplayUnfinalizedVotes
<1>5. DiskIsCurrent' /\ LedgerFits' /\ OnePrepare' /\ CallsAreSafe'
  BY <1>1, <1>2, Zenon DEF VoteInv, DiskIsCurrent, LedgerFits, OnePrepare, CallsAreSafe, SameHeight
<1>6. RoundIsOpen'
  BY <1>1, <1>4, Zenon DEF VoteInv, RoundIsOpen, RoundHeight
<1>7. VotesAreRecorded'
  <2>1. \A a : Open(HeightOf[a])' = Open(HeightOf[a])
    BY <1>1, Zenon DEF Open
  <2>2. linger # None => ~Open(HeightOf[linger])
    BY MaxGreater, CoordinatorAssumption DEF Open, VoteInv, QuorumInv, TypeOK, RoundIsOpen
  <2>3. \A b \in sentCommits' \ sentCommits : ~Open(HeightOf[b])
    BY <1>3, <2>2, Zenon
  <2> QED BY <1>1, <1>2, <2>1, <2>3, Zenon DEF VoteInv, VotesAreRecorded
<1> QED BY <1>5, <1>6, <1>7, Zenon DEF VoteKept

\* A round enters its commit phase with the own commit recorded and sent.
LEMMA CastCommitVotes ==
  ASSUME Undisturbed, VoteInv, QuorumArithmetic, NEW m \in net, NEW rest, CastCommit(m, rest)
  PROVE  VoteKept
<1> USE DEF roundVars, ledgerVars, chainVars, sentVars, peerVars, restVars
<1> DEFINE b == round.block
           h == HeightOf[b]
           c == Counted(m)
<1>1. /\ ReachesRound(m) /\ round # None /\ round \in Rounds /\ b \in Blocks /\ h \in Heights
      /\ round' = c /\ c.phase = "commit"
  BY HeightsType, Zenon DEF CastCommit, ReachesRound, VoteInv, QuorumInv, TypeOK, Rounds
<1>2. /\ c.block = b
      /\ round.prepareVotes[LocalId] # NoVote
  BY <1>1, CountedIsBacked, Zenon DEF VoteInv
<1>3. b \in sentPrepares /\ IsValidator(round)
  BY <1>1, <1>2, Zenon DEF VoteInv, QuorumInv, RoundIsBacked
<1>4. sentCommits \subseteq sentPrepares
  BY Zenon DEF VoteInv, QuorumInv, CommitsStandOnQuorum
<1>5. committed[h] \in {None, b}
  <2>1. committed[h] # None => committed[h] \in sentCommits /\ HeightOf[committed[h]] = h
    BY <1>1, Zenon DEF VoteInv, QuorumInv, LedgerWasSent, LedgerFits
  <2> QED BY <1>3, <1>4, <2>1, Zenon DEF VoteInv, OnePrepare, SameHeight
<1>6. RecordCommit(b) /\ sentCommits' = sentCommits \cup {b}
  BY <1>3, <1>5, Zenon DEF CastCommit
<1>7. UNCHANGED <<prepared, sentPrepares, lastFinalized, tip, linger, calls>>
  BY Zenon DEF CastCommit
<1>8. DiskIsCurrent'
  BY <1>6, <1>7, FlushedDisk, Zenon DEF RecordCommit, VoteInv
<1>9. committed'[h] = b /\ \A g \in Heights \ {h} : committed'[g] = committed[g]
  BY <1>1, <1>6, Zenon DEF RecordCommit, VoteInv, QuorumInv, TypeOK, Ballots
<1>10. LedgerFits' /\ OnePrepare' /\ CallsAreSafe'
  BY <1>7, <1>9, Zenon DEF VoteInv, LedgerFits, OnePrepare, CallsAreSafe, SameHeight
<1>11. VotesAreRecorded'
  <2>1. \A a : Open(HeightOf[a])' = Open(HeightOf[a])
    BY <1>7, Zenon DEF Open
  <2>2. \A a \in sentCommits : HeightOf[a] \in Heights /\ (HeightOf[a] = h => a = b)
    BY <1>3, <1>4, HeightsType, Zenon DEF VoteInv, OnePrepare, SameHeight, QuorumInv, TypeOK
  <2> QED BY <1>6, <1>7, <1>9, <2>1, <2>2, Zenon DEF VoteInv, VotesAreRecorded
<1>12. RoundIsOpen'
  <2>1. RoundHeight' = h /\ round'.block = b
    BY <1>1, <1>2, Zenon DEF RoundHeight
  <2> QED BY <1>1, <1>6, <1>7, <1>9, <2>1, Zenon DEF VoteInv, RoundIsOpen, RoundHeight
<1> QED BY <1>8, <1>10, <1>11, <1>12, Zenon DEF VoteKept

\* Counting a vote that completes no quorum keeps VoteInv.
LEMMA CountVoteVotes ==
  ASSUME VoteInv, QuorumArithmetic, NEW m \in net, NEW rest, CountVote(m, rest) PROVE VoteKept
<1> USE DEF roundVars, ledgerVars, chainVars, sentVars, peerVars, restVars
<1>1. /\ round # None /\ round'.block = round.block /\ round'.phase = round.phase
  BY CountedIsBacked, Zenon DEF CountVote, ReachesRound, VoteInv
<1>2. UNCHANGED <<prepared, committed, disk, sentPrepares, sentCommits, lastFinalized, tip, linger, calls>>
  BY Zenon DEF CountVote
<1>3. RoundIsOpen'
  BY <1>1, <1>2, Zenon DEF VoteInv, RoundIsOpen, RoundHeight
<1>4. DiskIsCurrent' /\ LedgerFits' /\ OnePrepare' /\ CallsAreSafe' /\ VotesAreRecorded'
  BY <1>2, Zenon DEF VoteInv, DiskIsCurrent, LedgerFits, OnePrepare, CallsAreSafe, SameHeight,
     VotesAreRecorded, Open
<1> QED BY <1>3, <1>4, Zenon DEF VoteKept

\* Finalizing closes the height: pruning the ledger up to it forgets no vote for
\* an open height.
LEMMA FinalizeVotes ==
  ASSUME Undisturbed, VoteInv, NEW m \in net, NEW rest, Free, FinalizeRound(m, rest) PROVE VoteKept
<1> USE DEF roundVars, ledgerVars, chainVars, sentVars, peerVars, restVars
<1> DEFINE b == round.block
           h == HeightOf[b]
<1>1. /\ round # None /\ round \in Rounds /\ b \in Blocks /\ h \in Heights /\ h \in Nat
  BY HeightsType, Zenon DEF FinalizeRound, ReachesRound, VoteInv, QuorumInv, TypeOK, Rounds
<1>2. h > lastFinalized
  BY <1>1, Zenon DEF VoteInv, RoundIsOpen, RoundHeight
<1>3. /\ lastFinalized' = h /\ linger' = b /\ round' = None
      /\ UNCHANGED <<sentPrepares, sentCommits, tip, calls>>
      /\ prepared' = Above(prepared, h) /\ committed' = Above(committed, h)
      /\ FlushIfChanged(prepared', committed')
  BY Zenon DEF FinalizeRound, ClearRound, PruneLocalVoteLedger
<1>4. DiskIsCurrent'
  BY <1>3, FlushedDisk, Zenon DEF VoteInv
<1>5. \A g \in Heights : /\ prepared'[g] = IF g <= h THEN None ELSE prepared[g]
                         /\ committed'[g] = IF g <= h THEN None ELSE committed[g]
  BY <1>3, Zenon DEF Above
<1>6. LedgerFits' /\ OnePrepare'
  BY <1>3, <1>5, Zenon DEF VoteInv, LedgerFits, OnePrepare, SameHeight
<1>7. \A s \in Slots : calls'[s] # None => calls'[s].pc = "sent"
  BY <1>3, Zenon DEF Free, Undisturbed
<1>8. CallsAreSafe'
  BY <1>7, Zenon DEF CallsAreSafe
<1>9. RoundIsOpen'
  BY <1>1, <1>3 DEF RoundIsOpen
<1>10. VotesAreRecorded'
  <2>1. \A g \in Heights : g \in Nat /\ (Open(g)' => Open(g) /\ g > h)
    BY <1>1, <1>2, <1>3, HeightsType, MaxGreater DEF Open, VoteInv, QuorumInv, TypeOK
  <2>2. \A g \in Heights : Open(g)' => /\ Open(g)
                                       /\ prepared'[g] = prepared[g] /\ committed'[g] = committed[g]
    BY <1>1, <1>5, <2>1
  <2>3. \A a \in sentPrepares \cup sentCommits : HeightOf[a] \in Heights
    BY HeightsType, Zenon DEF VoteInv, QuorumInv, TypeOK
  <2> QED BY <1>3, <2>2, <2>3, Zenon DEF VoteInv, VotesAreRecorded
<1> QED BY <1>4, <1>6, <1>8, <1>9, <1>10, Zenon DEF VoteKept

\* A restart rehydrates the ledger from its file and knows every vote for an
\* open height, although lastFinalizedHeight starts again from 0.
LEMMA CrashVotes ==
  ASSUME Undisturbed, VoteInv, CrashAndRestart PROVE VoteKept
<1> USE DEF roundVars, ledgerVars, chainVars, sentVars, peerVars, restVars
<1>1. /\ tip >= lastFinalized /\ lastFinalized' = 0 /\ UNCHANGED <<disk, tip, sentPrepares, sentCommits>>
      /\ round' = None /\ linger' = None /\ calls' = [s \in Slots |-> None]
  BY Zenon DEF CrashAndRestart, ClearRound, Undisturbed
<1>2. prepared' = prepared /\ committed' = committed
  BY Zenon DEF CrashAndRestart, VoteInv, DiskIsCurrent
<1>3. DiskIsCurrent' /\ LedgerFits' /\ OnePrepare' /\ CallsAreSafe' /\ RoundIsOpen'
  BY <1>1, <1>2, Zenon DEF VoteInv, DiskIsCurrent, LedgerFits, OnePrepare, CallsAreSafe, SameHeight, RoundIsOpen
<1>4. \A h \in Heights : Open(h)' => Open(h)
  BY <1>1, HeightsType, MaxGreater DEF Open, VoteInv, QuorumInv, TypeOK
<1>5. \A a \in sentPrepares \cup sentCommits : HeightOf[a] \in Heights
  BY HeightsType, Zenon DEF VoteInv, QuorumInv, TypeOK
<1>6. VotesAreRecorded'
  BY <1>1, <1>2, <1>4, <1>5, Zenon DEF VoteInv, VotesAreRecorded
<1> QED BY <1>3, <1>6, Zenon DEF VoteKept

\* VoteInv is inductive.
LEMMA VoteStep ==
  ASSUME Undisturbed, QuorumArithmetic, VoteInv, [Next]_vars PROVE VoteInv'
<1>1. QuorumInv' /\ TypeOK'
  BY QuorumStep, Zenon DEF VoteInv, QuorumInv
<1> SUFFICES VoteKept
  BY <1>1, Zenon DEF VoteInv, VoteKept
<1>2. ASSUME NEW m \in net, NEW rest, Free, HandleMessage(m, rest) PROVE VoteKept
  BY <1>1, <1>2, SilentSteps, CountVoteVotes, CastCommitVotes, FinalizeVotes, Zenon DEF HandleMessage
<1>3. (\E m \in net : Deliver(m)) \/ (\E m \in draining : Drain(m)) => VoteKept
  BY <1>2, Zenon DEF Deliver, Drain, VoteInv, QuorumInv, TypeOK
<1>4. (\E s \in Slots : CheckStart(s) \/ CreateRound(s)) => VoteKept
  BY <1>1, CheckStartVotes, CreateRoundVotes, Zenon
<1>5. CommitRetry \/ PrepareRetry \/ LingerTick \/ ReplayUnfinalizedVotes => VoteKept
  BY ResendVotes, Zenon
<1>6. CrashAndRestart => VoteKept
  BY CrashVotes, Zenon
<1>7. CASE Running
  BY <1>1, <1>3, <1>4, <1>5, <1>7, SilentSteps DEF Running
<1>8. CASE ForceClearRound \/ Stop \/ UNCHANGED vars
  BY <1>1, <1>8, SilentSteps, Zenon
<1> QED BY <1>6, <1>7, <1>8, Zenon DEF Next

\* The constructor establishes VoteInv.
LEMMA VoteInit == Init => VoteInv
<1> SUFFICES ASSUME Init PROVE VoteInv
  BY Zenon
<1>1. QuorumInv
  BY QuorumInit, Zenon
<1>2. DiskIsCurrent /\ LedgerFits /\ VotesAreRecorded /\ OnePrepare /\ CallsAreSafe /\ RoundIsOpen
  BY Zenon DEF Init, NoVotes, DiskIsCurrent, LedgerFits, VotesAreRecorded, OnePrepare, CallsAreSafe, RoundIsOpen
<1> QED BY <1>1, <1>2, Zenon DEF VoteInv

\* VoteInv implies the two properties: no double prepare, hence no double
\* commit, since a commit is only sent for a block prepared here.
LEMMA VotesAreSafe ==
  ASSUME VoteInv PROVE NoDoubleVote /\ VotesAreOnDisk
<1>1. sentCommits \subseteq sentPrepares
  BY Zenon DEF VoteInv, QuorumInv, CommitsStandOnQuorum
<1>2. NoDoubleVote
  BY <1>1, Zenon DEF VoteInv, OnePrepare, NoDoubleVote
<1>3. disk.prepared = prepared /\ disk.committed = committed
  BY Zenon DEF VoteInv, DiskIsCurrent
<1>4. VotesAreOnDisk
  BY <1>3, Zenon DEF VoteInv, VotesAreRecorded, VotesAreOnDisk, Open
<1> QED BY <1>2, <1>4, Zenon
==============================================================================
