---------------------------- MODULE BftCoordinator ---------------------------
(***************************************************************************)
(* class BftCoordinator (node/src/bft-coordinator.ts) and its durable vote *)
(* ledger (node/src/bft-vote-ledger.ts): one validator in full, in an      *)
(* environment of peers that vote as they like and a network that loses,   *)
(* delays, duplicates and reorders messages.                               *)
(*                                                                         *)
(* startRound is asynchronous.  A call in flight is a record in calls; its *)
(* pc says which await it is in:                                           *)
(*   "floor"  computeStalenessFloor: lastFinalizedHeight has been read     *)
(*   "root"   computeLocalStateRootSafe: all guards have been passed       *)
(*   "sent"   broadcastMessage of the prepare vote                         *)
(* Trouble names what the environment may do in a run:                     *)
(*   "interleave"  other handlers run while a call is at "floor" or "root" *)
(*   "crashInApply" a crash between finalization and applyBlock            *)
(*   "flush"       a ledger write fails (flush only logs it)               *)
(*   "tipRead"     getChainHeight throws                                   *)
(* Messages are authentic: handleMessage drops the others.  Divergence     *)
(* detection keeps its own state and is not part of this module.           *)
(***************************************************************************)
EXTENDS BftRound, Sequences

CONSTANTS
  HeightOf,          \* [Blocks -> heights, from 1]
  InitialValidators, \* cfg.validators at start
  ValidatorSets,     \* the sets governance may switch to
  PeerMessages,      \* votes peers may send: [type, sender, block, root]
  InitialNet,        \* those sent before the start
  Slots,             \* bounds the startRound calls in flight
  MaxPending,        \* pendingMessages.length cap (50)
  MaxGap,            \* how far ahead a message may be (10)
  MaxCrashes,        \* bounds crashes
  MaxApplying,       \* bounds the finalized blocks waiting in onFinalizedQueue
  Trouble,
  None

Heights == {HeightOf[b] : b \in Blocks}
BlockOrNone == Blocks \cup {None}

ASSUME CoordinatorAssumption ==
  /\ HeightOf \in [Blocks -> Nat \ {0}]
  /\ InitialValidators \in ValidatorSets
  /\ \A vs \in ValidatorSets : ValidatorSet(vs) /\ DOMAIN vs \subseteq Ids
  /\ PeerMessages \subseteq [type : {"prepare", "commit"}, sender : Ids \ {LocalId},
                             block : Blocks, root : Vote]
  /\ InitialNet \subseteq PeerMessages
  /\ MaxPending \in Nat /\ MaxGap \in Nat /\ MaxCrashes \in Nat /\ MaxApplying \in Nat
  /\ Trouble \subseteq {"interleave", "crashInApply", "flush", "tipRead"}
  /\ None \notin Blocks

VARIABLES
  validators,    \* cfg.validators
  round,         \* activeRound, or None
  timer,         \* timeoutTimer is armed
  leaked,        \* an earlier timer whose handle was overwritten is armed
  calls,         \* startRound calls in flight
  pending,       \* pendingMessages
  draining,      \* buffered messages startRound still feeds to the active round
  deferred,      \* deferredBlock
  reentered,     \* reenteredHeight, 0 for null
  lastFinalized, \* lastFinalizedHeight
  prepared,      \* localPreparedAt, and the ledger's working copy of it
  committed,     \* localCommittedAt, likewise
  preparedBlock, \* localPreparedBlock
  seen,          \* first votes of the equivocation detector
  linger,        \* the block whose votes are lingering, or None
  stopped,
  applying,      \* onFinalizedQueue: finalized blocks not yet applied
  disk,          \* the ledger file
  tip,           \* height of the chain
  sentPrepares,  \* history: blocks this validator has broadcast a prepare for
  sentCommits,   \* history: ... a commit for
  finals,        \* history: blocks it has finalized
  net,           \* votes sent by peers: each may arrive never, late, or often
  crashes

roundVars == <<round, timer, leaked, draining>>
ledgerVars == <<prepared, committed, preparedBlock, disk>>
chainVars == <<applying, tip, lastFinalized>>
sentVars == <<sentPrepares, sentCommits, finals>>
peerVars == <<seen, net>>
restVars == <<validators, linger, stopped, crashes>>
vars == <<roundVars, calls, pending, deferred, reentered, ledgerVars, chainVars,
          sentVars, peerVars, restVars>>

NoVotes == [h \in Heights |-> None]

Init ==
  /\ validators = InitialValidators
  /\ round = None /\ timer = FALSE /\ leaked = FALSE /\ draining = {}
  /\ calls = [s \in Slots |-> None]
  /\ pending = {} /\ deferred = None /\ reentered = 0
  /\ lastFinalized = 0 /\ tip = 0 /\ applying = <<>>
  /\ prepared = NoVotes /\ committed = NoVotes /\ preparedBlock = NoVotes
  /\ disk = [prepared |-> NoVotes, committed |-> NoVotes]
  /\ seen = {} /\ net = InitialNet
  /\ linger = None /\ stopped = FALSE /\ crashes = 0
  /\ sentPrepares = {} /\ sentCommits = {} /\ finals = {}
------------------------------------------------------------------------------
\* Parts of handlers.

Max(m, n) == IF m > n THEN m ELSE n
RoundHeight == HeightOf[round.block]
Voters(votes) == {id \in Ids : votes[id] # NoVote}

\* Nothing runs inside the first two awaits of startRound, unless "interleave".
Free ==
  \/ "interleave" \in Trouble
  \/ \A s \in Slots : calls[s] # None => calls[s].pc = "sent"

ClearRound ==
  /\ round' = None
  /\ timer' = FALSE
  /\ draining' = {}

\* flush: the ledger file becomes the working copy, or stays as it was.
Flush(p, c) ==
  \/ disk' = [prepared |-> p, committed |-> c]
  \/ "flush" \in Trouble /\ UNCHANGED disk

FlushIfChanged(p, c) ==
  IF p = prepared /\ c = committed THEN UNCHANGED disk ELSE Flush(p, c)

\* Begin startRound(b): nothing for a stopped coordinator or no block.
BeginCall(b, floor) ==
  IF b = None \/ stopped THEN UNCHANGED calls
  ELSE \E s \in Slots :
         /\ calls[s] = None
         /\ calls' = [calls EXCEPT ![s] =
              [block |-> b, pc |-> "floor", floor |-> floor, validators |-> validators]]

EndCall(s) == calls' = [calls EXCEPT ![s] = None]

\* isSupersededReentry
SupersededReentry(b) == RoundHeight = reentered /\ HeightOf[b] > RoundHeight

\* reenterLocallyPreparedRound(h) and processDeferredBlock: what the deferred
\* block d becomes, and the round it starts.
Reenters(h, d) ==
  /\ ~stopped
  /\ d = None \/ HeightOf[d] <= h
  /\ preparedBlock[h] # None

ReenterOrProcess(h, d) ==
  /\ deferred' = None
  /\ reentered' = IF Reenters(h, d) THEN h ELSE reentered
  /\ BeginCall(IF Reenters(h, d) THEN preparedBlock[h] ELSE d, lastFinalized)
------------------------------------------------------------------------------
\* startRound

\* consensus.tryPropose: the own proposal, or the block getLocalPreparedBlock
\* returned for a re-broadcast.  Its "no active round" check lies awaits back.
ProposeBlock(b) ==
  /\ Free
  /\ ProposerOf[b] = LocalId \/ preparedBlock[HeightOf[b]] = b
  /\ BeginCall(b, lastFinalized)
  /\ calls' # calls
  /\ UNCHANGED <<roundVars, pending, deferred, reentered, ledgerVars, chainVars,
                 sentVars, peerVars, restVars>>

\* handleReceivedBlock
ReceiveBlock(b) ==
  /\ Free
  /\ ProposerOf[b] # LocalId
  /\ IF round = None
     THEN /\ BeginCall(b, lastFinalized)
          /\ calls' # calls
          /\ UNCHANGED <<roundVars, deferred>>
     ELSE /\ HeightOf[b] > RoundHeight
          /\ LET hasVotes == \/ Cardinality(Voters(round.prepareVotes)) > 1
                             \/ Voters(round.commitVotes) # {}
                 defers == /\ \/ round.phase = "commit"
                              \/ round.phase = "prepare" /\ hasVotes
                           /\ ~SupersededReentry(b)
             IN  IF defers
                 THEN deferred' = b /\ UNCHANGED <<roundVars, calls>>
                 ELSE /\ ClearRound
                      /\ BeginCall(b, lastFinalized)
                      /\ UNCHANGED <<leaked, deferred>>
  /\ UNCHANGED <<pending, reentered, ledgerVars, chainVars, sentVars, peerVars, restVars>>

\* After the first await: staleness, deferral and the Phase R guard.
StalenessFloors(c) ==
  {Max(c.floor, tip)} \cup (IF "tipRead" \in Trouble THEN {c.floor} ELSE {})

Defers(b) ==
  /\ round # None
  /\ round.phase \in {"prepare", "commit"}
  /\ Voters(round.prepareVotes) \cup Voters(round.commitVotes) # {}
  /\ ~SupersededReentry(b)

\* A plausible slip: no Phase R guard.
RefusesNothing(b) == FALSE

\* Phase R: a different block was prepared at this height.
RefusesSelfEquivocation(b) == prepared[HeightOf[b]] \notin {None, b}

CheckStart(s) ==
  LET b == calls[s].block IN
  /\ calls[s] # None /\ calls[s].pc = "floor"
  /\ \E floor \in StalenessFloors(calls[s]) :
       \/ /\ HeightOf[b] <= floor
          /\ EndCall(s)
          /\ UNCHANGED <<roundVars, deferred>>
       \/ /\ HeightOf[b] > floor /\ Defers(b)
          /\ deferred' = b
          /\ EndCall(s)
          /\ UNCHANGED roundVars
       \/ /\ HeightOf[b] > floor /\ ~Defers(b) /\ RefusesSelfEquivocation(b)
          /\ EndCall(s)
          /\ UNCHANGED <<roundVars, deferred>>
       \/ /\ HeightOf[b] > floor /\ ~Defers(b) /\ ~RefusesSelfEquivocation(b)
          /\ ClearRound /\ UNCHANGED leaked
          /\ deferred' = None
          /\ calls' = [calls EXCEPT ![s].pc = "root", ![s].validators = validators]
  /\ UNCHANGED <<pending, reentered, ledgerVars, chainVars, sentVars, peerVars, restVars>>

\* A plausible slip: the vote is broadcast but not written ahead.
RecordPrepareInMemory(b) ==
  /\ prepared' = [prepared EXCEPT ![HeightOf[b]] = b]
  /\ preparedBlock' = [preparedBlock EXCEPT ![HeightOf[b]] = b]
  /\ UNCHANGED disk

\* localPreparedAt, localPreparedBlock and voteLedger.recordPrepared.
RecordPrepare(b) ==
  /\ prepared' = [prepared EXCEPT ![HeightOf[b]] = b]
  /\ preparedBlock' = [preparedBlock EXCEPT ![HeightOf[b]] = b]
  /\ FlushIfChanged(prepared', committed)

\* After the second await: create the round, vote, write ahead, broadcast.
\* (With nothing to send there is no third await; passing through "sent" then
\* only adds interleavings.)
CreateRound(s) ==
  LET c == calls[s] IN
  /\ c # None /\ c.pc = "root"
  /\ \E root \in Vote : round' = HandlePropose(NewRound(c.block, c.validators), root)
  /\ draining' = {}
  /\ IF round'.phase = "prepare" /\ IsValidator(round')
     THEN RecordPrepare(c.block) /\ sentPrepares' = sentPrepares \cup {c.block}
     ELSE UNCHANGED <<prepared, preparedBlock, disk, sentPrepares>>
  /\ calls' = [calls EXCEPT ![s].pc = "sent"]
  /\ UNCHANGED <<timer, leaked, pending, deferred, reentered, committed, chainVars,
                 sentCommits, finals, peerVars, restVars>>

MsgHeight(m) == HeightOf[m.block]

\* A plausible slip: the timer is armed only if the call's own round is active
\* and has no peer vote yet.
ArmFreshRound(s) ==
  /\ Free
  /\ calls[s] # None /\ calls[s].pc = "sent"
  /\ EndCall(s)
  /\ timer' = (timer \/ (round # None /\ Voters(round.prepareVotes) \subseteq {LocalId}))
  /\ UNCHANGED <<round, leaked, draining, pending, deferred, reentered, ledgerVars, chainVars,
                 sentVars, peerVars, restVars>>

\* After the third await: arm the timer of whatever round is active now, and
\* take the buffered messages of this height.  With no active round they go
\* through handleMessage straight back into the buffer.
ArmRound(s) ==
  LET h == HeightOf[calls[s].block]
      buffered == {m \in pending : MsgHeight(m) = h}
  IN
  /\ Free
  /\ calls[s] # None /\ calls[s].pc = "sent"
  /\ EndCall(s)
  /\ IF round = None
     THEN /\ pending' = {m \in pending : MsgHeight(m) >= h}
          /\ UNCHANGED <<timer, leaked, draining>>
     ELSE /\ timer' = TRUE
          /\ leaked' = (leaked \/ timer)
          /\ pending' = {m \in pending : MsgHeight(m) > h}
          /\ draining' = draining \cup buffered
  /\ UNCHANGED <<round, deferred, reentered, ledgerVars, chainVars, sentVars, peerVars, restVars>>
------------------------------------------------------------------------------
\* handleMessage(m); rest is what startRound has left to drain.

Buffers(m) ==
  round # None => MsgHeight(m) > RoundHeight /\ MsgHeight(m) <= RoundHeight + MaxGap

\* pendingMessages.push, with the cap and the dedup by sender, type and height.
BufferMessage(m, rest) ==
  /\ Buffers(m)
  /\ pending' = IF \/ Cardinality(pending) >= MaxPending
                   \/ \E n \in pending : /\ n.sender = m.sender /\ n.type = m.type
                                         /\ MsgHeight(n) = MsgHeight(m)
                THEN pending ELSE pending \cup {m}
  /\ draining' = rest
  /\ UNCHANGED <<round, timer, leaked, calls, deferred, reentered, ledgerVars, chainVars,
                 sentVars, peerVars, restVars>>

VoteOf(m) == [type |-> m.type, sender |-> m.sender, block |-> m.block]

Equivocates(m) ==
  \E v \in seen : /\ v.sender = m.sender /\ v.type = m.type
                  /\ HeightOf[v.block] = MsgHeight(m) /\ v.block # m.block

\* A message for a past height, or a vote the equivocation detector refuses.
DropMessage(m, rest) ==
  /\ round # None
  /\ ~Buffers(m)
  /\ MsgHeight(m) = RoundHeight => Equivocates(m)
  /\ draining' = rest
  /\ UNCHANGED <<round, timer, leaked, calls, pending, deferred, reentered, ledgerVars,
                 chainVars, sentVars, peerVars, restVars>>

\* The active round with m counted.
Counted(m) ==
  IF m.type = "prepare" THEN HandlePrepare(round, m.sender, m.block, m.root)
  ELSE HandleCommit(round, m.sender, m.block, m.root)

RecordVote(m) == seen' = seen \cup {VoteOf(m)} /\ UNCHANGED net

ReachesRound(m) ==
  /\ round # None
  /\ MsgHeight(m) = RoundHeight
  /\ ~Equivocates(m)

CountVote(m, rest) ==
  /\ ReachesRound(m)
  /\ Counted(m).phase = round.phase
  /\ round' = Counted(m)
  /\ RecordVote(m)
  /\ draining' = rest
  /\ UNCHANGED <<timer, leaked, calls, pending, deferred, reentered, ledgerVars, chainVars,
                 sentVars, restVars>>

RecordCommit(b) ==
  /\ committed' = [committed EXCEPT ![HeightOf[b]] = b]
  /\ FlushIfChanged(prepared, committed')

\* handlePrepare returned a commit vote: Phase R guard, write ahead, broadcast.
CastCommit(m, rest) ==
  LET b == round.block IN
  /\ ReachesRound(m)
  /\ round.phase = "prepare" /\ Counted(m).phase = "commit"
  /\ round' = Counted(m)
  /\ RecordVote(m)
  /\ draining' = rest
  /\ IF IsValidator(round) /\ committed[HeightOf[b]] \in {None, b}
     THEN RecordCommit(b) /\ sentCommits' = sentCommits \cup {b}
     ELSE UNCHANGED <<committed, disk, sentCommits>>
  /\ UNCHANGED <<timer, leaked, calls, pending, deferred, reentered, prepared, preparedBlock,
                 chainVars, sentPrepares, finals, restVars>>

Above(votes, h) == [g \in Heights |-> IF g <= h THEN None ELSE votes[g]]

\* pruneLocalVoteLedger(h)
PruneLocalVoteLedger(h) ==
  /\ prepared' = Above(prepared, h)
  /\ committed' = Above(committed, h)
  /\ preparedBlock' = Above(preparedBlock, h)
  /\ reentered' = IF reentered <= h THEN 0 ELSE reentered
  /\ FlushIfChanged(prepared', committed')

\* The round reaches its commit quorum, in handleCommit or through the early
\* commits in handlePrepare; onFinalized is queued and awaited.
FinalizeRound(m, rest) ==
  LET b == round.block IN
  /\ ReachesRound(m)
  /\ Counted(m).phase = "finalized"
  /\ Len(applying) < MaxApplying
  /\ RecordVote(m)
  /\ lastFinalized' = HeightOf[b]
  /\ linger' = b
  /\ ClearRound
  /\ PruneLocalVoteLedger(HeightOf[b])
  /\ applying' = Append(applying, b)
  /\ finals' = finals \cup {b}
  /\ UNCHANGED <<leaked, calls, pending, deferred, tip, sentPrepares, sentCommits,
                 validators, stopped, crashes>>

HandleMessage(m, rest) ==
  \/ BufferMessage(m, rest)
  \/ DropMessage(m, rest)
  \/ CountVote(m, rest)
  \/ CastCommit(m, rest)
  \/ FinalizeRound(m, rest)

Deliver(m) == Free /\ HandleMessage(m, draining)

\* startRound feeding a buffered message: prepares before commits.
Drain(m) ==
  /\ Free
  /\ m.type = "prepare" \/ \A n \in draining : n.type = "commit"
  /\ HandleMessage(m, draining \ {m})
------------------------------------------------------------------------------
\* Timers

\* A plausible slip: the timed-out round is forgotten instead of re-entered.
TimeoutForgets ==
  /\ Free
  /\ round # None
  /\ timer \/ leaked
  /\ ClearRound
  /\ leaked' = (leaked /\ timer)
  /\ deferred' = None
  /\ BeginCall(deferred, lastFinalized)
  /\ UNCHANGED <<pending, reentered, ledgerVars, chainVars, sentVars, peerVars, restVars>>

\* The callback of startTimeout, fired by the armed timer or by a leaked one.
Timeout ==
  /\ Free
  /\ round # None
  /\ timer \/ leaked
  /\ leaked' \in {leaked, FALSE}
  /\ ~timer => ~leaked'
  /\ ClearRound
  /\ ReenterOrProcess(RoundHeight, deferred)
  /\ UNCHANGED <<pending, ledgerVars, chainVars, sentVars, peerVars, restVars>>

\* A leaked timer that finds no active round.
LeakedTimerFires ==
  /\ round = None
  /\ leaked
  /\ leaked' = FALSE
  /\ UNCHANGED <<round, timer, draining, calls, pending, deferred, reentered, ledgerVars,
                 chainVars, sentVars, peerVars, restVars>>

\* The liveness watchdog of the constructor.
LivenessWatchdog ==
  /\ Free
  /\ round # None
  /\ ~stopped
  /\ ClearRound
  /\ pending' = {}
  /\ ReenterOrProcess(RoundHeight, None)
  /\ UNCHANGED <<leaked, ledgerVars, chainVars, sentVars, peerVars, restVars>>

\* forceClearRound, called by the no-progress watchdog of consensus.ts.
ForceClearRound ==
  /\ Free
  /\ round # None
  /\ ClearRound
  /\ UNCHANGED <<leaked, calls, pending, deferred, reentered, ledgerVars, chainVars,
                 sentVars, peerVars, restVars>>

\* The interval of startCommitRetry.
CommitRetry ==
  /\ round # None /\ round.phase = "commit"
  /\ sentCommits' = sentCommits \cup {round.block}
  /\ UNCHANGED <<roundVars, calls, pending, deferred, reentered, ledgerVars, chainVars,
                 sentPrepares, finals, peerVars, restVars>>

\* A plausible slip: a re-entered round re-sends a commit it never cast.
PrepareRetryCommits ==
  LET b == round.block IN
  /\ round # None /\ round.phase \in {"prepare", "commit"}
  /\ sentPrepares' = sentPrepares \cup {b}
  /\ sentCommits' = sentCommits \cup {b}
  /\ UNCHANGED <<roundVars, calls, pending, deferred, reentered, ledgerVars, chainVars,
                 finals, peerVars, restVars>>

\* The interval of startPrepareRetry: the own prepare again and, in a re-entered
\* round, the own commit.
PrepareRetry ==
  LET b == round.block IN
  /\ round # None /\ round.phase \in {"prepare", "commit"}
  /\ prepared[HeightOf[b]] = b
  /\ sentPrepares' = sentPrepares \cup {b}
  /\ sentCommits' = IF round.phase = "prepare" /\ committed[HeightOf[b]] = b
                    THEN sentCommits \cup {b} ELSE sentCommits
  /\ UNCHANGED <<roundVars, calls, pending, deferred, reentered, ledgerVars, chainVars,
                 finals, peerVars, restVars>>

\* The interval of startLingerBroadcast, and its end after the last tick.
LingerTick ==
  /\ linger # None
  /\ linger' \in {linger, None}
  /\ sentCommits' = sentCommits \cup {linger}
  /\ UNCHANGED <<roundVars, calls, pending, deferred, reentered, ledgerVars, chainVars,
                 sentPrepares, finals, peerVars, validators, stopped, crashes>>

\* replayUnfinalizedVotes, some time after a restart.
ReplayUnfinalizedVotes ==
  LET live == {h \in Heights : h > Max(lastFinalized, tip)} IN
  /\ crashes > 0
  /\ sentCommits' = sentCommits \cup ({committed[h] : h \in live} \ {None})
  /\ sentPrepares' = sentPrepares \cup
       ({prepared[h] : h \in {g \in live : committed[g] = None}} \ {None})
  /\ UNCHANGED <<roundVars, calls, pending, deferred, reentered, ledgerVars, chainVars,
                 finals, peerVars, restVars>>
------------------------------------------------------------------------------
\* The chain, the validator set, and the process

\* updateValidators(vs) when the membership changed: every cache is dropped.
DropCaches ==
  /\ prepared' = NoVotes /\ committed' = NoVotes /\ preparedBlock' = NoVotes
  /\ FlushIfChanged(NoVotes, NoVotes)
  /\ reentered' = 0
  /\ pending' = {}
  /\ deferred' = None
  /\ IF round = None THEN UNCHANGED <<round, timer, draining>> ELSE ClearRound

MembershipChanges(vs) == DOMAIN vs # DOMAIN validators

UpdateValidators(vs) ==
  /\ Free
  /\ vs # validators
  /\ validators' = vs
  /\ IF MembershipChanges(vs) THEN DropCaches
     ELSE UNCHANGED <<round, timer, draining, pending, deferred, reentered, ledgerVars>>
  /\ UNCHANGED <<leaked, calls, chainVars, sentVars, peerVars, linger, stopped, crashes>>

\* The awaited onFinalized returns: the block was applied or not, the validator
\* set follows governance, and processDeferredBlock runs.
FinishApply(applied, vs) ==
  LET h == HeightOf[Head(applying)] IN
  /\ Free
  /\ applying # <<>>
  /\ applying' = Tail(applying)
  /\ tip' = IF applied /\ h = tip + 1 THEN h ELSE tip
  /\ validators' = vs
  /\ IF MembershipChanges(vs) THEN DropCaches /\ UNCHANGED calls
     ELSE /\ deferred' = None
          /\ BeginCall(deferred, lastFinalized)
          /\ UNCHANGED <<round, timer, draining, pending, reentered, ledgerVars>>
  /\ UNCHANGED <<leaked, lastFinalized, sentVars, peerVars, linger, stopped, crashes>>

\* A peer signs a vote.
PeerSends(m) ==
  /\ m \notin net
  /\ net' = net \cup {m}
  /\ UNCHANGED <<roundVars, calls, pending, deferred, reentered, ledgerVars, chainVars,
                 sentVars, seen, restVars>>

\* Sync or gossip adoption of a block the network finalized.
AdoptBlock ==
  /\ tip + 1 \in Heights
  /\ tip' = tip + 1
  /\ UNCHANGED <<roundVars, calls, pending, deferred, reentered, ledgerVars, applying,
                 lastFinalized, sentVars, peerVars, restVars>>

Stop ==
  /\ Free
  /\ ~stopped
  /\ stopped' = TRUE
  /\ reentered' = 0
  /\ ClearRound
  /\ linger' = None
  /\ pending' = {} /\ deferred' = None
  /\ UNCHANGED <<leaked, calls, ledgerVars, chainVars, sentVars, peerVars, validators, crashes>>

\* A crash loses the process; the constructor rehydrates from the ledger file.
CrashAndRestart ==
  /\ crashes < MaxCrashes
  /\ "crashInApply" \in Trouble \/ tip >= lastFinalized
  /\ crashes' = crashes + 1
  /\ ClearRound /\ leaked' = FALSE
  /\ calls' = [s \in Slots |-> None]
  /\ pending' = {} /\ deferred' = None /\ reentered' = 0
  /\ lastFinalized' = 0 /\ applying' = <<>>
  /\ prepared' = disk.prepared /\ committed' = disk.committed /\ preparedBlock' = NoVotes
  /\ seen' = {} /\ linger' = None /\ stopped' = FALSE
  /\ UNCHANGED <<disk, tip, sentVars, net, validators>>

\* What a validator that is left running does.
Running ==
  \/ \E b \in Blocks : ProposeBlock(b) \/ ReceiveBlock(b)
  \/ \E s \in Slots : CheckStart(s) \/ CreateRound(s) \/ ArmRound(s)
  \/ \E m \in PeerMessages : PeerSends(m)
  \/ \E m \in net : Deliver(m)
  \/ \E m \in draining : Drain(m)
  \/ Timeout \/ LeakedTimerFires \/ LivenessWatchdog
  \/ CommitRetry \/ PrepareRetry \/ LingerTick \/ ReplayUnfinalizedVotes
  \/ \E vs \in ValidatorSets : UpdateValidators(vs)
  \/ \E applied \in BOOLEAN, vs \in ValidatorSets : FinishApply(applied, vs)
  \/ AdoptBlock

Next == Running \/ ForceClearRound \/ Stop \/ CrashAndRestart

Spec == Init /\ [][Next]_vars

\* Awaits return, and a timer that stays armed fires.
LiveSpec ==
  /\ Init
  /\ [][Running]_vars
  /\ \A s \in Slots : WF_vars(CheckStart(s)) /\ WF_vars(CreateRound(s)) /\ SF_vars(ArmRound(s))
  /\ SF_vars(Timeout)
------------------------------------------------------------------------------
SameHeight(a, b) == HeightOf[a] = HeightOf[b]

\* The no-double-vote invariant of Phase R, across timeouts, retries, re-entries
\* and restarts: this validator never broadcasts prepares, or commits, for two
\* blocks of a height; commits include those that the retry and linger timers and
\* replayUnfinalizedVotes send.  (With Trouble = {}: see the README for the timings
\* that break it.)
NoDoubleVote ==
  \A sent \in {sentPrepares, sentCommits} : \A a, b \in sent : SameHeight(a, b) => a = b

\* Write-ahead: a vote that went out for a height still open (above both the
\* chain and the last finalized height) is in the ledger file, so a crash at
\* any moment is followed by a restart that knows of it.
VotesAreOnDisk ==
  \A h \in Heights : h > Max(lastFinalized, tip) =>
    /\ \A b \in sentPrepares : HeightOf[b] = h => disk.prepared[h] = b
    /\ \A b \in sentCommits : HeightOf[b] = h => disk.committed[h] = b

PrepareSenders(b) == {m.sender : m \in {n \in net : n.type = "prepare" /\ n.block = b}}

\* A commit that leaves this node, by whichever timer, and a finalization, stand
\* on a prepare quorum of votes really sent, the own among them.
CommitsStandOnQuorum ==
  \A b \in sentCommits \cup finals :
    /\ b \in sentPrepares
    /\ \E vs \in ValidatorSets : HasQuorum(PrepareSenders(b) \cup {LocalId}, vs, Relaxed)

\* A height this validator has prepared, and whose block it holds, does not go
\* quiet: whatever times out, a round is active again (startTimeout,
\* reenterLocallyPreparedRound, processDeferredBlock) until the height is decided.
PreparedHeightKeepsARound ==
  \A h \in Heights :
    []<>(round # None \/ preparedBlock[h] = None \/ h <= Max(lastFinalized, tip))

\* No round is wedged: every round is finalized, superseded or timed out, also
\* when the timer is armed for a round other than the one that asked for it.
EveryRoundEnds == []<>(round = None)

\* The network of module BftAgreement with this node as its only correct
\* validator: the votes that exist are the own ones broadcast (a finalization
\* casts the own commit, which the linger timer sends) and the peers'.
Own(blocks) == {<<LocalId, b>> : b \in blocks}
Sent(type) == {<<m.sender, m.block>> : m \in {n \in net : n.type = type}}
Network == INSTANCE BftAgreement WITH
  Stake <- InitialValidators,
  Faulty <- DOMAIN InitialValidators \ {LocalId},
  prepares <- Own(sentPrepares) \cup Sent("prepare"),
  commits <- Own(sentCommits \cup finals) \cup Sent("commit"),
  finalized <- Own(finals)

\* The coordinator keeps the protocol that BftAgreement is proved safe for: one
\* prepare per height, commits and finalizations only on a quorum of votes that
\* exist, through every timeout, retry, re-entry and restart.
ImplementsAgreement == Network!Spec
==============================================================================
