--------------------------- MODULE ConsensusEngine ---------------------------
(***************************************************************************)
(* class ConsensusEngine of node/src/consensus.ts on one BFT node: the     *)
(* timer-driven tryPropose, trySync / forceSnapSync, the watchdogs of the  *)
(* sync flag (H7) and of missing progress (H15), and the degraded mode.    *)
(* Every await is a point where other handlers run.  The BFT coordinator   *)
(* (module BftCoordinator) appears as roundActive, prepared and the calls  *)
(* it makes; times appear as the facts the code compares them for.         *)
(***************************************************************************)
EXTENDS Naturals, FiniteSets

CONSTANTS
  MaxFailures,  \* MAX_CONSECUTIVE_FAILURES
  Turns,        \* heights this node is the expected proposer of
  MaxHeight, MaxEra,   \* bounds: chain height, changes of the validator set
  Governance,   \* the engine has a ValidatorGovernance
  Ticks, Syncs, \* ids of calls of tryPropose and of trySync that may overlap
  Timings       \* the sets of races to look at, see RaceNames

\* overlap:   the tip read outlasts the block interval, the next tick comes
\* setChange: the validator set changes while a block is being proposed
\* watchdog:  a block is finalized while the H15 watchdog reads the height
\* report:    a tick comes when a finalized block is applied and onFinalized goes on
\* applyFails: a finalized block cannot be applied, not even by the retry
\* slowSync:  an adoption takes longer than SYNC_INFLIGHT_WATCHDOG_MS, or hangs
RaceNames == {"overlap", "setChange", "watchdog", "report", "applyFails", "slowSync"}

ASSUME EngineAssumption ==
  /\ {MaxFailures, MaxHeight} \subseteq Nat \ {0}
  /\ MaxEra \in Nat /\ Governance \in BOOLEAN /\ Turns \subseteq Nat
  /\ Timings \subseteq SUBSET RaceNames

VARIABLES
  status, proposeFailures, syncFailures,
  cooling,          \* less than RECOVERY_COOLDOWN_MS since the last recovery
  tick,             \* [Ticks -> where the call of tryPropose is]
  proposeInFlight,
  lastHeight, lastBlock,   \* lastProposedHeight (0: undefined), lastProposedBlock
  sync,             \* [Syncs -> where the call of trySync / forceSnapSync is]
  syncInFlight,
  overdue,          \* the flag is older than SYNC_INFLIGHT_WATCHDOG_MS
  override,         \* noProgressProposerOverride
  stalled,          \* no progress for this node's activation threshold
  watching,         \* checkNoProgressWatchdog saw stalled and awaits the height
  height,           \* of the chain
  roundActive, prepared, finalized,  \* the coordinator: round, prepared block, lastFinalizedHeight
  finalizing,       \* where the onFinalized handler is; its queue holds one block (bound)
  era,              \* number of changes of the validator set
  built, resent,    \* history: own blocks; the last re-broadcast with the era it happened in
  races             \* which unlucky timings this behaviour may have, fixed in Init

health == <<status, proposeFailures, syncFailures, cooling>>
proposing == <<tick, proposeInFlight, lastHeight, lastBlock>>
syncing == <<sync, syncInFlight, overdue>>
watchdog == <<override, stalled, watching>>
round == <<roundActive, prepared>>
chain == <<height, round, finalized, finalizing, era>>
history == <<built, resent, races>>
vars == <<health, proposing, syncing, watchdog, chain, history>>

\* Own blocks are numbered from 1; number 0 is a block of another proposer.
Block(h, n) == [h |-> h, era |-> era, n |-> n]
NoBlock == [h |-> 0, era |-> 0, n |-> 0]
Idle == [pc |-> "idle", force |-> FALSE, block |-> NoBlock]

Init ==
  /\ status = "healthy" /\ proposeFailures = 0 /\ syncFailures = 0 /\ cooling = FALSE
  /\ tick = [t \in Ticks |-> Idle] /\ proposeInFlight = FALSE
  /\ lastHeight = 0 /\ lastBlock = NoBlock
  /\ sync = [s \in Syncs |-> "idle"] /\ syncInFlight = FALSE /\ overdue = FALSE
  /\ override = FALSE /\ stalled = FALSE /\ watching = FALSE
  /\ height = 0 /\ roundActive = FALSE /\ prepared = NoBlock /\ finalized = 0
  /\ finalizing = "idle" /\ era = 0
  /\ built = {} /\ resent = [block |-> NoBlock, at |-> 0] /\ races \in Timings

OneMore(n) == IF n < MaxFailures THEN n + 1 ELSE n
------------------------------------------------------------------------------
\* tryPropose
TryPropose(t) ==
  /\ tick[t].pc = "idle"
  /\ "overlap" \in races \/ \A u \in Ticks : tick[u].pc = "idle"
  /\ ~proposeInFlight /\ ~syncInFlight /\ status # "degraded" /\ ~roundActive
  /\ tick' = [tick EXCEPT ![t].pc = "tip"]
  /\ UNCHANGED <<health, proposeInFlight, lastHeight, lastBlock, syncing, watchdog, chain, history>>

\* The tip is of the current slot: nothing to do yet.
SlotTaken(t) ==
  /\ tick[t].pc = "tip"
  /\ tick' = [tick EXCEPT ![t] = Idle]
  /\ UNCHANGED <<health, proposeInFlight, lastHeight, lastBlock, syncing, watchdog, chain, history>>

\* forcePropose takes the override; then proposeNextBlock is called.
CallPropose(t) ==
  LET force == override /\ ~roundActive IN
  /\ tick' = [tick EXCEPT ![t] = [pc |-> "turn", force |-> force, block |-> NoBlock]]
  /\ override' = (override /\ ~force)

EnterPropose(t) ==
  /\ tick[t].pc = "tip"
  /\ proposeInFlight' = TRUE
  /\ IF lastHeight > 0
     THEN tick' = [tick EXCEPT ![t].pc = "height"] /\ UNCHANGED override
     ELSE CallPropose(t)
  /\ UNCHANGED <<health, lastHeight, lastBlock, syncing, stalled, watching, chain, history>>

Finish(t) == tick' = [tick EXCEPT ![t] = Idle] /\ proposeInFlight' = FALSE

\* What a timed-out proposal is re-broadcast as: the block the coordinator prepared
\* at that height, else the cached own one.
ToRebroadcast == IF prepared.h = lastHeight THEN prepared ELSE lastBlock

\* A plausible slip: once the round is over a fresh block is proposed.
CheckLastProposedFresh(t) ==
  /\ tick[t].pc = "height"
  /\ IF height < lastHeight /\ roundActive
     THEN Finish(t) /\ UNCHANGED <<lastBlock, override, resent>>
     ELSE /\ lastBlock' = NoBlock
          /\ CallPropose(t)
          /\ UNCHANGED <<proposeInFlight, resent>>
  /\ UNCHANGED <<health, lastHeight, syncing, stalled, watching, chain, built, races>>

\* The guard on lastProposedHeight.
CheckLastProposed(t) ==
  /\ tick[t].pc = "height"
  /\ IF height < lastHeight
     THEN /\ IF roundActive \/ ToRebroadcast = NoBlock
             THEN Finish(t) /\ UNCHANGED resent
             ELSE /\ tick' = [tick EXCEPT ![t].pc = "resend", ![t].block = ToRebroadcast]
                  /\ resent' = [block |-> ToRebroadcast, at |-> era]
                  /\ UNCHANGED proposeInFlight
          /\ UNCHANGED <<lastBlock, override>>
     ELSE /\ lastBlock' = NoBlock
          /\ CallPropose(t)
          /\ UNCHANGED <<proposeInFlight, resent>>
  /\ UNCHANGED <<health, lastHeight, syncing, stalled, watching, chain, built, races>>

\* proposeNextBlock reads the height and asks whose turn it is.
NotMyTurn(t) ==
  /\ tick[t].pc = "turn"
  /\ ~tick[t].force /\ height + 1 \notin Turns
  /\ Finish(t)
  /\ UNCHANGED <<health, lastHeight, lastBlock, syncing, watchdog, chain, history>>

MyTurn(t) ==
  /\ tick[t].pc = "turn"
  /\ tick[t].force \/ height + 1 \in Turns
  /\ height < MaxHeight
  /\ finalizing # "idle" /\ height >= finalized => "report" \in races
  /\ tick' = [tick EXCEPT ![t].pc = "build", ![t].block = Block(height + 1, 0)]
  /\ UNCHANGED <<health, proposeInFlight, lastHeight, lastBlock, syncing, watchdog, chain, history>>

\* proposeNextBlock returns a block; it is cached and broadcast.
Built(t) ==
  LET b == [tick[t].block EXCEPT !.n = Cardinality(built) + 1] IN
  /\ tick[t].pc = "build"
  /\ tick' = [tick EXCEPT ![t].pc = "send", ![t].block = b]
  /\ proposeFailures' = 0
  /\ lastHeight' = b.h /\ lastBlock' = b
  /\ built' = built \cup {b}
  /\ UNCHANGED <<status, syncFailures, cooling, proposeInFlight, syncing, watchdog, chain, resent,
                 races>>

\* The height cannot be read, or proposeNextBlock throws.
ProposeFails(t) ==
  /\ tick[t].pc \in {"height", "turn", "build"}
  /\ proposeFailures' = OneMore(proposeFailures)
  /\ status' = IF status = "recovering" \/ proposeFailures' >= MaxFailures THEN "degraded"
               ELSE status
  /\ Finish(t)
  /\ UNCHANGED <<syncFailures, cooling, lastHeight, lastBlock, syncing, watchdog, chain, history>>

\* computeStalenessFloor
Floor == IF finalized > height THEN finalized ELSE height

\* The coordinator's startRound: not beside an active round, not below the floor,
\* and never another block than the one prepared.
StartRound(b) ==
  IF ~roundActive /\ b.h > Floor /\ (prepared.h = b.h => prepared = b)
  THEN roundActive' = TRUE /\ prepared' = b
  ELSE UNCHANGED round

Recovered == IF status = "recovering" THEN "healthy" ELSE status

Sent(t) ==
  /\ tick[t].pc = "send"
  /\ \/ StartRound(tick[t].block) /\ status' = Recovered /\ UNCHANGED proposeFailures
     \/ /\ StartRound(tick[t].block) \/ UNCHANGED round    \* and throws
        /\ proposeFailures' = OneMore(proposeFailures)
        /\ status' = IF proposeFailures' >= MaxFailures THEN "degraded" ELSE Recovered
  /\ Finish(t)
  /\ UNCHANGED <<syncFailures, cooling, lastHeight, lastBlock, syncing, watchdog,
                 height, finalized, finalizing, era, history>>

Resent(t) ==
  /\ tick[t].pc = "resend"
  /\ StartRound(tick[t].block) \/ UNCHANGED round
  /\ Finish(t)
  /\ UNCHANGED <<health, lastHeight, lastBlock, syncing, watchdog,
                 height, finalized, finalizing, era, history>>
------------------------------------------------------------------------------

MaySync == ~syncInFlight

\* trySync and forceSnapSync: claim the flag and fetch the snapshots.
ClaimSync(s, kind) ==
  /\ sync[s] = "idle" /\ MaySync
  /\ sync' = [sync EXCEPT ![s] = kind]
  /\ syncInFlight' = TRUE /\ overdue' = FALSE

StartSync(s, kind) ==
  /\ ClaimSync(s, kind)
  /\ UNCHANGED <<health, proposing, watchdog, chain, history>>

\* The finally block.
EndSync(s) ==
  sync' = [sync EXCEPT ![s] = "idle"] /\ syncInFlight' = FALSE /\ overdue' = FALSE

\* trySync succeeded: tryRecover, unless the last recovery is too recent.
SyncSucceeded ==
  IF status \in {"degraded", "recovering"} /\ ~cooling
  THEN status' = "recovering" /\ proposeFailures' = 0 /\ syncFailures' = 0 /\ cooling' = TRUE
  ELSE syncFailures' = 0 /\ UNCHANGED <<status, proposeFailures, cooling>>

SyncFailed ==
  /\ syncFailures' = OneMore(syncFailures)
  /\ status' = IF syncFailures' >= MaxFailures /\ status = "healthy" THEN "degraded" ELSE status
  /\ UNCHANGED <<proposeFailures, cooling>>

\* The fetch returns within FETCH_SNAPSHOTS_TIMEOUT_MS: a better chain, none, or an error.
Fetched(s) ==
  /\ sync[s] \in {"trySync", "forceSnapSync"}
  /\ \/ /\ sync' = [sync EXCEPT ![s] = IF @ = "trySync" THEN "adopt" ELSE "import"]
        /\ UNCHANGED <<health, syncInFlight, overdue>>
     \/ EndSync(s) /\ IF sync[s] = "trySync" THEN SyncSucceeded \/ SyncFailed
                      ELSE UNCHANGED health
  /\ UNCHANGED <<proposing, watchdog, chain, history>>

\* The chain of a peer is adopted, or not; trySync may throw.
Adopt(s) ==
  /\ sync[s] \in {"adopt", "import"}
  /\ \E h \in height .. MaxHeight : height' = h
  /\ IF sync[s] = "adopt" THEN SyncSucceeded \/ SyncFailed ELSE UNCHANGED health
  /\ EndSync(s)
  /\ UNCHANGED <<proposing, watchdog, round, finalized, finalizing, era, history>>

\* Only an adoption can make the flag that old: the fetch times out long before.
TooLong ==
  /\ "slowSync" \in races
  /\ syncInFlight /\ ~overdue /\ \A s \in Syncs : sync[s] \notin {"trySync", "forceSnapSync"}
  /\ overdue' = TRUE
  /\ UNCHANGED <<health, proposing, sync, syncInFlight, watchdog, chain, history>>

\* A plausible slip: the time stamp is reset and the flag forgotten.
ReleaseTimestampOnly ==
  /\ syncInFlight /\ overdue
  /\ overdue' = FALSE
  /\ UNCHANGED <<health, proposing, sync, syncInFlight, watchdog, chain, history>>

CheckSyncInFlightWatchdog ==
  /\ syncInFlight /\ overdue
  /\ syncInFlight' = FALSE /\ overdue' = FALSE
  /\ UNCHANGED <<health, proposing, sync, watchdog, chain, history>>
------------------------------------------------------------------------------
\* checkDegradedTimeout, after MAX_DEGRADED_MS: clears the cooldown and recovers.
CheckDegradedTimeout ==
  /\ status = "degraded"
  /\ status' = "recovering" /\ proposeFailures' = 0 /\ syncFailures' = 0 /\ cooling' = TRUE
  /\ UNCHANGED <<proposing, syncing, watchdog, chain, history>>

CooldownEnds ==
  /\ cooling
  /\ cooling' = FALSE
  /\ UNCHANGED <<status, proposeFailures, syncFailures, proposing, syncing, watchdog, chain, history>>

NoProgressForLong ==
  /\ ~stalled
  /\ stalled' = TRUE
  /\ UNCHANGED <<health, proposing, syncing, override, watching, chain, history>>

\* checkNoProgressWatchdog up to its await; elapsed is computed before it.
WatchProgress ==
  /\ ~watching /\ ~override /\ ~syncInFlight /\ stalled
  /\ watching' = TRUE
  /\ UNCHANGED <<health, proposing, syncing, override, stalled, chain, history>>

\* After the await: clear the own stuck round (at most once per timeout), or take
\* over from the stuck proposer.
ActOnStall ==
  /\ watching
  /\ watching' = FALSE
  /\ IF height + 1 \in Turns
     THEN /\ \/ roundActive /\ roundActive' = FALSE /\ stalled' = FALSE
             \/ UNCHANGED <<roundActive, stalled>>
          /\ UNCHANGED override
     ELSE /\ override' = (override \/ ~roundActive)
          /\ UNCHANGED <<stalled, roundActive>>
  /\ UNCHANGED <<health, proposing, syncing, height, prepared, finalized, finalizing, era, history>>

NotifyBftProgress == stalled' = FALSE /\ override' = FALSE /\ UNCHANGED watching
------------------------------------------------------------------------------
\* The coordinator: a round on a peer's block, or the prepared one again; its end.
PeerBlock ==
  /\ ~roundActive /\ Floor < MaxHeight
  /\ roundActive' = TRUE
  /\ prepared' = IF prepared.h = Floor + 1 THEN prepared ELSE Block(Floor + 1, 0)
  /\ UNCHANGED <<health, proposing, syncing, watchdog, height, finalized, finalizing, era, history>>

RoundTimeout ==
  /\ roundActive
  /\ roundActive' = FALSE
  /\ UNCHANGED <<health, proposing, syncing, watchdog, height, prepared, finalized, finalizing,
                 era, history>>

\* The round finalizes its block; onFinalized begins.
Finalize ==
  /\ roundActive /\ prepared.h = Floor + 1 /\ finalizing = "idle"
  /\ finalized' = prepared.h
  /\ roundActive' = FALSE /\ prepared' = NoBlock
  /\ finalizing' = "apply"
  /\ UNCHANGED <<health, proposing, syncing, watchdog, height, era, history>>

\* applyBlock with its retry; when both fail forceSnapSync is called and awaited.
Apply ==
  /\ finalizing = "apply"
  /\ \/ finalized <= height /\ UNCHANGED <<height, syncing>> /\ finalizing' = "report"
     \/ /\ finalized = height + 1 /\ height' = finalized
        /\ finalizing' = "report" /\ UNCHANGED syncing
     \/ /\ finalized > height /\ "applyFails" \in races
        /\ \/ ~MaySync /\ UNCHANGED syncing
           \/ \E s \in Syncs : ClaimSync(s, "forceSnapSync")
        /\ finalizing' = "resync" /\ UNCHANGED height
  /\ UNCHANGED <<health, proposing, watchdog, round, finalized, era, history>>

\* A plausible slip: only the height is forgotten when it is reached.
KeepLastProposed == UNCHANGED <<lastHeight, lastBlock>>

ClearLastProposed == lastHeight' = 0 /\ lastBlock' = NoBlock

\* onValidatorSetChange with other members: the coordinator also drops its round
\* and what it prepared.
ChangeMembers ==
  /\ era < MaxEra
  /\ "setChange" \in races \/ \A t \in Ticks : tick[t].pc = "idle"
  /\ ClearLastProposed
  /\ era' = era + 1 /\ roundActive' = FALSE /\ prepared' = NoBlock

\* The end of onFinalized: progress, and onValidatorSetChange with the set of the
\* governance, changed or not.
Report ==
  /\ \/ finalizing = "report"
     \/ finalizing = "resync" /\ \A s \in Syncs : sync[s] \notin {"forceSnapSync", "import"}
  /\ watching => "watchdog" \in races
  /\ finalizing' = "idle"
  /\ NotifyBftProgress
  /\ \/ Governance /\ ChangeMembers
     \/ Governance /\ ClearLastProposed /\ UNCHANGED <<round, era>>
     \/ ~Governance /\ UNCHANGED <<lastHeight, lastBlock, round, era>>
  /\ UNCHANGED <<health, tick, proposeInFlight, syncing, height, finalized, history>>

\* The registry reader, the core-set driver or a restored snapshot change the set.
OnValidatorSetChange ==
  /\ ChangeMembers
  /\ UNCHANGED <<health, tick, proposeInFlight, syncing, watchdog, height, finalized,
                 finalizing, history>>

Propose(t) ==
  \/ SlotTaken(t) \/ EnterPropose(t) \/ CheckLastProposed(t) \/ NotMyTurn(t) \/ MyTurn(t)
  \/ Built(t) \/ ProposeFails(t) \/ Sent(t) \/ Resent(t)

Next ==
  \/ \E t \in Ticks : TryPropose(t) \/ Propose(t)
  \/ \E s \in Syncs :
       StartSync(s, "trySync") \/ StartSync(s, "forceSnapSync") \/ Fetched(s) \/ Adopt(s)
  \/ TooLong \/ CheckSyncInFlightWatchdog \/ CheckDegradedTimeout \/ CooldownEnds
  \/ NoProgressForLong \/ WatchProgress \/ ActOnStall
  \/ PeerBlock \/ RoundTimeout \/ Finalize \/ Apply \/ Report
  \/ OnValidatorSetChange

Spec == Init /\ [][Next]_vars

\* Timers fire, reads and broadcasts return and fetches time out; an adoption may
\* hang, but then the flag gets old.
LiveSpec ==
  /\ Spec
  /\ \A t \in Ticks : WF_vars(Propose(t))
  /\ \A s \in Syncs : WF_vars(Fetched(s))
  /\ WF_vars(TooLong) /\ WF_vars(CheckSyncInFlightWatchdog)
  /\ WF_vars(CheckDegradedTimeout)
------------------------------------------------------------------------------
\* "re-broadcast the SAME block (not a new one) to avoid equivocation": under one
\* validator set a node proposes one block per height, through timeouts, forced
\* proposals, syncs and recoveries.
OneProposalPerHeight ==
  \A x, y \in built : x.h = y.h /\ x.era = y.era => x = y

\* That holds of the code unless two ticks overlap in the tip read, a tick overtakes
\* the rest of onFinalized, or a finalized block cannot be applied.
ProposesOncePerHeight ==
  races \cap {"overlap", "report", "applyFails"} = {} => OneProposalPerHeight

\* clearLastProposed: the re-broadcast "does not replay a stale block whose proposer
\* was assigned by an old rotation", unless the set changes while a block is built.
NoStaleRebroadcast ==
  "setChange" \notin races => resent.block.era = resent.at

\* notifyBftProgress: "the proposer override doesn't fire spuriously during normal
\* operation": an armed override means that nothing was finalized for the threshold,
\* unless a block is finalized between the check of the stall and its consequence.
OverrideIsEarned == "watchdog" \notin races => (override => stalled)

\* What an event has overtaken is dropped: no block of an old rotation is sent again, no
\* override outlives the stall it answers.
StaleStateIsCleared == NoStaleRebroadcast /\ OverrideIsEarned

\* "a sync already in flight short-circuits to false rather than racing", and for
\* the H7 release "the worst case is one duplicate fetch": two calls never adopt a
\* peer's chain at the same time, unless an adoption outlasts the watchdog.
NoConcurrentAdoption ==
  "slowSync" \notin races =>
    Cardinality({s \in Syncs : sync[s] \in {"adopt", "import"}}) <= 1

\* The node never loses the ability to propose: whatever fails or hangs in a sync,
\* again and again neither of the flags nor the degraded mode is in tryPropose's way.
CanProposeAgain == []<>(~proposeInFlight /\ ~syncInFlight /\ status # "degraded")
==============================================================================
