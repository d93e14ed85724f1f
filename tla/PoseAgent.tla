----------------------------- MODULE PoseAgent -----------------------------
(***************************************************************************)
(* The challenger and aggregator agent, runtime/palimesh-agent.ts, in      *)
(* protocol version 2: one tick at a time it prunes old receipts, closes   *)
(* the epoch that has ended, challenges the nodes it rewards, and submits  *)
(* the receipts it gathered as a batch.                                    *)
(*                                                                         *)
(* Every await is a step of its own: the chain's epoch, the agent's own    *)
(* registration and a crash may come between any two.  The receipts are on *)
(* disk (PendingReceiptStore); the scores, the quota and the epoch being   *)
(* worked on are not.  The three kinds of challenge are not told apart,    *)
(* and an entry of nodeScores is the set of the observations it counts.    *)
(***************************************************************************)
EXTENDS Naturals, FiniteSets

CONSTANTS
  Nodes,            \* the nodes that are registered for rewards
  Reachable,        \* of those, the ones with a known endpoint
  Witnesses,        \* getWitnessSet of every epoch
  Required,         \* config.requiredWitnesses, for one receipt
  EmptyFallback,    \* config.allowEmptyBatchWitnessSubmission
  Slots,            \* epochs in which aggregatorSet names this agent, {} when unset
  BatchSize, Quota, Retention,
  MaxEpoch, MaxReceipts, MaxCrashes

VARIABLES
  clock,            \* the chain's epoch
  active,           \* this agent's node is active in the contract
  batches,          \* the sets of receipts the contract holds as batches
  pending,          \* pendingV2, in memory and on disk
  archive,          \* pendingV2ArchivePath
  manifests,        \* rewardManifestDir: epoch -> observations it was built from
  evidence,         \* evidenceStore, the fault proofs that were queued
  epoch,            \* currentEpoch
  self,             \* selfNodeRegistered
  targets,          \* rewardTargets
  scores,           \* nodeScores
  quota,            \* ChallengeQuota.counters
  tick,             \* where the tick is
  seen, crashes     \* observations made, crashes

chainVars == <<clock, active>>
diskVars == <<pending, archive, manifests, evidence>>
vars == <<clock, active, batches, pending, archive, manifests, evidence, epoch,
          self, targets, scores, quota, tick, seen, crashes>>

Epochs == 0..MaxEpoch + 1
Idle == [at |-> "idle", now |-> 0, todo |-> {}, batch |-> {}]
NoTargets == [epoch |-> MaxEpoch + 2, challengeable |-> {}]
NoQuota == [x \in Nodes \X Epochs |-> 0]

\* resolveNodeEndpoint: with a single node, its URL is the configured one.
Challengeable ==
  IF Cardinality(Nodes) = 1 THEN Nodes ELSE Nodes \cap Reachable

\* refreshRewardTargets: one reading per epoch.
Refreshed(e) ==
  IF targets.epoch = e
    THEN targets ELSE [epoch |-> e, challengeable |-> Challengeable]

CanRunForEpochRole == self

CanRunAggregatorRole == IF Slots = {} THEN self ELSE epoch \in Slots

Init ==
  /\ clock = 1 /\ active \in BOOLEAN
  /\ batches = {} /\ pending = {} /\ archive = {} /\ evidence = {}
  /\ manifests = [e \in Epochs |-> {}]
  /\ epoch = 1 /\ self = FALSE
  /\ targets = NoTargets /\ scores = {} /\ quota = NoQuota
  /\ tick = Idle /\ seen = 0 /\ crashes = 0

(***************************************************************************)
(* The chain.                                                              *)
(***************************************************************************)
EpochPasses ==
  /\ clock < MaxEpoch
  /\ clock' = clock + 1
  /\ UNCHANGED <<active, batches, diskVars, epoch, self, targets, scores,
                 quota, tick, seen, crashes>>

RegistrationChanges ==
  /\ active' = ~active
  /\ UNCHANGED <<clock, batches, diskVars, epoch, self, targets, scores,
                 quota, tick, seen, crashes>>

(***************************************************************************)
(* The tick.                                                               *)
(***************************************************************************)
OfEpoch(e) == {r \in pending : r.epoch = e}

\* pruneStoreByEpoch: what is older than the retention.
Stale(now) ==
  {r \in pending : /\ Retention > 0
                   /\ now > Retention
                   /\ r.epoch < now - Retention}


\* The receipts leave the store when the archive could be written.
PruneStalePending(now) ==
  \/ /\ archive' = archive \cup Stale(now)
     /\ pending' = pending \ Stale(now)
  \/ /\ Stale(now) # {}
     /\ UNCHANGED <<archive, pending>>

StartTick ==
  /\ tick.at = "idle"
  /\ self' \in {self, active}
  /\ PruneStalePending(clock)
  /\ targets' = Refreshed(epoch)
  /\ tick' = [Idle EXCEPT !.at = IF clock # epoch THEN "rollover" ELSE "roles",
                          !.now = clock]
  /\ UNCHANGED <<chainVars, batches, manifests, evidence, epoch, scores, quota,
                 seen, crashes>>

\* ceil(2m/3) of the epoch's witnesses; a failed reading asks for none.
WitnessQuorumThreshold == (2 * Cardinality(Witnesses) + 2) \div 3

\* The bitmap of the batch: the union of its receipts'.
Signed(batch) == UNION {r.witnesses : r \in batch}

EnoughWitnesses(batch) ==
  \/ Cardinality(Signed(batch)) >= WitnessQuorumThreshold
  \/ EmptyFallback

\* flushBatchV2 up to its transaction.  The manifest is written first,
\* whatever comes of the batch.
FlushBatchV2(sending, failed) ==
  LET batch == OfEpoch(epoch)
  IN  /\ manifests' = [manifests EXCEPT ![epoch] = scores]
      /\ \E unread \in BOOLEAN :
           tick' = [tick EXCEPT
             !.batch = batch,
             !.at = IF CanRunAggregatorRole /\ (unread \/ EnoughWitnesses(batch))
                      THEN sending ELSE failed]

RolloverFlush ==
  /\ tick.at = "rollover"
  /\ OfEpoch(epoch) # {}
  /\ FlushBatchV2("rollover-sent", "rollover-failed")
  /\ UNCHANGED <<chainVars, batches, pending, archive, evidence, epoch, self,
                 targets, scores, quota, seen, crashes>>

\* The rest of flushBatchV2: the transaction, its receipt, and the fault
\* proofs of the batch.  After a failure the transaction may be on the chain
\* all the same.
Faults(batch) == {r \in batch : r.fault}

Sent(from, done, failed) ==
  /\ tick.at = from
  /\ \/ /\ batches' = batches \cup {tick.batch}
        /\ evidence' = evidence \cup Faults(tick.batch)
        /\ tick' = [tick EXCEPT !.at = done]
     \/ /\ batches' \in {batches, batches \cup {tick.batch}}
        /\ tick' = [tick EXCEPT !.at = failed]
        /\ UNCHANGED evidence
  /\ UNCHANGED <<chainVars, pending, archive, manifests, epoch, self, targets,
                 scores, quota, seen, crashes>>

RolloverSent == Sent("rollover-sent", "rollover-done", "rollover-failed")

\* The end of the epoch's work, once its receipts are flushed, were none, or
\* can be flushed by someone else only.
CloseEpoch(removed) ==
  /\ pending' = pending \ removed
  /\ scores' = {}
  /\ epoch' = tick.now
  /\ targets' = Refreshed(tick.now)
  /\ tick' = [tick EXCEPT !.at = "roles", !.batch = {}]
  /\ UNCHANGED <<chainVars, batches, archive, manifests, evidence, self, quota,
                 seen, crashes>>

Rollover ==
  \/ tick.at = "rollover" /\ OfEpoch(epoch) = {} /\ CloseEpoch({})
  \/ tick.at = "rollover-done" /\ CloseEpoch(OfEpoch(epoch))
  \/ tick.at = "rollover-failed" /\ ~CanRunAggregatorRole /\ CloseEpoch({})

EndTick ==
  /\ tick' = Idle
  /\ UNCHANGED <<chainVars, batches, diskVars, epoch, self, targets, scores,
                 quota, seen, crashes>>

RolloverDeferred ==
  /\ tick.at = "rollover-failed" /\ CanRunAggregatorRole
  /\ EndTick

Roles ==
  /\ tick.at = "roles"
  /\ IF CanRunForEpochRole /\ CanRunAggregatorRole
       THEN /\ tick' = [tick EXCEPT !.at = "challenge",
                                    !.todo = targets.challengeable]
            /\ UNCHANGED <<chainVars, batches, diskVars, epoch, self, targets,
                           scores, quota, seen, crashes>>
       ELSE EndTick

(***************************************************************************)
(* tryChallengeV2: a node is skipped, fails, or answers a challenge that   *)
(* is then shown to the witnesses and, for storage, audited.               *)
(***************************************************************************)
Skipped(n) ==
  /\ tick.at = "challenge" /\ n \in tick.todo
  /\ tick' = [tick EXCEPT !.todo = @ \ {n}]
  /\ UNCHANGED <<chainVars, batches, diskVars, epoch, self, targets, scores,
                 quota, seen, crashes>>

Issue(n) ==
  /\ tick.at = "challenge" /\ n \in tick.todo
  /\ quota[n, epoch] < Quota
  /\ seen < MaxReceipts
  /\ quota' = [quota EXCEPT ![n, epoch] = @ + 1]
  /\ seen' = seen + 1
  /\ tick' = [tick EXCEPT !.todo = @ \ {n}]

UpdateScore(n, ok) ==
  scores' = scores \cup {[id |-> seen + 1, node |-> n, epoch |-> epoch, ok |-> ok]}

Failed(n) ==
  /\ Issue(n)
  /\ UpdateScore(n, FALSE)
  /\ UNCHANGED <<chainVars, batches, diskVars, epoch, self, targets, crashes>>

QuorumMet(attested) == Cardinality(attested) >= Required

\* An audit that fails is scored but is no fault of the batch
\* (faultTypeForResultCode of InvalidStorageAudit is 0).
Verified(n) ==
  /\ Issue(n)
  /\ \E attested \in SUBSET Witnesses, audited \in BOOLEAN :
       /\ pending' = pending \cup
            {[id |-> seen + 1, epoch |-> epoch, witnesses |-> attested,
              fault |-> audited /\ ~QuorumMet(attested)]}
       /\ UpdateScore(n, audited /\ QuorumMet(attested))
  /\ UNCHANGED <<chainVars, batches, archive, manifests, evidence, epoch, self,
                 targets, crashes>>

BatchFlush ==
  /\ tick.at = "challenge" /\ tick.todo = {}
  /\ Cardinality(OfEpoch(epoch)) >= BatchSize
  /\ FlushBatchV2("batch-sent", "batch-failed")
  /\ UNCHANGED <<chainVars, batches, pending, archive, evidence, epoch, self,
                 targets, scores, quota, seen, crashes>>

BatchSent == Sent("batch-sent", "batch-done", "batch-failed")

BatchDone ==
  /\ tick.at = "batch-done"
  /\ pending' = pending \ OfEpoch(epoch)
  /\ tick' = Idle
  /\ UNCHANGED <<chainVars, batches, archive, manifests, evidence, epoch, self,
                 targets, scores, quota, seen, crashes>>

TickOver ==
  /\ \/ tick.at = "batch-failed"
     \/ /\ tick.at = "challenge" /\ tick.todo = {}
        /\ Cardinality(OfEpoch(epoch)) < BatchSize
  /\ EndTick

\* The process ends and is started again.  The offset between the wall clock
\* and the chain is not known yet when the first epoch is computed, so that
\* epoch may be one ahead of the chain's.
CrashAndRestart ==
  /\ crashes < MaxCrashes
  /\ crashes' = crashes + 1
  /\ epoch' \in {clock, clock + 1}
  /\ self' = FALSE
  /\ targets' = NoTargets
  /\ scores' = {} /\ quota' = NoQuota
  /\ tick' = Idle
  /\ UNCHANGED <<chainVars, batches, diskVars, seen>>

Challenge(n) == Skipped(n) \/ Failed(n) \/ Verified(n)

Next ==
  \/ EpochPasses \/ RegistrationChanges \/ CrashAndRestart
  \/ StartTick \/ RolloverFlush \/ RolloverSent \/ Rollover \/ RolloverDeferred
  \/ Roles \/ BatchFlush \/ BatchSent \/ BatchDone \/ TickOver
  \/ \E n \in Nodes : Challenge(n)

Spec == Init /\ [][Next]_vars

(***************************************************************************)
(* Properties                                                              *)
(***************************************************************************)

\* A receipt leaves the pending store only when it is in the archive, or in
\* a batch the contract holds with its fault proof, if it shows a fault,
\* queued for the relayer: no failed archive, failed submission, lost role
\* or restart makes an observation disappear.
AccountsForReceipts ==
  \A r \in pending \ pending' :
    \/ r \in archive'
    \/ \E b \in batches' : r \in b /\ (r.fault => r \in evidence')

\* The reward manifest of an epoch is made of observations of that epoch, so
\* that no node is paid twice for one, whatever way the rollover takes.
ManifestIsOfItsEpoch ==
  \A e \in Epochs : \A o \in manifests[e] : o.epoch = e
=============================================================================
