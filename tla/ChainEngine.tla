----------------------------- MODULE ChainEngine -----------------------------
(***************************************************************************)
(* The persistent chain engine of one node (node/src/                      *)
(* chain-engine-persistent.ts) with the block index and the state trie     *)
(* under it.  A state is the sequence of the blocks executed to reach it,  *)
(* so two states are equal exactly when the code computes the same root.   *)
(* Block applications run one at a time on a queue; the import of the      *)
(* blocks of a snapshot and the check of the tip do not use the queue.     *)
(***************************************************************************)
EXTENDS Naturals, Sequences, SequencesExt, FiniteSets, FiniteSetsExt

CONSTANTS Blocks,        \* hashes of the blocks that exist
          Genesis,       \* the first of them
          Parent,        \* parent of every other block
          Lies,          \* blocks that state a root their chain does not have
          Silent,        \* blocks that state no root
          Heavy,         \* blocks whose execution fails
          Strangers,     \* blocks of proposers outside every validator set
          Depth,         \* finalityDepth
          MaxQueue, MaxCalls, MaxCrashes, MaxSyncs  \* bounds

Nil == "nil"
Junk == "junk"           \* what a snapshot that is not what it says contains

ChainOf[b \in Blocks] == IF b = Genesis THEN <<b>> ELSE Append(ChainOf[Parent[b]], b)
Number(b) == Len(ChainOf[b])
Heights == 1 .. Max({Number(b) : b \in Blocks})

VARIABLES rows,     \* b: rows, by height: a block with its flags
          index,    \* h: rows, from hash to height (0: none)
          latest,   \* block under the latest key
          root,     \* state of the live trie
          frames,   \* checkpoints of the trie that are open, oldest first
          disk,     \* state under STATE_ROOT_KEY
          flushed,  \* states whose nodes have reached LevelDB
          queue,    \* applyQueue
          pc,       \* where its first entry is
          before,   \* state when the last application began
          failed,   \* the last application ended in an error
          sync,     \* the snap sync under way
          probe,    \* height of the tip that the check at start-up looks at, 0 once done
          calls, crashes, syncs   \* counted for the bounds

store == <<rows, index, latest>>
trie == <<root, frames, disk, flushed>>
bounds == <<calls, crashes, syncs>>
vars == <<store, trie, queue, pc, before, failed, sync, probe, bounds>>

NoSync == [phase |-> "none", state |-> Nil, todo |-> <<>>]
Row(b, bft) == [hash |-> b, bft |-> bft, final |-> FALSE]
NoRow == Row(Nil, FALSE)

Init ==
  /\ rows = [n \in Heights |-> IF n = 1 THEN Row(Genesis, FALSE) ELSE NoRow]
  /\ index = [b \in Blocks |-> IF b = Genesis THEN 1 ELSE 0]
  /\ latest = Genesis
  /\ root = <<Genesis>> /\ frames = <<>> /\ disk = root /\ flushed = {root}
  /\ queue = <<>> /\ pc = "idle" /\ before = root /\ failed = FALSE
  /\ sync = NoSync /\ probe = 0
  /\ calls = 0 /\ crashes = 0 /\ syncs = 0

(***************************************************************************)
(* The trie: commit pops one checkpoint, and writes nodes and root when    *)
(* none is left.  Revert does nothing when no checkpoint is open.          *)
(***************************************************************************)
Checkpoint2 == frames' = <<root, root>> /\ UNCHANGED <<root, disk, flushed>>

\* A plausible slip: the root is persisted by every commit, the inner ones too.
CommitEarly ==
  /\ frames' = SubSeq(frames, 1, Len(frames) - 1)
  /\ disk' = root
  /\ flushed' = IF Len(frames) <= 1 THEN flushed \cup {root} ELSE flushed
  /\ UNCHANGED root

Commit ==
  /\ frames' = SubSeq(frames, 1, Len(frames) - 1)
  /\ IF Len(frames) <= 1
     THEN disk' = root /\ flushed' = flushed \cup {root}
     ELSE UNCHANGED <<disk, flushed>>
  /\ UNCHANGED root

RevertAll ==
  /\ root' = IF frames = <<>> THEN root ELSE frames[1]
  /\ frames' = <<>>
  /\ UNCHANGED <<disk, flushed>>

SetStateRoot(state) ==
  /\ root' = state /\ disk' = state
  /\ UNCHANGED <<frames, flushed>>

(***************************************************************************)
(* The block index.                                                        *)
(***************************************************************************)
Put(b, bft) ==
  /\ rows' = [rows EXCEPT ![Number(b)] = Row(b, bft)]
  /\ index' = [index EXCEPT ![b] = Number(b)]
  /\ latest' = b

\* The block of the height that the hash is indexed under, which may be another one.
Existing(b) == IF index[b] = 0 THEN NoRow ELSE rows[index[b]]

Stored == {n \in Heights : rows[n] # NoRow}
RepairLatest == IF Max(Stored) > Number(latest) THEN rows[Max(Stored)].hash ELSE latest

Dropped(heights) ==
  /\ rows' = [n \in Heights |-> IF n \in heights THEN NoRow ELSE rows[n]]
  /\ index' = [b \in Blocks |->
                 IF \E n \in heights : rows[n].hash = b THEN 0 ELSE index[b]]

(***************************************************************************)
(* applyBlock: calls queue up; the first is checked against the tip, then  *)
(* executed between two checkpoints, then committed, judged by the state   *)
(* root it states, and stored in one batch.                                *)
(***************************************************************************)
ApplyBlock(b, bft) ==
  /\ calls < MaxCalls /\ Len(queue) < MaxQueue
  /\ calls' = calls + 1
  /\ queue' = Append(queue, [kind |-> "apply", block |-> b, bft |-> bft])
  /\ UNCHANGED <<store, trie, pc, before, failed, sync, probe, crashes, syncs>>

Job == Head(queue)
Working(phase, kind) == queue # <<>> /\ pc = phase /\ Job.kind = kind
Done == queue' = Tail(queue) /\ pc' = "idle"

Duplicate ==
  /\ Working("idle", "apply") /\ Existing(Job.block) # NoRow
  /\ rows' = IF Job.bft THEN [rows EXCEPT ![index[Job.block]].bft = TRUE] ELSE rows
  /\ Done
  /\ UNCHANGED <<index, latest, trie, before, failed, sync, probe, bounds>>

Acceptable(job) ==
  /\ job.block # Genesis /\ Parent[job.block] = latest
  /\ job.bft \/ job.block \notin Strangers

Refuse ==
  /\ Working("idle", "apply") /\ Existing(Job.block) = NoRow /\ ~Acceptable(Job)
  /\ failed' = TRUE /\ before' = root
  /\ Done
  /\ UNCHANGED <<store, trie, sync, probe, bounds>>

Begin ==
  /\ Working("idle", "apply") /\ Existing(Job.block) = NoRow /\ Acceptable(Job)
  /\ Checkpoint2
  /\ before' = root /\ failed' = FALSE /\ pc' = "execute"
  /\ UNCHANGED <<store, queue, sync, probe, bounds>>

Execute ==
  /\ Working("execute", "apply") /\ Job.block \notin Heavy
  /\ root' = Append(root, Job.block) /\ pc' = "evmCommit"
  /\ UNCHANGED <<store, frames, disk, flushed, queue, before, failed, sync, probe, bounds>>

\* More gas than the limit, or than the block states: the checkpoints are still open.
ExecutionFails ==
  /\ Working("execute", "apply") /\ Job.block \in Heavy
  /\ RevertAll /\ failed' = TRUE /\ Done
  /\ UNCHANGED <<store, before, sync, probe, bounds>>

CommitState ==
  /\ Working("evmCommit", "apply") \/ Working("trieCommit", "apply")
  /\ Commit
  /\ pc' = IF pc = "evmCommit" THEN "trieCommit" ELSE "judge"
  /\ UNCHANGED <<store, queue, before, failed, sync, probe, bounds>>


StatesItsRoot(job) == job.block \in Silent \/ (job.block \notin Lies /\ root = ChainOf[job.block])

\* The catch block reverts, but both checkpoints have been committed by now.
Mismatch ==
  /\ Working("judge", "apply") /\ ~StatesItsRoot(Job)
  /\ RevertAll /\ failed' = TRUE /\ Done
  /\ UNCHANGED <<store, before, sync, probe, bounds>>

\* updateFinalityFlags looks at one height.
Flagged(table, tip) ==
  IF tip > Depth /\ table[tip - Depth] # NoRow
  THEN [table EXCEPT ![tip - Depth].final = TRUE] ELSE table

StoreBlock ==
  /\ Working("judge", "apply") /\ StatesItsRoot(Job)
  /\ LET b == Job.block IN
       /\ rows' = Flagged([rows EXCEPT ![Number(b)] = Row(b, Job.bft)], Number(b))
       /\ index' = [index EXCEPT ![b] = Number(b)]
       /\ latest' = b
  /\ Done
  /\ UNCHANGED <<trie, before, failed, sync, probe, bounds>>

(***************************************************************************)
(* Snap sync: the state first, on the queue, then the blocks, beside it.   *)
(***************************************************************************)
SnapSync(tip, state) ==
  /\ sync.phase = "none" /\ syncs < MaxSyncs /\ Len(queue) < MaxQueue
  /\ Number(tip) > Number(latest) /\ IsPrefix(ChainOf[tip], ChainOf[state])
  /\ syncs' = syncs + 1
  /\ sync' = [phase |-> "state", state |-> state, todo |-> ChainOf[tip]]
  /\ queue' = Append(queue, [kind |-> "import", block |-> state, bft |-> FALSE])
  /\ UNCHANGED <<store, trie, pc, before, failed, probe, calls, crashes>>

\* The import commits, which persists, and only then compares the root.
ImportState(whole) ==
  /\ Working("idle", "import")
  /\ before' = root
  /\ root' = IF whole THEN ChainOf[Job.block] ELSE <<Junk>>
  /\ disk' = root' /\ flushed' = flushed \cup {root'} /\ frames' = <<>>
  /\ pc' = "compare"
  /\ UNCHANGED <<store, queue, failed, sync, probe, bounds>>

ImportFits ==
  /\ Working("compare", "import") /\ root = ChainOf[Job.block]
  /\ SetStateRoot(ChainOf[Job.block])
  /\ sync' = [sync EXCEPT !.phase = "blocks"]
  /\ failed' = FALSE /\ Done
  /\ UNCHANGED <<store, before, probe, bounds>>

ImportRestores ==
  /\ Working("compare", "import") /\ root # ChainOf[Job.block]
  /\ SetStateRoot(before)
  /\ sync' = NoSync /\ failed' = TRUE /\ Done
  /\ UNCHANGED <<store, before, probe, bounds>>

Ahead(blocks) == SelectSeq(blocks, LAMBDA b : Number(b) > Number(latest))

ImportSnapSyncBlocks ==
  /\ sync.phase = "blocks"
  /\ sync' = IF Number(Last(sync.todo)) <= Number(latest) THEN NoSync
             ELSE [sync EXCEPT !.phase = "put", !.todo = Ahead(sync.todo)]
  /\ UNCHANGED <<store, trie, queue, pc, before, failed, probe, bounds>>

PutNext ==
  /\ sync.phase = "put"
  /\ Put(Head(sync.todo), FALSE)
  /\ sync' = IF Len(sync.todo) = 1 THEN NoSync ELSE [sync EXCEPT !.todo = Tail(sync.todo)]
  /\ UNCHANGED <<trie, queue, pc, before, failed, probe, bounds>>

(***************************************************************************)
(* A crash loses what is in memory.  init promotes the latest pointer to   *)
(* the highest row, and takes the state under STATE_ROOT_KEY without       *)
(* replaying anything.                                                     *)
(***************************************************************************)
CrashAndRestart ==
  /\ crashes < MaxCrashes
  /\ crashes' = crashes + 1
  /\ latest' = RepairLatest
  /\ root' = disk /\ frames' = <<>>
  /\ queue' = <<>> /\ pc' = "idle" /\ before' = disk /\ failed' = FALSE
  /\ sync' = NoSync /\ probe' = Number(latest')
  /\ UNCHANGED <<rows, index, disk, flushed, calls, syncs>>

\* verifyAndPromoteTipWithPeers, where a majority of the peers holds the chain of peerTip.
Agrees(n, peerTip) ==
  /\ n <= Number(peerTip)
  /\ rows[n].hash = ChainOf[peerTip][n]

VerifyTip(peerTip, prune) ==
  /\ probe # 0 /\ probe' = 0
  /\ LET agreed == {n \in 1 .. probe - 1 : Agrees(n, peerTip)} IN
       IF Agrees(probe, peerTip) \/ agreed = {}
       THEN UNCHANGED store
       ELSE /\ latest' = rows[Max(agreed)].hash
            /\ IF prune THEN Dropped({n \in Heights : n > Max(agreed)})
               ELSE UNCHANGED <<rows, index>>
  /\ UNCHANGED <<trie, queue, pc, before, failed, sync, bounds>>

\* The administrator's call; Strangers' blocks get in with a BFT finality or a snapshot.
PruneStalePhantoms ==
  /\ LET phantoms == {n \in Stored : n > Number(latest) \/ rows[n].hash \in Strangers} IN
       phantoms # {} /\ Dropped(phantoms)
  /\ UNCHANGED <<latest, trie, queue, pc, before, failed, sync, probe, bounds>>

Step ==
  \/ Duplicate \/ Refuse \/ Begin \/ Execute \/ ExecutionFails \/ CommitState
  \/ Mismatch \/ StoreBlock
  \/ \E whole \in BOOLEAN : ImportState(whole)
  \/ ImportFits \/ ImportRestores \/ ImportSnapSyncBlocks \/ PutNext

Next ==
  \/ \E b \in Blocks, bft \in BOOLEAN : ApplyBlock(b, bft)
  \/ \E tip, state \in Blocks : SnapSync(tip, state)
  \/ Step
  \/ CrashAndRestart
  \/ \E peerTip \in Blocks, prune \in BOOLEAN : VerifyTip(peerTip, prune)
  \/ PruneStalePhantoms

Spec == Init /\ [][Next]_vars
------------------------------------------------------------------------------
(***************************************************************************)
(* A restart at any moment finds a state root whose nodes were written:    *)
(* the outer one of the two commits of applyBlock persists the root, and   *)
(* the restoring import of state-snapshot.ts persists an old one.          *)
(***************************************************************************)
RootIsOnDisk == disk \in flushed

(***************************************************************************)
(* While the tip only moves up, the block at a height up to the tip is not *)
(* replaced.  The import of a snapshot puts its blocks while applyBlock is *)
(* executing one that was linked to the old tip; only the comparison of    *)
(* the state roots keeps that one from overwriting what was imported.      *)
(***************************************************************************)
KeepsHistory == \A n \in 1 .. Number(latest) :
  NoRow \notin {rows[n], rows'[n]} => rows[n].hash = rows'[n].hash

(***************************************************************************)
(* What the comment in applyBlock says of a block that is refused for its  *)
(* state root: the error reverts EVM and trie.                             *)
(***************************************************************************)
FailedApplyLeavesState == (pc = "idle" /\ failed) => root = before
==============================================================================
