--------------------------- MODULE IpfsBlockstore ---------------------------
(***************************************************************************)
(* The block store of the IPFS layer and the erasure repair loop that      *)
(* works on it: node/src/ipfs-blockstore.ts, palimesh-ipfs-repair.ts and   *)
(* the pull path of palimesh-ipfs-wiring.ts.                               *)
(*                                                                         *)
(* Every await of the code is a place where another call may run.  A put   *)
(* writes its block, accounts for it and evicts what is over the cap; pin, *)
(* unpin, removeBlock and gc read and rewrite pins.json one after another  *)
(* behind pinsLock; the repair loop pulls or reconstructs the shards of a  *)
(* stripe that are missing, with the same put and pin.  A block is its     *)
(* CID (what does not hash to it is refused, lines 326-329) and has size   *)
(* 1; an unreadable pins.json is not modelled.                             *)
(***************************************************************************)
EXTENDS Integers, Sequences, FiniteSets, SequencesExt

CONSTANTS Cids, Shards,       \* blocks, and those of the one erasure stripe
          Needed,             \* how many shards the stripe can be rebuilt from
          Elsewhere,          \* the blocks some connected peer can serve
          Slots,              \* puts that may be in flight at once
          MaxBytes, Target,   \* the cap, and what an eviction trims back to
          MaxPuts, MaxCalls, MaxRestarts   \* bounds on the environment

StoreAssumption == /\ Shards \subseteq Cids /\ Elsewhere \subseteq Cids
                          /\ Target <= MaxBytes

VARIABLES files, pins,        \* the two things on disk
          meta,               \* LRU order: CIDs, least recently used first
          bytes, loaded,      \* currentBytes and metaLoaded
          tasks,              \* slot -> the put it runs
          queue,              \* what waits behind pinsLock, the head first
          removing,           \* removeBlock calls between unpin and unlink
          repair,             \* the repair loop: where it is and its list
          kept,               \* history: pinned, acknowledged, not unpinned
          puts, calls, restarts

vars == <<files, pins, meta, bytes, loaded, tasks, queue, removing, repair, kept,
          puts, calls, restarts>>

Idle == [pc |-> "idle", cid |-> 0, by |-> "client", list |-> <<>>, pins |-> {}]

Resting == [pc |-> "idle", todo |-> {}, have |-> {}]

Init ==
  /\ files = Shards /\ pins = {} /\ meta = <<>> /\ bytes = 0 /\ loaded = FALSE
  /\ tasks = [t \in Slots |-> Idle]
  /\ queue = <<>> /\ removing = {} /\ repair = Resting /\ kept = {}
  /\ puts = 0 /\ calls = 0 /\ restarts = 0

-----------------------------------------------------------------------------
(* Puts *)

Begin(t, c, by) ==
  /\ tasks[t].pc = "idle"
  /\ tasks' = [tasks EXCEPT ![t] = [Idle EXCEPT !.pc = "init", !.cid = c, !.by = by]]

Put(t, c) ==
  /\ puts < MaxPuts /\ puts' = puts + 1
  /\ Begin(t, c, "client")
  /\ UNCHANGED <<files, pins, meta, bytes, loaded, queue, removing, repair, kept, calls, restarts>>

Goto(t, pc) == tasks' = [tasks EXCEPT ![t].pc = pc]

\* init: the flag that the sizes are known is set after the walk, so two first
\* puts may both walk the directory.
InitStore(t) ==
  /\ tasks[t].pc = "init"
  /\ Goto(t, IF loaded THEN "write" ELSE "load")
  /\ UNCHANGED <<files, pins, meta, bytes, loaded, queue, removing, repair, kept, puts, calls, restarts>>

LoadMeta(t) ==
  /\ tasks[t].pc = "load"
  /\ meta' = meta \o SetToSeq(files \ Range(meta))
  /\ bytes' = bytes + Cardinality(files)
  /\ loaded' = TRUE
  /\ Goto(t, "write")
  /\ UNCHANGED <<files, pins, queue, removing, repair, kept, puts, calls, restarts>>

Touched(c) == Append(SelectSeq(meta, LAMBDA d : d # c), c)

Write(t) ==
  LET c == tasks[t].cid
      after == IF c \in Range(meta) THEN bytes ELSE bytes + 1
  IN /\ tasks[t].pc = "write"
     /\ files' = files \cup {c}
     /\ meta' = Touched(c)
     /\ bytes' = after
     /\ IF after > MaxBytes THEN Goto(t, "pins") ELSE tasks' = [tasks EXCEPT ![t] = Idle]
     /\ UNCHANGED <<pins, loaded, queue, removing, repair, kept, puts, calls, restarts>>

\* evictIfNeeded reads pins.json once, without the lock, and then unlinks one
\* candidate after another.
ReadPinsToEvict(t) ==
  /\ tasks[t].pc = "pins"
  /\ tasks' = [tasks EXCEPT ![t] = [@ EXCEPT !.pc = "evict", !.list = meta, !.pins = pins]]
  /\ UNCHANGED <<files, pins, meta, bytes, loaded, queue, removing, repair, kept, puts, calls, restarts>>

Evict(t) ==
  LET c == Head(tasks[t].list) IN
  /\ tasks[t].pc = "evict"
  /\ IF tasks[t].list = <<>> \/ bytes <= Target
     THEN tasks' = [tasks EXCEPT ![t] = Idle] /\ UNCHANGED <<files, meta, bytes>>
     ELSE /\ tasks' = [tasks EXCEPT ![t].list = Tail(@)]
          /\ IF c \in tasks[t].pins
             THEN UNCHANGED <<files, meta, bytes>>
             ELSE /\ files' = files \ {c}
                  /\ meta' = SelectSeq(meta, LAMBDA d : d # c)
                  /\ bytes' = bytes - 1
  /\ UNCHANGED <<pins, loaded, queue, removing, repair, kept, puts, calls, restarts>>

\* get: a hit refreshes the LRU order, a miss pulls the block from a peer and
\* caches it like a put.
Get(c) ==
  /\ calls < MaxCalls /\ calls' = calls + 1
  /\ \/ /\ c \in files
        /\ meta' = IF c \in Range(meta) THEN Touched(c) ELSE meta
        /\ UNCHANGED tasks
     \/ /\ c \in Elsewhere \ files
        /\ \E t \in Slots : Begin(t, c, "client")
        /\ UNCHANGED meta
  /\ UNCHANGED <<files, pins, bytes, loaded, queue, removing, repair, kept, puts, restarts>>

-----------------------------------------------------------------------------
(* What runs behind pinsLock *)

Job(op, c) == [op |-> op, cid |-> c, pc |-> "waiting", pins |-> {}]

Call(op, c) ==
  /\ calls < MaxCalls /\ calls' = calls + 1
  /\ queue' = Append(queue, Job(op, c))
  /\ UNCHANGED <<files, pins, meta, bytes, loaded, tasks, removing, repair, kept, puts, restarts>>

\* Mutant: every call enters at once.
MayEnterAtOnce(i) == i \in DOMAIN queue

\* pinsLock.then: a call starts when the one before it has ended.
MayEnter(i) == i = 1 /\ queue # <<>>

\* The head of the lock reads pins.json; gc lists the directory as well.
ReadPins(i) ==
  /\ MayEnter(i)
  /\ queue[i].pc = "waiting"
  /\ queue' = [queue EXCEPT ![i] = [@ EXCEPT
                 !.pc = "read", !.pins = IF queue[i].op = "gc" THEN files \ pins ELSE pins]]
  /\ UNCHANGED <<files, pins, meta, bytes, loaded, tasks, removing, repair, kept, puts, calls, restarts>>

Leave(i) == queue' = RemoveAt(queue, i)

WritePins(i) ==
  LET j == queue[i] IN
  /\ i \in DOMAIN queue
  /\ j.op \in {"pin", "unpin", "remove"} /\ j.pc = "read"
  /\ pins' = IF j.op = "pin" THEN j.pins \cup {j.cid} ELSE j.pins \ {j.cid}
  /\ kept' = IF j.op = "pin" THEN kept \cup {j.cid} ELSE kept \ {j.cid}
  /\ removing' = IF j.op = "remove" THEN removing \cup {j.cid} ELSE removing
  /\ Leave(i)
  /\ UNCHANGED <<files, meta, bytes, loaded, tasks, repair, puts, calls, restarts>>

\* gc unlinks one block after another; neither it nor removeBlock corrects the
\* accounting of the cap.
Sweep(i) ==
  LET j == queue[i] IN
  /\ i \in DOMAIN queue
  /\ j.op = "gc" /\ j.pc = "read"
  /\ IF j.pins = {} THEN Leave(i) /\ UNCHANGED files
     ELSE \E c \in j.pins : /\ files' = files \ {c}
                            /\ queue' = [queue EXCEPT ![i].pins = @ \ {c}]
  /\ UNCHANGED <<pins, meta, bytes, loaded, tasks, removing, repair, kept, puts, calls, restarts>>

RemoveBlock(c) ==
  /\ c \in removing
  /\ files' = files \ {c} /\ removing' = removing \ {c}
  /\ UNCHANGED <<pins, meta, bytes, loaded, tasks, queue, repair, kept, puts, calls, restarts>>

-----------------------------------------------------------------------------
(* repairManifest, for a manifest of one stripe *)

Missing == Shards \ files

Waiting == \E t \in Slots : tasks[t].by = "repair" /\ tasks[t].pc # "idle"

RepairStart ==
  /\ repair.pc = "idle" /\ Missing # {}
  /\ calls < MaxCalls /\ calls' = calls + 1
  /\ repair' = [Resting EXCEPT !.pc = "pull", !.todo = Missing]
  /\ UNCHANGED <<files, pins, meta, bytes, loaded, tasks, queue, removing, kept, puts, restarts>>

RepairPull(c) ==
  /\ repair.pc = "pull" /\ c \in repair.todo
  /\ repair' = [repair EXCEPT !.todo = @ \ {c}]
  /\ IF c \in Elsewhere THEN \E t \in Slots : Begin(t, c, "repair") ELSE UNCHANGED tasks
  /\ UNCHANGED <<files, pins, meta, bytes, loaded, queue, removing, kept, puts, calls, restarts>>

\* Once the pulls have ended: healed, beyond repair, or to be reconstructed.
RepairRecheck ==
  /\ repair.pc = "pull" /\ repair.todo = {} /\ ~Waiting
  /\ repair' = IF Missing = {} \/ Cardinality(Shards \cap files) < Needed THEN Resting
               ELSE [pc |-> "read", todo |-> Missing, have |-> Shards \cap files]
  /\ UNCHANGED <<files, pins, meta, bytes, loaded, tasks, queue, removing, kept, puts, calls, restarts>>

\* The shards counted present are read; one gone meanwhile is asked of a peer.
RepairRead ==
  /\ repair.pc = "read"
  /\ repair' = IF repair.have \subseteq files \cup Elsewhere
               THEN [repair EXCEPT !.pc = "write"] ELSE Resting
  /\ UNCHANGED <<files, pins, meta, bytes, loaded, tasks, queue, removing, kept, puts, calls, restarts>>

RepairWrite ==
  /\ repair.pc = "write"
  /\ \/ repair.todo = {} /\ repair' = Resting /\ UNCHANGED tasks
     \/ \E c \in repair.todo, t \in Slots :
          /\ Begin(t, c, "repair")
          /\ repair' = [repair EXCEPT !.pc = "put", !.todo = @ \ {c}, !.have = {c}]
  /\ UNCHANGED <<files, pins, meta, bytes, loaded, queue, removing, kept, puts, calls, restarts>>

RepairPin ==
  /\ repair.pc = "put" /\ ~Waiting
  /\ \E c \in repair.have : queue' = Append(queue, Job("pin", c))
  /\ repair' = [repair EXCEPT !.pc = "pin"]
  /\ UNCHANGED <<files, pins, meta, bytes, loaded, tasks, removing, kept, puts, calls, restarts>>

RepairPinned ==
  /\ repair.pc = "pin" /\ ~\E i \in DOMAIN queue : queue[i].op = "pin" /\ queue[i].cid \in repair.have
  /\ repair' = [repair EXCEPT !.pc = "write"]
  /\ UNCHANGED <<files, pins, meta, bytes, loaded, tasks, queue, removing, kept, puts, calls, restarts>>

\* Only the files survive.
Restart ==
  /\ restarts < MaxRestarts /\ restarts' = restarts + 1
  /\ meta' = <<>> /\ bytes' = 0 /\ loaded' = FALSE
  /\ tasks' = [t \in Slots |-> Idle] /\ queue' = <<>> /\ removing' = {} /\ repair' = Resting
  /\ UNCHANGED <<files, pins, kept, puts, calls>>

Next ==
  \/ \E t \in Slots : \/ \E c \in Cids : Put(t, c)
                      \/ InitStore(t) \/ LoadMeta(t) \/ Write(t)
                      \/ ReadPinsToEvict(t) \/ Evict(t)
  \/ \E c \in Cids : \/ \E op \in {"pin", "unpin", "remove"} : Call(op, c)
                     \/ Get(c) \/ RemoveBlock(c) \/ RepairPull(c)
  \/ Call("gc", 0)
  \/ \E i \in DOMAIN queue : ReadPins(i) \/ WritePins(i) \/ Sweep(i)
  \/ RepairStart \/ RepairRecheck \/ RepairRead \/ RepairWrite \/ RepairPin \/ RepairPinned
  \/ Restart

Spec == Init /\ [][Next]_vars

-----------------------------------------------------------------------------
(* Every block whose pin was acknowledged and not taken back is in         *)
(* pins.json, and no running garbage collection is about to unlink it:     *)
(* what the comments on pinsLock and gc promise of concurrent pins,        *)
(* unpins and sweeps, the pins of the repair loop included.                *)
PinsAreKept ==
  /\ kept \subseteq pins
  /\ \A i \in DOMAIN queue :
       queue[i].op = "gc" /\ queue[i].pc = "read" => kept \cap queue[i].pins = {}
=============================================================================
