--------------------------- MODULE RegistryReader ---------------------------
(***************************************************************************)
(* runtime/lib/validator-registry-reader.ts: the mirror of the active set  *)
(* of ValidatorRegistry that a node keeps, from the contract's state when  *)
(* it starts and from the contract's events afterwards, with a sidecar     *)
(* file for the next start.                                                *)
(*                                                                         *)
(* The chain is the sequence of its blocks, each the sequence of events of *)
(* one operation of the contract.  A node that was snap-synced has no logs *)
(* up to block Snap.  Calls that fail are not modelled.                    *)
(***************************************************************************)
EXTENDS Naturals, Sequences, SequencesExt

CONSTANTS Validators, Stakes, Snap, MaxBlocks, MaxRestarts

VARIABLES
  chain,      \* the blocks
  registry,   \* the contract: validator -> [active, stake]
  entries,    \* activeSet: validator -> [stake, pubkey], stake 0 when absent
  scanned,    \* lastScannedBlock
  sidecar,    \* the file: [scanned, entries]
  reader,     \* where the reader is: [at, from, head]
  restarts

vars == <<chain, registry, entries, scanned, sidecar, reader, restarts>>
contractVars == <<chain, registry>>

Absent == [stake |-> 0, pubkey |-> FALSE]
Nothing == [v \in Validators |-> Absent]
Down == [at |-> "down", from |-> 0, head |-> 0]

Init ==
  /\ chain = <<>>
  /\ registry = [v \in Validators |-> [active |-> FALSE, stake |-> 0]]
  /\ entries = Nothing /\ scanned = 0
  /\ sidecar = [scanned |-> 0, entries |-> Nothing]
  /\ reader = Down
  /\ restarts = 0

(***************************************************************************)
(* ValidatorRegistry, as far as its events and its active set go.          *)
(***************************************************************************)
Event(k, v, n) == [kind |-> k, validator |-> v, amount |-> n]

Emit(events) ==
  /\ Len(chain) < MaxBlocks
  /\ chain' = Append(chain, events)
  /\ UNCHANGED <<entries, scanned, sidecar, reader, restarts>>

Register(v, s) ==
  /\ registry[v] = [active |-> FALSE, stake |-> 0]
  /\ registry' = [registry EXCEPT ![v] = [active |-> TRUE, stake |-> s]]
  /\ Emit(<<Event("Registered", v, s)>>)

RequestUnstake(v) ==
  /\ registry[v].active
  /\ registry' = [registry EXCEPT ![v].active = FALSE]
  /\ Emit(<<Event("Deactivated", v, 0)>>)

Withdraw(v) ==
  /\ ~registry[v].active /\ registry[v].stake > 0
  /\ registry' = [registry EXCEPT ![v].stake = 0]
  /\ Emit(<<>>)

Slash(v) ==
  /\ registry[v].stake > 1
  /\ registry' = [registry EXCEPT ![v] = [active |-> FALSE, stake |-> @.stake - 1]]
  /\ Emit((IF registry[v].active THEN <<Event("Deactivated", v, 0)>> ELSE <<>>)
            \o <<Event("Slashed", v, 1)>>)

(***************************************************************************)
(* The reader.                                                             *)
(***************************************************************************)
HydrateFromSidecar ==
  /\ reader.at = "down"
  /\ Len(chain) >= Snap
  /\ entries' = sidecar.entries
  /\ scanned' = sidecar.scanned
  /\ reader' = [reader EXCEPT !.at = "seed"]
  /\ UNCHANGED <<contractVars, sidecar, restarts>>

\* The contract's state has no public keys: a known one is kept.
Seeded(v) ==
  IF registry[v].active
    THEN [stake |-> registry[v].stake, pubkey |-> entries[v].pubkey]
    ELSE entries[v]

SeedFromContractState ==
  /\ reader.at = "seed"
  /\ entries' = [v \in Validators |-> Seeded(v)]
  /\ reader' = [reader EXCEPT !.at = "idle"]
  /\ UNCHANGED <<contractVars, scanned, sidecar, restarts>>

\* handleEvent.  A slashed validator that is not in the active set has its
\* stake reduced only where nobody looks at it again.
HandleEvent(es, ev) ==
  LET v == ev.validator
  IN  CASE ev.kind = "Registered" ->
             [es EXCEPT ![v] = [stake |-> ev.amount, pubkey |-> TRUE]]
        [] ev.kind = "Deactivated" -> [es EXCEPT ![v] = Absent]
        [] ev.kind = "Slashed" ->
             [es EXCEPT ![v].stake =
                IF @ > ev.amount THEN @ - ev.amount ELSE 0]

\* The head is read first; blocks that come later wait for the next scan.
\* Between reading it and the logs, and while pages are read, the chain grows.
StartScan ==
  /\ reader.at = "idle"
  /\ Len(chain) > scanned
  /\ reader' = [at |-> "scan", from |-> scanned + 1, head |-> Len(chain)]
  /\ UNCHANGED <<contractVars, entries, scanned, sidecar, restarts>>

\* scanChunk, with pages of one block; there are no logs up to Snap.
Page(b) == IF b > Snap THEN chain[b] ELSE <<>>

ScanChunk ==
  /\ reader.at = "scan" /\ reader.from <= reader.head
  /\ entries' = FoldLeft(HandleEvent, entries, Page(reader.from))
  /\ reader' = [reader EXCEPT !.from = @ + 1]
  /\ UNCHANGED <<contractVars, scanned, sidecar, restarts>>


\* The end of scanToTip, and persist.
EndScan ==
  /\ reader.at = "scan" /\ reader.from > reader.head
  /\ scanned' = reader.head
  /\ sidecar' = [scanned |-> reader.head, entries |-> entries]
  /\ reader' = [reader EXCEPT !.at = "idle"]
  /\ UNCHANGED <<contractVars, entries, restarts>>

Restart ==
  /\ reader.at # "down" /\ restarts < MaxRestarts
  /\ restarts' = restarts + 1
  /\ reader' = Down
  /\ entries' = Nothing /\ scanned' = 0
  /\ UNCHANGED <<contractVars, sidecar>>

Next ==
  \/ \E v \in Validators :
       RequestUnstake(v) \/ Withdraw(v) \/ Slash(v) \/ \E s \in Stakes : Register(v, s)
  \/ HydrateFromSidecar \/ SeedFromContractState
  \/ StartScan \/ ScanChunk \/ EndScan \/ Restart

Spec == Init /\ [][Next]_vars

(***************************************************************************)
(* Properties                                                              *)
(***************************************************************************)

\* The public key of v was seen in the logs this node has.
HasLog(v) ==
  \E b \in DOMAIN chain :
    /\ b > Snap
    /\ Event("Registered", v, registry[v].stake) \in ToSet(chain[b])

\* A reader that has scanned to the head mirrors the contract: the active
\* set, every stake, and the public key of each validator whose registration
\* its chain has logs of, through restarts at any point, a seed taken from a
\* later block than the one the sidecar stops at, and slashes replayed over
\* it.
MirrorIsExact ==
  (reader.at = "idle" /\ scanned = Len(chain)) =>
    \A v \in Validators :
      /\ entries[v].stake = (IF registry[v].active THEN registry[v].stake ELSE 0)
      /\ registry[v].active /\ HasLog(v) => entries[v].pubkey
=============================================================================
