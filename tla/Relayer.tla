------------------------------- MODULE Relayer -------------------------------
(***************************************************************************)
(* The dispute pipeline of runtime/palimesh-relayer.ts and                 *)
(* runtime/lib/pose-v2-dispute-executor.ts: evidence that the agent writes *)
(* to the shared file becomes challenges of PoSeManagerV2, each opened     *)
(* with a bond, revealed and settled over several ticks.  A tick is a      *)
(* chain of awaits; a watchdog may declare a slow tick dead while it still *)
(* runs, so that two of them work on the same records.  The process may    *)
(* crash between any two awaits and restarts from its two files.           *)
(***************************************************************************)
EXTENDS Naturals, FiniteSets

CONSTANTS Evidence, Ticks, RevealWindow, MaxTime, MaxCrashes, MaxHangs

VARIABLES file, queue,    \* the evidence file, and the relayer's EvidenceStore
          pushed,         \* evidence the agent or the BFT poll has produced
          pending, store, \* records of the executor, in memory and on disk
          chain,          \* the challenge that an evidence led to
          tick,           \* what a tick is doing
          inProgress,     \* tickInProgress
          now, crashes, hangs

vars == <<file, queue, pushed, pending, store, chain, tick, inProgress, now, crashes, hangs>>

Idle == [pc |-> "idle", visited |-> {}, open |-> {}, at |-> "none", saw |-> "none"]
NoChallenge == [state |-> "none", deadline |-> 0]
None == "none"

Init ==
  /\ file = {} /\ queue = {} /\ pushed = {} /\ now = 0 /\ crashes = 0 /\ hangs = 0
  /\ pending = [e \in Evidence |-> None] /\ store = pending
  /\ chain = [e \in Evidence |-> NoChallenge]
  /\ tick = [t \in Ticks |-> Idle] /\ inProgress = FALSE

\* EvidenceStore.push of the agent, another process: it appends to the shared file.
AgentFinds(e) ==
  /\ e \notin pushed /\ pushed' = pushed \cup {e} /\ file' = file \cup {e}
  /\ UNCHANGED <<queue, pending, store, chain, tick, inProgress, now, crashes, hangs>>

Upsert(e, state) == pending' = [pending EXCEPT ![e] = state] /\ store' = [store EXCEPT ![e] = state]

\* drainFiltered takes what it selects and then writes what is left in memory over the file.
Drain(selected) == queue' = queue \ selected /\ file' = queue \ selected

(***************************************************************************)
(* tick(): the BFT poll pushes to the relayer's own store, tryDispute      *)
(* drains the evidence of version 1, tryDisputeV2 advances what is pending *)
(* and opens a challenge for what it drains.                               *)
(***************************************************************************)
StartTick(t, found) ==
  /\ tick[t] = Idle /\ ~inProgress /\ inProgress' = TRUE
  /\ found \cap pushed = {} /\ pushed' = pushed \cup found
  /\ queue' = queue \cup found /\ file' = queue \cup found
  /\ tick' = [tick EXCEPT ![t].pc = "pending"]
  /\ UNCHANGED <<pending, store, chain, now, crashes, hangs>>

Visiting(t, e) == tick[t].pc = "pending" /\ e \notin tick[t].visited /\ pending[e] # None

\* processPending takes up a record; recoverOpenedChallenge for one that is still opening
Recover(t, e) ==
  /\ Visiting(t, e) /\ pending[e] = "opening"
  /\ \/ \* no receipt yet, or the call fails
        tick' = [tick EXCEPT ![t].visited = @ \cup {e}] /\ UNCHANGED <<pending, store>>
     \/ chain[e].state = "reverted" /\ Upsert(e, None) /\ tick' = [tick EXCEPT ![t].visited = @ \cup {e}]
     \/ chain[e].state \notin {"reverted", "none"} /\ Upsert(e, "committed") /\ UNCHANGED tick
  /\ UNCHANGED <<file, queue, pushed, chain, inProgress, now, crashes, hangs>>

\* revealChallenge and settleChallenge read the challenge first.
ReadChallenge(t, e) ==
  /\ Visiting(t, e) /\ pending[e] \in {"committed", "revealed"}
  /\ tick' = [tick EXCEPT ![t].pc = pending[e], ![t].at = e, ![t].saw = chain[e].state, ![t].visited = @ \cup {e}]
  /\ UNCHANGED <<file, queue, pushed, pending, store, chain, inProgress, now, crashes, hangs>>

Back(t) == tick' = [tick EXCEPT ![t].pc = "pending", ![t].at = "none", ![t].saw = "none"]

\* What the read says the challenge is: settled, or revealed by an earlier attempt
ActOnRead(t) ==
  LET e == tick[t].at
  IN /\ \/ tick[t].pc \in {"committed", "revealed"} /\ tick[t].saw = "settled" /\ Upsert(e, None)
        \/ tick[t].pc = "committed" /\ tick[t].saw = "revealed" /\ Upsert(e, "revealed")
        \/ tick[t].pc = "revealed" /\ (tick[t].saw = "open" \/ now < chain[e].deadline + 2) /\ tick[t].saw # "settled"
           /\ UNCHANGED <<pending, store>>
     /\ Back(t)
     /\ UNCHANGED <<file, queue, pushed, chain, inProgress, now, crashes, hangs>>

\* The transaction is mined, or it reverts or is not sent and the error is logged.
Reveal(t) ==
  LET e == tick[t].at
  IN /\ tick[t].pc = "committed" /\ tick[t].saw = "open"
     /\ \/ /\ chain[e].state = "open" /\ now <= chain[e].deadline
           /\ chain' = [chain EXCEPT ![e].state = "revealed"] /\ tick' = [tick EXCEPT ![t].pc = "wasRevealed"]
        \/ UNCHANGED chain /\ Back(t)
     /\ UNCHANGED <<file, queue, pushed, pending, store, inProgress, now, crashes, hangs>>

\* A plausible slip: an error of settleChallenge drops the record too.
SettleDropsOnError(t) ==
  LET e == tick[t].at
  IN /\ tick[t].pc = "revealed" /\ tick[t].saw = "revealed" /\ now >= chain[e].deadline + 2
     /\ tick' = [tick EXCEPT ![t].pc = "wasSettled"]
     /\ chain' = [chain EXCEPT ![e].state = IF @ = "revealed" THEN "settled" ELSE @] \/ UNCHANGED chain
     /\ UNCHANGED <<file, queue, pushed, pending, store, inProgress, now, crashes, hangs>>

Settle(t) ==
  LET e == tick[t].at
  IN /\ tick[t].pc = "revealed" /\ tick[t].saw = "revealed" /\ now >= chain[e].deadline + 2
     /\ \/ /\ chain[e].state = "revealed"
           /\ chain' = [chain EXCEPT ![e].state = "settled"] /\ tick' = [tick EXCEPT ![t].pc = "wasSettled"]
        \/ UNCHANGED chain /\ Back(t)
     /\ UNCHANGED <<file, queue, pushed, pending, store, inProgress, now, crashes, hangs>>

\* After the wait: the record of a revealed challenge is written again, whatever became of it meanwhile.
AfterWait(t) ==
  /\ \/ tick[t].pc = "wasRevealed" /\ Upsert(tick[t].at, "revealed")
     \/ tick[t].pc = "wasSettled" /\ Upsert(tick[t].at, None)
  /\ Back(t)
  /\ UNCHANGED <<file, queue, pushed, chain, inProgress, now, crashes, hangs>>

DrainV2(t) ==
  /\ tick[t].pc = "pending" /\ \A e \in Evidence : ~Visiting(t, e)
  /\ Drain(queue)
  /\ tick' = [tick EXCEPT ![t].pc = "opening", ![t].open = queue, ![t].visited = {}]
  /\ UNCHANGED <<pushed, pending, store, chain, inProgress, now, crashes, hangs>>

\* openChallenge: the bond is sent, or the evidence is given up with a warning.
SendOpen(t, e) ==
  /\ tick[t].pc = "opening" /\ e \in tick[t].open
  /\ \/ /\ chain[e] = NoChallenge
        /\ \E how \in {"open", "reverted"} : chain' = [chain EXCEPT ![e] = [state |-> how, deadline |-> now + RevealWindow]]
        /\ tick' = [tick EXCEPT ![t].pc = "sent", ![t].at = e, ![t].open = @ \ {e}]
     \/ UNCHANGED chain /\ tick' = [tick EXCEPT ![t].open = @ \ {e}]
  /\ UNCHANGED <<file, queue, pushed, pending, store, inProgress, now, crashes, hangs>>

RecordOpening(t) ==
  /\ tick[t].pc = "sent" /\ Upsert(tick[t].at, "opening") /\ tick' = [tick EXCEPT ![t].pc = "mined"]
  /\ UNCHANGED <<file, queue, pushed, chain, inProgress, now, crashes, hangs>>

\* The wait for the receipt; when it fails the record stays as it is, for recoverOpenedChallenge.
OpenMined(t) ==
  LET e == tick[t].at
  IN /\ tick[t].pc = "mined"
     /\ \/ chain[e].state = "open" /\ Upsert(e, "committed")
        \/ UNCHANGED <<pending, store>>
     /\ tick' = [tick EXCEPT ![t].pc = "opening", ![t].at = "none"]
     /\ UNCHANGED <<file, queue, pushed, chain, inProgress, now, crashes, hangs>>

\* The finally of tick(), also when another tick has been started in the meantime
EndTick(t) ==
  /\ tick[t].pc = "opening" /\ tick[t].open = {}
  /\ tick' = [tick EXCEPT ![t] = Idle] /\ inProgress' = FALSE
  /\ UNCHANGED <<file, queue, pushed, pending, store, chain, now, crashes, hangs>>

Watchdog ==
  /\ inProgress /\ hangs < MaxHangs /\ hangs' = hangs + 1 /\ inProgress' = FALSE
  /\ UNCHANGED <<file, queue, pushed, pending, store, chain, tick, now, crashes>>

CrashAndRestart ==
  /\ crashes < MaxCrashes /\ crashes' = crashes + 1
  /\ queue' = file /\ pending' = store /\ tick' = [t \in Ticks |-> Idle] /\ inProgress' = FALSE
  /\ UNCHANGED <<file, pushed, store, chain, now, hangs>>

Clock ==
  /\ now < MaxTime /\ now' = now + 1
  /\ UNCHANGED <<file, queue, pushed, pending, store, chain, tick, inProgress, crashes, hangs>>

Next ==
  \/ Clock \/ Watchdog \/ CrashAndRestart
  \/ \E e \in Evidence : AgentFinds(e)
  \/ \E t \in Ticks :
       \/ ActOnRead(t) \/ Reveal(t) \/ Settle(t) \/ AfterWait(t) \/ DrainV2(t)
       \/ RecordOpening(t) \/ OpenMined(t) \/ EndTick(t)
       \/ \E found \in SUBSET Evidence : StartTick(t, found)
       \/ \E e \in Evidence : Recover(t, e) \/ ReadChallenge(t, e) \/ SendOpen(t, e)

Spec == Init /\ [][Next]_vars
------------------------------------------------------------------------------
(***************************************************************************)
(* A recorded challenge is followed to its end: its record leaves the disk *)
(* only once the challenge is settled on chain, or its opening was         *)
(* reverted and there is none, whatever crashes and overlaps.              *)
(***************************************************************************)
DropsWhenOver ==
  \A e \in Evidence :
    store[e] # None /\ store'[e] = None => chain[e].state \in {"settled", "reverted"}
DroppedOnlyWhenOver == [][DropsWhenOver]_vars
==============================================================================
