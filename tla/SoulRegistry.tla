---------------------------- MODULE SoulRegistry -----------------------------
(***************************************************************************)
(* contracts/contracts-src/governance/SoulRegistry.sol: souls and their    *)
(* owners, recovery of a soul by its guardians, and its resurrection on a  *)
(* carrier.  One action per external function that changes what is         *)
(* modelled; a call that reverts is not a step.  Signatures are by the     *)
(* caller or by the holder of the resurrection key; identity documents and *)
(* backup anchors, which nothing else reads, are left out.                 *)
(***************************************************************************)
EXTENDS Naturals, FiniteSets

CONSTANTS Agents, People, Nobody, Carriers, RecoveryDelay, ResurrectionDelay, MaxOffline,
          MaxGuardians, MaxTime, MaxEpoch, MaxRequests, MaxResurrections

VARIABLES souls,          \* [owner, active, registeredAt] of an agent
          ownerToAgent,
          guardians,      \* active guardians of an agent
          epoch,          \* recoveryEpoch
          requests,       \* recovery requests: id -> request
          config,         \* [configured, lastHeartbeat] of an agent
          carriers,       \* [owner, active, available]
          resurrections,  \* resurrection requests
          now

soulVars == <<souls, ownerToAgent, guardians, epoch, requests, config, carriers, resurrections>>

NoSoul == [owner |-> Nobody, active |-> FALSE, registeredAt |-> 0]
NoConfig == [configured |-> FALSE, lastHeartbeat |-> 0]

SoulInit ==
  /\ souls = [a \in Agents |-> NoSoul] /\ ownerToAgent = [p \in People |-> Nobody]
  /\ guardians = [a \in Agents |-> {}] /\ epoch = [a \in Agents |-> 0]
  /\ requests = {} /\ resurrections = {} /\ now = 1
  /\ config = [a \in Agents |-> NoConfig]
  /\ carriers = [c \in Carriers |-> [owner |-> Nobody, active |-> FALSE, available |-> FALSE]]

Owns(p, a) == souls[a].active /\ souls[a].owner = p

RegisterSoul(p, a) ==
  /\ ~souls[a].active /\ ownerToAgent[p] = Nobody /\ epoch[a] < MaxEpoch
  /\ souls' = [souls EXCEPT ![a] = [owner |-> p, active |-> TRUE, registeredAt |-> now]]
  /\ ownerToAgent' = [ownerToAgent EXCEPT ![p] = a]
  /\ guardians' = [guardians EXCEPT ![a] = {}] /\ config' = [config EXCEPT ![a] = NoConfig]
  /\ epoch' = [epoch EXCEPT ![a] = @ + 1]
  /\ UNCHANGED <<requests, carriers, resurrections, now>>

DeactivateSoul(p, a) ==
  /\ Owns(p, a)
  /\ souls' = [souls EXCEPT ![a].active = FALSE]
  /\ ownerToAgent' = [ownerToAgent EXCEPT ![p] = Nobody]
  /\ UNCHANGED <<guardians, epoch, requests, config, carriers, resurrections, now>>

AddGuardian(p, a, g) ==
  /\ Owns(p, a) /\ g # p /\ g \notin guardians[a] /\ Cardinality(guardians[a]) < MaxGuardians
  /\ guardians' = [guardians EXCEPT ![a] = @ \cup {g}]
  /\ UNCHANGED <<souls, ownerToAgent, epoch, requests, config, carriers, resurrections, now>>

RemoveGuardian(p, a, g) ==
  /\ Owns(p, a) /\ g \in guardians[a]
  /\ guardians' = [guardians EXCEPT ![a] = @ \ {g}]
  /\ UNCHANGED <<souls, ownerToAgent, epoch, requests, config, carriers, resurrections, now>>

(***************************************************************************)
(* Recovery.  The identifier of a request hashes the agent, the new owner, *)
(* the time and the initiator: starting it again at the same time resets   *)
(* the request, but not who has approved it.                               *)
(***************************************************************************)
Id(r) == <<r.agent, r.newOwner, r.at, r.initiator>>
With(set, r) == {q \in set : Id(q) # Id(r)} \cup {r}

InitiateRecovery(g, a, new) ==
  /\ souls[a].active /\ g \in guardians[a]
  /\ LET fresh == [agent |-> a, newOwner |-> new, at |-> now, initiator |-> g, epoch |-> epoch[a], approvals |-> 1,
                   approved |-> {g}, snapshot |-> Cardinality(guardians[a]), executed |-> FALSE]
         earlier == {q \in requests : Id(q) = Id(fresh)}
     IN /\ earlier # {} \/ Cardinality(requests) < MaxRequests
        /\ requests' = With(requests, [fresh EXCEPT !.approved = {g} \cup UNION {q.approved : q \in earlier}])
  /\ UNCHANGED <<souls, ownerToAgent, guardians, epoch, config, carriers, resurrections, now>>

ApproveRecovery(g, r) ==
  /\ ~r.executed /\ g \in guardians[r.agent] /\ g \notin r.approved
  /\ requests' = With(requests, [r EXCEPT !.approved = @ \cup {g}, !.approvals = @ + 1])
  /\ UNCHANGED <<souls, ownerToAgent, guardians, epoch, config, carriers, resurrections, now>>

TwoThirds(n) == (n * 2 + 2) \div 3

\* A plausible slip: a request outlives the registration it was made for.
CurrentAnyEpoch(r) == souls[r.agent].active

Current(r) == souls[r.agent].active /\ r.at >= souls[r.agent].registeredAt /\ r.epoch = epoch[r.agent]

CompleteRecovery(r) ==
  /\ ~r.executed /\ Current(r) /\ r.approvals >= TwoThirds(r.snapshot)
  /\ now >= r.at + RecoveryDelay /\ ownerToAgent[r.newOwner] = Nobody
  /\ requests' = With(requests, [r EXCEPT !.executed = TRUE])
  /\ ownerToAgent' = [ownerToAgent EXCEPT ![souls[r.agent].owner] = Nobody, ![r.newOwner] = r.agent]
  /\ souls' = [souls EXCEPT ![r.agent].owner = r.newOwner]
  /\ epoch' = [epoch EXCEPT ![r.agent] = @ + 1]
  /\ UNCHANGED <<guardians, config, carriers, resurrections, now>>

CancelRecovery(p, r) ==
  /\ ~r.executed /\ souls[r.agent].owner = p
  /\ requests' = With(requests, [r EXCEPT !.executed = TRUE])
  /\ UNCHANGED <<souls, ownerToAgent, guardians, epoch, config, carriers, resurrections, now>>

(***************************************************************************)
(* Resurrection.                                                           *)
(***************************************************************************)
ConfigureResurrection(p, a) ==
  /\ Owns(p, a) /\ MaxResurrections > 0
  /\ config' = [config EXCEPT ![a] = [configured |-> TRUE, lastHeartbeat |-> now]]
  /\ UNCHANGED <<souls, ownerToAgent, guardians, epoch, requests, carriers, resurrections, now>>

Heartbeat(p, a) ==
  /\ Owns(p, a) /\ config[a].configured /\ config' = [config EXCEPT ![a].lastHeartbeat = now]
  /\ UNCHANGED <<souls, ownerToAgent, guardians, epoch, requests, carriers, resurrections, now>>

IsOffline(a) == config[a].configured /\ now > config[a].lastHeartbeat + MaxOffline

RegisterCarrier(p, c) ==
  /\ ~carriers[c].active
  /\ carriers' = [carriers EXCEPT ![c] = [owner |-> p, active |-> TRUE, available |-> TRUE]]
  /\ UNCHANGED <<souls, ownerToAgent, guardians, epoch, requests, config, resurrections, now>>

\* deregisterCarrier, and updateCarrierAvailability of an active carrier
UpdateCarrier(p, c, active, available) ==
  /\ carriers[c].active /\ carriers[c].owner = p /\ available => active
  /\ carriers' = [carriers EXCEPT ![c].active = active, ![c].available = available]
  /\ UNCHANGED <<souls, ownerToAgent, guardians, epoch, requests, config, resurrections, now>>

Resurrection(a, c, p, trigger, approved, snapshot) ==
  [agent |-> a, carrier |-> c, initiator |-> p, at |-> now, approvals |-> Cardinality(approved), approved |-> approved,
   snapshot |-> snapshot, executed |-> FALSE, confirmed |-> FALSE, trigger |-> trigger, done |-> FALSE]

ResId(r) == <<r.agent, r.carrier, r.at, r.initiator, r.trigger>>
WithRes(set, r) == {q \in set : ResId(q) # ResId(r)} \cup {r}

InitiateResurrection(p, a, c, trigger) ==
  /\ souls[a].active /\ config[a].configured /\ carriers[c].active /\ carriers[c].available
  /\ trigger = "GuardianVote" => p \in guardians[a] /\ IsOffline(a)
  /\ Cardinality(resurrections) < MaxResurrections
  /\ LET vote == trigger = "GuardianVote"
         fresh == Resurrection(a, c, p, trigger, IF vote THEN {p} ELSE {}, IF vote THEN Cardinality(guardians[a]) ELSE 0)
         earlier == {q \in resurrections : ResId(q) = ResId(fresh)}
     IN resurrections' = WithRes(resurrections, [fresh EXCEPT !.approved = @ \cup UNION {q.approved : q \in earlier}])
  /\ UNCHANGED <<souls, ownerToAgent, guardians, epoch, requests, config, carriers, now>>

ApproveResurrection(g, r) ==
  /\ ~r.executed /\ g \in guardians[r.agent] /\ g \notin r.approved
  /\ resurrections' = WithRes(resurrections, [r EXCEPT !.approved = @ \cup {g}, !.approvals = @ + 1])
  /\ UNCHANGED <<souls, ownerToAgent, guardians, epoch, requests, config, carriers, now>>

ConfirmCarrier(p, r) ==
  /\ ~r.executed /\ carriers[r.carrier].owner = p
  /\ resurrections' = WithRes(resurrections, [r EXCEPT !.confirmed = TRUE])
  /\ UNCHANGED <<souls, ownerToAgent, guardians, epoch, requests, config, carriers, now>>

VoteIsReady(r) ==
  /\ IsOffline(r.agent) /\ r.approvals >= TwoThirds(r.snapshot) /\ now >= r.at + ResurrectionDelay

CompleteResurrection(r) ==
  /\ ~r.executed /\ r.confirmed /\ r.trigger = "GuardianVote" => VoteIsReady(r)
  /\ resurrections' = WithRes(resurrections, [r EXCEPT !.executed = TRUE, !.done = TRUE])
  /\ config' = [config EXCEPT ![r.agent].lastHeartbeat = now]
  /\ UNCHANGED <<souls, ownerToAgent, guardians, epoch, requests, carriers, now>>

CancelResurrection(p, r) ==
  /\ ~r.executed /\ p \in {souls[r.agent].owner, r.initiator}
  /\ resurrections' = WithRes(resurrections, [r EXCEPT !.executed = TRUE])
  /\ UNCHANGED <<souls, ownerToAgent, guardians, epoch, requests, config, carriers, now>>

Tick == now < MaxTime /\ now' = now + 1

OwnerSteps(p, a) ==
  \/ RegisterSoul(p, a) \/ DeactivateSoul(p, a) \/ ConfigureResurrection(p, a) \/ Heartbeat(p, a)
  \/ \E q \in People : AddGuardian(p, a, q) \/ RemoveGuardian(p, a, q) \/ InitiateRecovery(p, a, q)
  \/ \E c \in Carriers, t \in {"OwnerKey", "GuardianVote"} : InitiateResurrection(p, a, c, t)

SoulNext ==
  \/ \E p \in People, a \in Agents : OwnerSteps(p, a)
  \/ \E r \in requests : CompleteRecovery(r) \/ \E p \in People : ApproveRecovery(p, r) \/ CancelRecovery(p, r)
  \/ \E r \in resurrections :
       CompleteResurrection(r)
       \/ \E p \in People : ApproveResurrection(p, r) \/ ConfirmCarrier(p, r) \/ CancelResurrection(p, r)
  \/ \E p \in People, c \in Carriers :
       RegisterCarrier(p, c) \/ \E active, available \in BOOLEAN : UpdateCarrier(p, c, active, available)
  \/ (Tick /\ UNCHANGED soulVars)

SoulSpec == SoulInit /\ [][SoulNext]_<<soulVars, now>>
------------------------------------------------------------------------------
(***************************************************************************)
(* The two tables tell the same: an active soul is the one its owner is    *)
(* entered with, and nobody is entered with a soul of another or with a    *)
(* soul that was given up, through registration, recovery and deactivation *)
(***************************************************************************)
OneSoulPerOwner ==
  /\ \A a \in Agents : souls[a].active => ownerToAgent[souls[a].owner] = a
  /\ \A p \in People : ownerToAgent[p] # Nobody => Owns(p, ownerToAgent[p])

(***************************************************************************)
(* An active soul changes hands only by a recovery that was started under  *)
(* its present registration and owner, waited for the delay, and carries   *)
(* two thirds of the guardians there were when it started.                 *)
(***************************************************************************)
MovesByRecovery ==
  \A a \in Agents :
    souls[a].active /\ souls'[a].active /\ souls'[a].owner # souls[a].owner =>
      \E r \in requests :
        /\ r.agent = a /\ r.newOwner = souls'[a].owner /\ ~r.executed
        /\ r.at >= souls[a].registeredAt /\ r.epoch = epoch[a] /\ now >= r.at + RecoveryDelay
        /\ 3 * Cardinality(r.approved) >= 2 * r.snapshot
OwnershipMovesByRecovery == [][MovesByRecovery]_<<soulVars, now>>
==============================================================================
