----------------------------- MODULE DIDRegistry -----------------------------
(***************************************************************************)
(* contracts/contracts-src/governance/DIDRegistry.sol on top of            *)
(* SoulRegistry: delegations with chains of sub-delegations, ephemeral     *)
(* identities and credential anchors.  DIDRegistry is not called when a    *)
(* soul changes: it looks the soul up when validity is asked for.          *)
(* Every grant is an entry of one sequence, its index standing for the     *)
(* nonce that makes its identifier; verification methods, capabilities and *)
(* lineage, which nothing else reads, are left out.                        *)
(***************************************************************************)
EXTENDS SoulRegistry, Sequences

CONSTANTS Kinds, MaxDepth, MaxPerAgent, MinInterval, MaxRevocations, MaxGrants

VARIABLES grants, revocation, lastGrant

didVars == <<grants, revocation, lastGrant>>

DidInit == SoulInit /\ grants = <<>> /\ revocation = [a \in Agents |-> 0] /\ lastGrant = [a \in Agents |-> 0]

ParentAllows(agent, parent, expires, depth) ==
  /\ parent \in DOMAIN grants
  /\ LET up == grants[parent]
     IN /\ up.kind = "delegation" /\ ~up.revoked /\ up.epoch = revocation[up.agent]
        /\ up.expires >= now /\ up.to = agent /\ expires <= up.expires /\ depth = up.depth + 1

Issued(kind, agent, to, parent, depth, expires) ==
  [kind |-> kind, agent |-> agent, to |-> to, parent |-> parent, depth |-> depth, at |-> now,
   expires |-> expires, epoch |-> revocation[agent], revoked |-> FALSE, by |-> souls[agent].owner]

GrantDelegation(p, agent, to, parent, depth, expires) ==
  /\ Owns(p, agent) /\ expires > now
  /\ Cardinality({i \in DOMAIN grants : grants[i].agent = agent /\ grants[i].kind = "delegation"}) < MaxPerAgent
  /\ now >= lastGrant[agent] + MinInterval
  /\ depth > 0 => ParentAllows(agent, parent, expires, depth)
  /\ grants' = Append(grants, Issued("delegation", agent, to, parent, depth, expires))
  /\ lastGrant' = [lastGrant EXCEPT ![agent] = now]
  /\ UNCHANGED revocation

\* createEphemeralIdentity and anchorCredential
Issue(kind, p, agent, expires) ==
  /\ Owns(p, agent) /\ expires > now
  /\ grants' = Append(grants, Issued(kind, agent, agent, 0, 0, expires))
  /\ UNCHANGED <<revocation, lastGrant>>

\* revokeDelegation, deactivateEphemeralIdentity and revokeCredential: the soul need not be active
Revoke(p, i) ==
  /\ ~grants[i].revoked /\ souls[grants[i].agent].owner = p
  /\ grants' = [grants EXCEPT ![i].revoked = TRUE]
  /\ UNCHANGED <<revocation, lastGrant>>

RevokeAllDelegations(p, agent) ==
  /\ Owns(p, agent) /\ revocation[agent] < MaxRevocations
  /\ revocation' = [revocation EXCEPT ![agent] = @ + 1]
  /\ UNCHANGED <<grants, lastGrant>>

Anchored(g) == souls[g.agent].active /\ g.at >= souls[g.agent].registeredAt

Ancestor(i, n) == LET up[m \in 0 .. n] == IF m = 0 THEN i ELSE grants[up[m - 1]].parent IN up[n]

LiveHop(g) == ~g.revoked /\ g.expires >= now /\ g.epoch = revocation[g.agent] /\ Anchored(g)

IsDelegationValid(i) == \A n \in 0 .. grants[i].depth : LiveHop(grants[Ancestor(i, n)])

\* isEphemeralValid and isCredentialValid
IsTokenValid(g) == ~g.revoked /\ g.expires > now /\ Anchored(g)

Valid(i) == IF grants[i].kind = "delegation" THEN IsDelegationValid(i) ELSE IsTokenValid(grants[i])

DidNext ==
  \/ SoulNext /\ UNCHANGED didVars
  \/ /\ Len(grants) < MaxGrants
     /\ \E p \in People, a \in Agents, expires \in 1 .. MaxTime :
          \/ \E to \in Agents, parent \in 0 .. MaxGrants, depth \in 0 .. MaxDepth :
               (depth = 0) = (parent = 0) /\ GrantDelegation(p, a, to, parent, depth, expires)
          \/ \E kind \in Kinds : Issue(kind, p, a, expires)
     /\ UNCHANGED <<soulVars, now>>
  \/ /\ \E p \in People : (\E i \in DOMAIN grants : Revoke(p, i)) \/ (\E a \in Agents : RevokeAllDelegations(p, a))
     /\ UNCHANGED <<soulVars, now>>

allVars == <<soulVars, didVars, now>>
DidSpec == DidInit /\ [][DidNext]_allVars
------------------------------------------------------------------------------
(***************************************************************************)
(* A revocation is final and reaches everything granted below it: once a   *)
(* delegation, or one it descends from, was revoked or fell to a global    *)
(* revocation, no later step, and no new registration of a soul, makes it  *)
(* valid, and no new grant below it is.                                    *)
(***************************************************************************)
RevokesBelow ==
  \A i \in DOMAIN grants' :
    (\E n \in 0 .. grants'[i].depth :
       LET up == Ancestor(i, n)'
       IN  /\ up \in DOMAIN grants
           /\ \/ grants[up].revoked
              \/ grants[up].kind = "delegation" /\ grants[up].epoch < revocation[grants[up].agent])
    => ~Valid(i)'
RevocationIsTransitive == [][RevokesBelow]_allVars

(***************************************************************************)
(* What isEphemeralValid's comment says the look-up is for: what an owner  *)
(* issued does not stay valid under another owner, a guardian recovery     *)
(* included.                                                               *)
(***************************************************************************)
NothingOutlivesItsOwner ==
  \A i \in DOMAIN grants : Valid(i) => grants[i].by = souls[grants[i].agent].owner
==============================================================================
