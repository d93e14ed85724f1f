----------------------------- MODULE WireServer ------------------------------
(***************************************************************************)
(* node/src/wire-server.ts: the inbound side of the wire protocol.  Whom   *)
(* the server lets in, how many connections an address may hold, and what  *)
(* becomes of the old connection of a node that connects again.  A socket  *)
(* that is destroyed reports its close later.                              *)
(***************************************************************************)
EXTENDS Naturals, FiniteSets

CONSTANTS Sockets,       \* connections that are ever opened
          Ips, IpOf,     \* and the address of each
          Self, Roster,
          Greetings,     \* [node, good, nonce]: handshakes that may arrive
          MaxConnections, MaxPerIp

VARIABLES socket,        \* "unused", "open", "destroyed" or "closed"
          node,          \* conn.nodeId
          complete,      \* conn.handshakeComplete
          connsByIp, nonces

vars == <<socket, node, complete, connsByIp, nonces>>

Nobody == "nobody"

\* The table holds a connection until its close event.
Connections == {s \in Sockets : socket[s] \in {"open", "destroyed"}}

Init ==
  /\ socket = [s \in Sockets |-> "unused"]
  /\ node = [s \in Sockets |-> Nobody]
  /\ complete = [s \in Sockets |-> FALSE]
  /\ connsByIp = [ip \in Ips |-> 0]
  /\ nonces = {}

\* handleConnection.  A refused socket never enters the table and has no close handler.
HandleConnection(s) ==
  /\ socket[s] = "unused"
  /\ IF Cardinality(Connections) < MaxConnections /\ connsByIp[IpOf[s]] < MaxPerIp
     THEN /\ socket' = [socket EXCEPT ![s] = "open"]
          /\ connsByIp' = [connsByIp EXCEPT ![IpOf[s]] = @ + 1]
     ELSE socket' = [socket EXCEPT ![s] = "closed"] /\ UNCHANGED connsByIp
  /\ UNCHANGED <<node, complete, nonces>>

\* A handshake that comes twice, of another chain, stale, replayed or badly signed; a
\* handshake, write or idle timeout; too many frames; a handler that throws.
Drop(s) ==
  /\ socket[s] = "open"
  /\ socket' = [socket EXCEPT ![s] = "destroyed"]
  /\ UNCHANGED <<node, complete, connsByIp, nonces>>

\* The nonce is used up before the signature is looked at.
Refused(s, g) ==
  /\ socket[s] = "open" /\ ~complete[s] /\ g.nonce \notin nonces
  /\ nonces' = nonces \cup {g.nonce}
  /\ ~g.good \/ g.node \notin Roster
  /\ socket' = [socket EXCEPT ![s] = "destroyed"]
  /\ UNCHANGED <<node, complete, connsByIp>>

Evicted(s, g) == {t \in Connections \ {s} : node[t] = g.node}

\* handleFrame, for a handshake that passes.  A connection of the node to itself ends
\* after older ones have made way.
Handshake(s, g) ==
  /\ socket[s] = "open" /\ ~complete[s]
  /\ g.nonce \notin nonces /\ nonces' = nonces \cup {g.nonce}
  /\ g.good /\ g.node \in Roster
  /\ socket' = [t \in Sockets |->
                  IF t \in Evicted(s, g) \/ (t = s /\ g.node = Self) THEN "destroyed"
                  ELSE socket[t]]
  /\ IF g.node = Self THEN UNCHANGED <<node, complete>>
     ELSE /\ node' = [node EXCEPT ![s] = g.node]
          /\ complete' = [complete EXCEPT ![s] = TRUE]
  /\ UNCHANGED connsByIp

\* The close event of a socket of the table.
Closed(s) ==
  /\ socket[s] \in {"open", "destroyed"}
  /\ socket' = [socket EXCEPT ![s] = "closed"]
  /\ connsByIp' = [connsByIp EXCEPT ![IpOf[s]] = IF @ <= 1 THEN 0 ELSE @ - 1]
  /\ UNCHANGED <<node, complete, nonces>>

Next ==
  \/ \E s \in Sockets : HandleConnection(s) \/ Drop(s) \/ Closed(s)
  \/ \E s \in Sockets, g \in Greetings : Refused(s, g) \/ Handshake(s, g)

Spec == Init /\ [][Next]_vars

\* A node that connects again takes over: no two live connections belong to one node, and
\* every address is charged for exactly the connections it holds, whatever the order in
\* which sockets are destroyed and report it (wire-server.ts: handleConnection, the
\* handshake, the close handler).
OneLinkPerNode ==
  /\ \A s, t \in {u \in Sockets : socket[u] = "open" /\ complete[u]} :
       node[s] = node[t] => s = t
  /\ \A ip \in Ips : /\ connsByIp[ip] = Cardinality({s \in Connections : IpOf[s] = ip})
                     /\ connsByIp[ip] <= MaxPerIp
=============================================================================
