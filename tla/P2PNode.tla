------------------------------- MODULE P2PNode -------------------------------
(***************************************************************************)
(* node/src/p2p.ts: one node's gossip endpoint.  A request passes the ban  *)
(* and rate checks, the signed envelope with its nonce, and the roster; a  *)
(* gossiped item then reaches its handler once and is passed on to the     *)
(* configured peers.  The wire server (node/src/wire-server.ts) hands over *)
(* its blocks and transactions as well.  The network may deliver an        *)
(* envelope late and more than once, and the node may restart, keeping     *)
(* only the nonce file.                                                    *)
(* Inbound authentication is in its mode "enforce".                        *)
(***************************************************************************)
EXTENDS Integers, Sequences, SequencesExt, FiniteSets

CONSTANTS Envelopes,    \* [nonce, sender, ts, signed, path, item]: what arrives
          Ips, Peers,   \* addresses that requests come from; peers to gossip to
          Roster,       \* senders that are let in
          Skew, Ttl, NonceMax,
          Initial, MaxScore, MinScore, Reward,
          Failure, Invalid, Timeout, BanTime, MaxBan,
          MaxTime, MaxRequests, MaxRestarts

VARIABLES now, nonces, file, scores, seen, sent, sending,
          handling,     \* items in the handler of the HTTP endpoint
          wired,        \* items in the handler of the wire server
          accepted,     \* history: nonces whose envelope was let in
          applied,      \* history: items the handler took in this process
          runs,         \* history: handler runs of each item in this process
          requests, restarts

trackers == <<nonces, file>>
gossip == <<seen, handling, wired, applied, runs, sent, sending>>
budget == <<requests, restarts>>
vars == <<now, trackers, scores, gossip, accepted, budget>>

Senders == {e.sender : e \in Envelopes}
Items == {e.item : e \in Envelopes}
Posts == {"gossip", "bft"}

(***************************************************************************)
(* PeerScoring                                                             *)
(***************************************************************************)
Higher(a, b) == IF a > b THEN a ELSE b
Lower(a, b) == IF a < b THEN a ELSE b

FreshScore == [score |-> Initial, until |-> 0, bans |-> 0]

BanLength(bans) == Lower(BanTime * 2 ^ Lower(bans - 1, 10), MaxBan)

Penalised(p, penalty) ==
  LET score == Higher(p.score - penalty, MinScore)
      bans == IF score <= 0 THEN p.bans + 1 ELSE p.bans IN
  [score |-> score, bans |-> bans,
   until |-> IF score <= 0 THEN now + BanLength(bans) ELSE p.until]

Rewarded(p) == [p EXCEPT !.score = Lower(@ + Reward, MaxScore)]

IsBanned(id) == scores[id].until > now

PenaliseAll(ids, penalty) ==
  scores' = [id \in DOMAIN scores |->
               IF id \in ids THEN Penalised(scores[id], penalty) ELSE scores[id]]

RewardAll(ids) ==
  scores' = [id \in DOMAIN scores |->
               IF id \in ids THEN Rewarded(scores[id]) ELSE scores[id]]

ApplyDecay ==
  scores' = [id \in DOMAIN scores |->
               LET s == scores[id].score IN
               IF IsBanned(id) \/ s = Initial THEN scores[id]
               ELSE [scores[id] EXCEPT !.score = IF s > Initial THEN s - 1 ELSE s + 1]]


IsExpired(entry) == entry.ts < now - Ttl

Has(key) == \E i \in DOMAIN nonces : nonces[i].key = key /\ ~IsExpired(nonces[i])

Keys(list) == {list[i].key : i \in DOMAIN list}

\* What remains of a list when its oldest entries make way.
Newest(list, max) == SubSeq(list, Len(list) - Lower(Len(list), max) + 1, Len(list))

Add(key) ==
  LET entry == [ts |-> now, key |-> key] IN
  IF key \in Keys(nonces) THEN UNCHANGED <<nonces, file>>
  ELSE /\ nonces' = Append(Newest(nonces, NonceMax - 1), entry)
       /\ file' = Append(file, entry)

\* A map filled line by line: a key keeps its first place and its last timestamp.
AsMap(lines) ==
  LET first(i) == \A j \in 1 .. i - 1 : lines[j].key # lines[i].key
      last(key) == lines[CHOOSE i \in DOMAIN lines :
                           /\ lines[i].key = key
                           /\ \A j \in i + 1 .. Len(lines) : lines[j].key # key]
      order == SelectSeq([i \in DOMAIN lines |-> i], first) IN
  [k \in DOMAIN order |-> last(lines[order[k]].key)]

LoadPersisted == Newest(AsMap(SelectSeq(file, LAMBDA e : ~IsExpired(e))), NonceMax)

Compact ==
  /\ nonces' = SelectSeq(nonces, LAMBDA e : ~IsExpired(e))
  /\ file' = nonces'
  /\ UNCHANGED <<now, scores, gossip, accepted, budget>>

(***************************************************************************)
(* The request handler                                                     *)
(***************************************************************************)
InTime(e) == now - e.ts <= Skew /\ e.ts - now <= Skew

\* verifySignedP2PPayload.  The signature covers the path of the request.
Verified(e, route) == InTime(e) /\ ~Has(e.nonce) /\ e.signed /\ e.path = route

Init ==
  /\ now = 1 /\ nonces = <<>> /\ file = <<>>
  /\ scores = [id \in Ips \cup Senders \cup Peers |-> FreshScore]
  /\ seen = {} /\ handling = {} /\ sending = {}
  /\ sent = [p \in Peers |-> {}]
  /\ wired = {}
  /\ accepted = <<>> /\ applied = {} /\ runs = [i \in Items |-> 0]
  /\ requests = 0 /\ restarts = 0

Arrives == requests < MaxRequests /\ requests' = requests + 1

\* Requests that are answered before the body is looked at, or after the sender is.
TurnedAway(ip, e, route, limited) ==
  /\ Arrives
  /\ \/ /\ route # "bft" /\ IsBanned(ip)
        /\ UNCHANGED scores
     \/ /\ ~(route # "bft" /\ IsBanned(ip)) /\ limited
        /\ IF route = "bft" THEN UNCHANGED scores ELSE PenaliseAll({ip}, Timeout)
     \/ /\ route # "bft" /\ ~IsBanned(ip) /\ ~limited /\ IsBanned(e.sender)
        /\ UNCHANGED scores
  /\ UNCHANGED <<now, trackers, gossip, accepted, restarts>>

Passes(ip, e, route) == route = "bft" \/ (~IsBanned(ip) /\ ~IsBanned(e.sender))

\* The 401 and 403 answers.  The nonce of a sender outside the roster is used up.
Rejected(ip, e, route) ==
  /\ Arrives /\ Passes(ip, e, route)
  /\ \/ ~Verified(e, route) /\ UNCHANGED <<nonces, file>>
     \/ Verified(e, route) /\ e.sender \notin Roster /\ Add(e.nonce)
  /\ PenaliseAll({ip, e.sender}, Invalid)
  /\ UNCHANGED <<now, gossip, accepted, restarts>>

MissingAuth(ip) ==
  /\ Arrives /\ ~IsBanned(ip)
  /\ PenaliseAll({ip}, Failure)
  /\ UNCHANGED <<now, trackers, gossip, accepted, restarts>>

\* receiveTx, receiveBlock up to the await of the handler
Receive(item) ==
  IF item \in seen THEN UNCHANGED <<seen, handling, runs>>
  ELSE /\ seen' = seen \cup {item}
       /\ handling' = handling \cup {item}
       /\ runs' = [runs EXCEPT ![item] = @ + 1]

Accept(ip, e, route) ==
  /\ Arrives /\ Passes(ip, e, route)
  /\ Verified(e, route) /\ e.sender \in Roster
  /\ Add(e.nonce) /\ accepted' = Append(accepted, e.nonce)
  /\ RewardAll({ip, e.sender})
  /\ IF route = "gossip" THEN Receive(e.item) ELSE UNCHANGED <<seen, handling, runs>>
  /\ UNCHANGED <<now, wired, applied, sent, sending, restarts>>

\* The snapshots, the peer list and the node's details: same envelope, no scores.
GetRequest(ip, e) ==
  /\ Arrives /\ ~IsBanned(ip)
  /\ Verified(e, "get") /\ Add(e.nonce)
  /\ accepted' = IF e.sender \in Roster THEN Append(accepted, e.nonce) ELSE accepted
  /\ UNCHANGED <<now, scores, gossip, restarts>>

(***************************************************************************)
(* After the handler: broadcast                                            *)
(***************************************************************************)
Broadcast(item) ==
  /\ sending' = sending \cup {<<p, item>> : p \in {q \in Peers : item \notin sent[q]}}

Handled(item, ok) ==
  /\ item \in handling
  /\ handling' = handling \ {item}
  /\ IF ok THEN applied' = applied \cup {item} /\ Broadcast(item)
           ELSE UNCHANGED <<applied, sending>>
  /\ UNCHANGED <<now, trackers, scores, seen, wired, runs, sent, accepted, budget>>

\* A Block or Transaction frame of the wire server, which marks it in the same sets.
WireFrame(item) ==
  /\ item \notin seen /\ seen' = seen \cup {item}
  /\ wired' = wired \cup {item}
  /\ runs' = [runs EXCEPT ![item] = @ + 1]
  /\ UNCHANGED <<now, trackers, scores, handling, applied, sent, sending, accepted,
                 budget>>

\* Its handler swallows every error; then onBlockRelay or onTxRelay.
WireHandled(item) ==
  /\ item \in wired /\ wired' = wired \ {item}
  /\ applied' = applied \cup {item}
  /\ Receive(item)
  /\ UNCHANGED <<now, trackers, scores, sent, sending, accepted, budget>>

SendDone(p, item, ok) ==
  /\ <<p, item>> \in sending
  /\ sending' = sending \ {<<p, item>>}
  /\ IF ok THEN sent' = [sent EXCEPT ![p] = @ \cup {item}] /\ RewardAll({p})
           ELSE UNCHANGED sent /\ PenaliseAll({p}, Failure)
  /\ UNCHANGED <<now, trackers, seen, handling, wired, applied, runs, accepted,
                 budget>>

Tick ==
  /\ now < MaxTime
  /\ now' = now + 1
  /\ ApplyDecay
  /\ UNCHANGED <<trackers, gossip, accepted, budget>>

Restart ==
  /\ restarts < MaxRestarts /\ restarts' = restarts + 1
  /\ nonces' = LoadPersisted
  /\ scores' = [id \in DOMAIN scores |-> FreshScore]
  /\ seen' = {} /\ handling' = {} /\ sending' = {} /\ sent' = [p \in Peers |-> {}]
  /\ wired' = {} /\ applied' = {} /\ runs' = [i \in Items |-> 0]
  /\ UNCHANGED <<now, file, accepted, requests>>

Next ==
  \/ \E ip \in Ips, e \in Envelopes, route \in Posts :
       \/ \E limited \in BOOLEAN : TurnedAway(ip, e, route, limited)
       \/ Rejected(ip, e, route)
       \/ Accept(ip, e, route)
  \/ \E ip \in Ips : MissingAuth(ip) \/ \E e \in Envelopes : GetRequest(ip, e)
  \/ \E item \in Items, ok \in BOOLEAN :
       Handled(item, ok) \/ \E p \in Peers : SendDone(p, item, ok)
  \/ \E item \in Items : WireFrame(item) \/ WireHandled(item)
  \/ Compact \/ Tick \/ Restart

Spec == Init /\ [][Next]_vars

(***************************************************************************)
(* Properties                                                              *)
(***************************************************************************)

\* An envelope is let in at most once, however late its copies arrive and whenever the
\* node restarts or compacts its nonce file (p2p.ts: verifySignedP2PPayload, the nonce
\* tracker), while the tracker has room for the nonces of its time to live.
EnvelopeAcceptedOnce == IsInjective(accepted)

\* Within one life of the process an item enters its handler once, even while the first
\* run still awaits, and only what the handler took is offered to the peers
\* (p2p.ts: receiveTx, receiveBlock, broadcast).
GossipIsHandledOnce ==
  /\ \A i \in Items : runs[i] <= 1
  /\ {s[2] : s \in sending} \cup UNION {sent[p] : p \in Peers} \subseteq applied
=============================================================================
