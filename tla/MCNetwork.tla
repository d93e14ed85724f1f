------------------------------ MODULE MCNetwork ------------------------------
(***************************************************************************)
(* Between the nodes, in one run; a behaviour is about one of nine parts.  *)
(*   votes      BftAgreement: three validators with 4 of stake, 1 of it    *)
(*              faulty; two blocks compete at height 1, one is alone at 2. *)
(*   round      one node's round: four validators, its own stake is 2 of   *)
(*              5, votes also come from a stranger.                        *)
(*   gossip     three nodes in a line; one double vote.                    *)
(*   http       the gossip endpoints of one node: five envelopes.          *)
(*   discovery  its peer table: four offers, two of them under one id.     *)
(*   client     one outgoing wire connection with three requests.          *)
(*   server     four incoming wire connections from two addresses.         *)
(*   store      its blocks and pins: three blocks, one erasure stripe.     *)
(*   pool       the mempool: five transactions of two senders.             *)
(* Every part but the first keeps its state in the variables s1, s2, ...   *)
(***************************************************************************)
EXTENDS BftAgreement, TLC

CONSTANTS v1, v2, v3, a1, b1, a2
VARIABLES side, s1, s2, s3, s4, s5, s6, s7, s8, s9, s10, s11, s12, s13, s14, s15

MCStake == (v1 :> 2) @@ (v2 :> 1) @@ (v3 :> 1)
MCFaulty == {v3}
MCBlocks == {a1, b1, a2}
MCHeightOf == (a1 :> 1) @@ (b1 :> 1) @@ (a2 :> 2)

RoundStake == [me |-> 2, p1 |-> 1, p2 |-> 1, p3 |-> 1]
Round == INSTANCE BftRoundSpec
  WITH Ids <- {"me", "p1", "p2", "p3", "stranger"}, LocalId <- "me",
       Stake <- RoundStake, Blocks <- {"a", "b"},
       ProposerOf <- [a |-> "p1", b |-> "stranger"], Roots <- {"r1", "r2"},
       NoRoot <- "none", NoVote <- "", Relaxed <- FALSE, round <- s1
ASSUME Round!StakeAssumption /\ Round!ThresholdAssumption

MCPhases == {"prepare"}
MCPeers == [x |-> {"y"}, y |-> {"x", "z"}, z |-> {"y"}]
Gossip == INSTANCE EvidenceGossip
  WITH Validators <- {"v", "w"}, Blocks <- {"a", "b"}, Heights <- {1, 2, 3},
       VotePhases <- MCPhases, MaxTracked <- 2, MaxEvidence <- 4,
       MaxPerValidator <- 3, Nodes <- {"x", "y", "z"}, Peers <- MCPeers,
       LastHeight <- 1, Ballots <- [v : {"v"}, h : {1}, p : MCPhases, b : {"a", "b"}],
       detector <- s1, consumed <- s2, slashes <- s3, final <- s4, inflight <- s5

Envelope(n, s, t, signed, path) ==
  [nonce |-> n, sender |-> s, ts |-> t, signed |-> signed, path |-> path, item |-> "b"]
MCEnvelopes == {Envelope("n1", "s", 2, TRUE, "gossip"), Envelope("n2", "s", 3, TRUE, "bft"),
                Envelope("n3", "u", 2, TRUE, "bft"), Envelope("n4", "s", 2, FALSE, "bft"),
                Envelope("n5", "s", 2, TRUE, "get")}
Http == INSTANCE P2PNode
  WITH Envelopes <- MCEnvelopes, Ips <- {"ip", "jp"}, Peers <- {"p"}, Roster <- {"s"},
       Skew <- 1, Ttl <- 2, NonceMax <- 4, Initial <- 3, MaxScore <- 4,
       MinScore <- -1, Reward <- 1, Failure <- 1, Invalid <- 2, Timeout <- 2,
       BanTime <- 1, MaxBan <- 2, MaxTime <- 4, MaxRequests <- 3, MaxRestarts <- 1,
       now <- s1, nonces <- s2, file <- s3, scores <- s4, seen <- s5, sent <- s6,
       sending <- s7, handling <- s8, wired <- s9, accepted <- s10, applied <- s11,
       runs <- s12, requests <- s13, restarts <- s14

Peer(i, h) == [id |-> i, host |-> h]
MCOffers == {Peer("a", "h"), Peer("b", "h"), Peer("c", "k"), Peer("a", "k")}
Discovery == INSTANCE PeerDiscovery
  WITH Offers <- MCOffers, Bootstrap <- {Peer("z", "h")}, MaxPeers <- 3,
       MaxPerHost <- 2, MaxRemovals <- 1, MaxRestarts <- 1, MaxOffers <- 2,
       peers <- s1, pending <- s2, verifying <- s3, perHost <- s4, store <- s5,
       dirty <- s6, writing <- s7, disk <- s8, loading <- s9, offers <- s10,
       removals <- s11, restarts <- s12

Greeting(n, good, c) == [node |-> n, good |-> good, nonce |-> c]
MCHandshakes == {Greeting("s", TRUE, 1), Greeting("s", TRUE, 2), Greeting("t", FALSE, 3)}
Client == INSTANCE WireClient
  WITH Reqs <- {1, 2, 3}, Finds <- {3}, Handshakes <- MCHandshakes, MaxPending <- 2,
       MaxQueue <- 2, MaxDials <- 2, stopped <- s1, socket <- s2, complete <- s3,
       remote <- s4, nonces <- s5, redial <- s6, dials <- s7, queue <- s8,
       draining <- s9, pipe <- s10, entries <- s11, state <- s12, answers <- s13,
       taken <- s14, received <- s15

MCIpOf == [s \in 1 .. 4 |-> IF s = 4 THEN "j" ELSE "i"]
MCGreetings == {Greeting("a", TRUE, 1), Greeting("a", TRUE, 2), Greeting("b", TRUE, 3),
                Greeting("me", TRUE, 4), Greeting("u", TRUE, 5), Greeting("a", FALSE, 6)}
Server == INSTANCE WireServer
  WITH Sockets <- 1 .. 4, Ips <- {"i", "j"}, IpOf <- MCIpOf, Self <- "me",
       Roster <- {"a", "b", "me"}, Greetings <- MCGreetings, MaxConnections <- 3,
       MaxPerIp <- 2, socket <- s1, node <- s2, complete <- s3, connsByIp <- s4,
       nonces <- s5

Store == INSTANCE IpfsBlockstore
  WITH Cids <- {"x", "y", "z"}, Shards <- {"y", "z"}, Needed <- 1, Elsewhere <- {"y"},
       Slots <- {1}, MaxBytes <- 2, Target <- 1, MaxPuts <- 1, MaxCalls <- 2,
       MaxRestarts <- 1, files <- s1, pins <- s2, meta <- s3, bytes <- s4,
       loaded <- s5, tasks <- s6, queue <- s7, removing <- s8, repair <- s9,
       kept <- s10, puts <- s11, calls <- s12, restarts <- s13
ASSUME Store!StoreAssumption

Transaction(id, s, n, cap, tip, gas, value) ==
  [id |-> id, from |-> s, nonce |-> n, cap |-> cap, tip |-> tip, gas |-> gas, value |-> value]
MCTxs == {Transaction(1, "a", 0, 2, 1, 1, 0), Transaction(2, "a", 1, 4, 1, 1, 1),
          Transaction(3, "a", 2, 5, 0, 2, 0), Transaction(4, "a", 0, 3, 0, 1, 7),
          Transaction(5, "b", 0, 3, 0, 2, 1)}
Pool == INSTANCE Mempool
  WITH Txs <- MCTxs, Senders <- {"a", "b"}, Balance <- [a |-> 16, b |-> 6],
       BaseFees <- {2}, MinGasPrice <- 2, BlockGas <- 4, MaxTx <- 3, MaxSize <- 2,
       MaxPerSender <- 2, Batch <- 1, Bump <- 10, MaxHangs <- 1, MaxBlocks <- 1,
       MaxAdds <- 3, pool <- s1, byNonce <- s2, bySender <- s3, poisoned <- s4,
       calls <- s5, used <- s6, nonce <- s7, balance <- s8, plan <- s9, blocks <- s10,
       adds <- s11, hangs <- s12

Unused14 == s15 = 0
Unused13 == s14 = 0 /\ Unused14
Unused12 == s13 = 0 /\ Unused13
Unused5 == s6 = 0 /\ s7 = 0 /\ s8 = 0 /\ s9 = 0 /\ s10 = 0 /\ s11 = 0 /\ s12 = 0 /\ Unused12
Unused1 == s2 = 0 /\ s3 = 0 /\ s4 = 0 /\ s5 = 0 /\ Unused5
Unused0 == s1 = 0 /\ Unused1
after1 == <<s2, s3, s4, s5, s6, s7, s8, s9, s10, s11, s12, s13, s14, s15>>
after5 == <<s6, s7, s8, s9, s10, s11, s12, s13, s14, s15>>
after12 == <<s13, s14, s15>>
after13 == <<s14, s15>>
after14 == <<s15>>
slots == <<s1, s2, s3, s4, s5, s6, s7, s8, s9, s10, s11, s12, s13, s14, s15>>

MCInit ==
  /\ Init
  /\ \/ side = "votes" /\ Unused0
     \/ side = "round" /\ Round!Init /\ Unused1
     \/ side = "gossip" /\ Gossip!Init /\ Unused5
     \/ side = "http" /\ Http!Init /\ Unused14
     \/ side = "discovery" /\ Discovery!Init /\ Unused12
     \/ side = "client" /\ Client!Init
     \/ side = "server" /\ Server!Init /\ Unused5
     \/ side = "store" /\ Store!Init /\ Unused13
     \/ side = "pool" /\ Pool!Init /\ Unused12
MCNext ==
  \/ side = "votes" /\ Next /\ UNCHANGED <<side, slots>>
  \/ side = "round" /\ Round!Next /\ UNCHANGED <<side, vars, after1>>
  \/ side = "gossip" /\ Gossip!Next /\ UNCHANGED <<side, vars, after5>>
  \/ side = "http" /\ Http!Next /\ UNCHANGED <<side, vars, after14>>
  \/ side = "discovery" /\ Discovery!Next /\ UNCHANGED <<side, vars, after12>>
  \/ side = "client" /\ Client!Next /\ UNCHANGED <<side, vars>>
  \/ side = "server" /\ Server!Next /\ UNCHANGED <<side, vars, after5>>
  \/ side = "store" /\ Store!Next /\ UNCHANGED <<side, vars, after13>>
  \/ side = "pool" /\ Pool!Next /\ UNCHANGED <<side, vars, after12>>
mcvars == <<side, vars, slots>>
MCSpec == MCInit /\ [][MCNext]_mcvars

\* A round finalizes what its node can reproduce (BftRoundSpec).
FinalizedIsReproducible == side = "round" => Round!FinalizedIsReproducible

\* A round that waits really lacks the quorum (BftRoundSpec).
NoMissedQuorum == side = "round" => Round!NoMissedQuorum

\* Every node slashes every offence, and once (EvidenceGossip).
SlashedOnceEverywhere ==
  side = "gossip" => Gossip!OneSlashPerOffence /\ Gossip!SlashesConverge



\* Backpressure keeps the order of the frames and no caller waits without a timer
\* (WireClient).
WireIsReliable == side = "client" => Client!FramesArriveInOrder /\ Client!WaitersAreWoken

\* Acknowledged pins survive concurrent pins, sweeps and restarts (IpfsBlockstore).
PinsAreKept == side = "store" => Store!PinsAreKept

==============================================================================
