---------------------------- MODULE PeerDiscovery ----------------------------
(***************************************************************************)
(* node/src/peer-discovery.ts and node/src/peer-store.ts: the table of     *)
(* peers a node gossips with.  A peer that another node names waits until  *)
(* its identity is proved; the table is bounded in all and for each host;  *)
(* what it holds is written to disk now and then and offered again after a *)
(* restart.  Every await (identity proof, file) lets other steps in.       *)
(***************************************************************************)
EXTENDS Naturals, Sequences, SequencesExt, FiniteSets

CONSTANTS Offers,      \* [id, host]: what peer lists, DNS seeds and files may name
          Bootstrap,   \* peers of the configuration
          MaxPeers, MaxPerHost, MaxRemovals, MaxRestarts, MaxOffers

VARIABLES peers,       \* the peers of the table
          pending,     \* peers that wait for their proof
          verifying,   \* proofs that are under way
          perHost,     \* peersPerIp
          store,       \* the peers of the PeerStore
          dirty,       \* store has changed since it was saved
          writing,     \* what a save under way writes, at most one set
          disk,
          loading,     \* the file of the last run is still being read
          offers, removals, restarts

vars == <<peers, pending, verifying, perHost, store, dirty, writing, disk, loading,
          offers, removals, restarts>>

Hosts == {p.host : p \in Offers \cup Bootstrap}
Ids(set) == {p.id : p \in set}

Init ==
  /\ peers = Bootstrap
  /\ perHost = [h \in Hosts |-> Cardinality({p \in Bootstrap : p.host = h})]
  /\ pending = {} /\ verifying = {} /\ store = {} /\ dirty = FALSE /\ writing = {}
  /\ disk = {} /\ loading = TRUE
  /\ offers = 0 /\ removals = 0 /\ restarts = 0

\* One peer of a list, given the peers that wait already.
Named(waiting, p) ==
  IF /\ p.id \notin Ids(peers) \cup Ids(waiting)
     /\ Cardinality(peers) + Cardinality(waiting) < MaxPeers
     /\ perHost[p.host] < MaxPerHost
  THEN waiting \cup {p} ELSE waiting

\* A proof starts for each, unless one for its id is still under way.
AddDiscoveredPeers(list) ==
  /\ pending' = FoldLeft(Named, pending, list)
  /\ verifying' = verifying \cup {p \in pending' \ pending : p.id \notin Ids(verifying)}

Discover(list) ==
  /\ offers < MaxOffers /\ offers' = offers + 1
  /\ AddDiscoveredPeers(list)
  /\ UNCHANGED <<peers, perHost, store, dirty, writing, disk, loading, removals, restarts>>

Stored(p) == {q \in store : q.id # p.id} \cup {p}

Promote(p) ==
  /\ peers' = peers \cup {p}
  /\ perHost' = [perHost EXCEPT ![p.host] = @ + 1]
  /\ store' = Stored(p) /\ dirty' = TRUE


StillFits(p) ==
  /\ p.id \notin Ids(peers)
  /\ Cardinality(peers) < MaxPeers
  /\ perHost[p.host] < MaxPerHost

\* verifyAndPromotePeer after its await
Verified(p, ok) ==
  /\ p \in verifying
  /\ IF ok /\ StillFits(p) THEN Promote(p) ELSE UNCHANGED <<peers, perHost, store, dirty>>
  /\ pending' = {q \in pending : q.id # p.id}
  /\ verifying' = verifying \ {p}
  /\ UNCHANGED <<writing, disk, loading, offers, removals, restarts>>

\* removePeer, for the administrator
RemovePeer(id) ==
  /\ removals < MaxRemovals /\ removals' = removals + 1
  /\ id \in Ids(peers) \cup Ids(pending)
  /\ peers' = {p \in peers : p.id # id}
  /\ pending' = {p \in pending : p.id # id}
  /\ perHost' = [h \in Hosts |->
                   IF \E p \in peers : p.id = id /\ p.host = h THEN perHost[h] - 1
                   ELSE perHost[h]]
  /\ store' = {p \in store : p.id # id}
  /\ dirty' = (dirty \/ id \in Ids(store))
  /\ UNCHANGED <<verifying, writing, disk, loading, offers, restarts>>

\* loadInitialPeers: entries that are too old are left out, and the store forgets what
\* was promoted while the file was read.
LoadInitialPeers(found) ==
  /\ loading /\ loading' = FALSE
  /\ store' = found
  /\ \E list \in SetToSeqs(found) : AddDiscoveredPeers(list)
  /\ UNCHANGED <<peers, perHost, dirty, writing, disk, offers, removals, restarts>>

\* PeerStore.save up to its await, and after the rename.  A failed write leaves the disk.
StartSave ==
  /\ dirty /\ writing = {}
  /\ writing' = {store}
  /\ UNCHANGED <<peers, pending, verifying, perHost, store, dirty, disk, loading, offers,
                 removals, restarts>>

EndSave(ok) ==
  /\ \E data \in writing : disk' = IF ok THEN data ELSE disk
  /\ writing' = {} /\ dirty' = (dirty /\ ~ok)
  /\ UNCHANGED <<peers, pending, verifying, perHost, store, loading, offers, removals,
                 restarts>>

Restart ==
  /\ restarts < MaxRestarts /\ restarts' = restarts + 1
  /\ peers' = Bootstrap
  /\ perHost' = [h \in Hosts |-> Cardinality({p \in Bootstrap : p.host = h})]
  /\ pending' = {} /\ verifying' = {} /\ store' = {} /\ dirty' = FALSE /\ writing' = {}
  /\ loading' = TRUE
  /\ UNCHANGED <<disk, offers, removals>>

Next ==
  \/ \E p \in Offers, q \in Offers : Discover(<<p, q>>)
  \/ \E p \in Offers, ok \in BOOLEAN : Verified(p, ok)
  \/ \E id \in Ids(Offers \cup Bootstrap) : RemovePeer(id)
  \/ \E found \in SUBSET disk : LoadInitialPeers(found)
  \/ StartSave \/ (\E ok \in BOOLEAN : EndSave(ok)) \/ Restart

Spec == Init /\ [][Next]_vars

(***************************************************************************)
(* Properties                                                              *)
(***************************************************************************)

\* The table stays within its bound, no host has more than its share, the counters of
\* the hosts are exact and no id is listed twice, although proofs end in any order and
\* peers are removed meanwhile (peer-discovery.ts: verifyAndPromotePeer, removePeer).
PeerTableIsSound ==
  /\ Cardinality(peers) <= MaxPeers
  /\ Cardinality(Ids(peers)) = Cardinality(peers)
  /\ \A h \in Hosts : /\ perHost[h] = Cardinality({p \in peers : p.host = h})
                       /\ perHost[h] <= MaxPerHost
=============================================================================
