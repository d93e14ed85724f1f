----------------------------- MODULE WireClient ------------------------------
(***************************************************************************)
(* node/src/wire-client.ts: one outbound TCP connection of the wire        *)
(* protocol.  Frames are written to the socket, or wait in a queue while   *)
(* the socket reports backpressure; requests wait for their answer, their  *)
(* timer or the end of the connection; a lost connection is dialled again. *)
(***************************************************************************)
EXTENDS Naturals, Sequences, SequencesExt, FiniteSets

CONSTANTS Reqs,          \* the requests callers make; each is one frame
          Finds,         \* those of them that are FindNode, the others ask for blocks
          Handshakes,    \* [node, good, nonce]: what the server may introduce itself with
          MaxPending, MaxQueue, MaxDials

VARIABLES stopped, socket, complete, remote, nonces, redial, dials,
          queue, draining,   \* sendQueue, and whether a drain listener is attached
          pipe,              \* written to the socket and not yet read by the server
          entries,           \* pending maps: requests with an armed timer
          state,             \* what each caller sees: "new", "waiting" or "settled"
          answers,           \* answers on their way
          taken, received    \* history of this connection: frames sent, frames read

vars == <<stopped, socket, complete, remote, nonces, redial, dials, queue, draining, pipe,
          entries, state, answers, taken, received>>

connection == <<stopped, socket, complete, remote, nonces, redial, dials>>
frames == <<queue, draining, pipe, taken, received>>
callers == <<entries, state, answers>>

Nobody == "nobody"

Init ==
  /\ stopped = FALSE /\ socket = "dialling" /\ complete = FALSE /\ remote = Nobody
  /\ nonces = {} /\ redial = FALSE /\ dials = 1
  /\ queue = <<>> /\ draining = FALSE /\ pipe = <<>> /\ taken = <<>> /\ received = <<>>
  /\ entries = {} /\ state = [r \in Reqs |-> "new"] /\ answers = {}

(***************************************************************************)
(* Frames                                                                  *)
(***************************************************************************)
Sendable == socket = "up" /\ complete /\ (queue # <<>> => Len(queue) < MaxQueue)

\* ok: the socket has not reported backpressure.  A frame that met it is in the socket's
\* buffer and in the queue.
Send(frame, ok) ==
  /\ IF queue # <<>>
     THEN queue' = Append(queue, frame) /\ draining' = TRUE /\ UNCHANGED pipe
     ELSE /\ pipe' = Append(pipe, frame)
          /\ queue' = IF ok THEN <<>> ELSE <<frame>>
          /\ draining' = (draining \/ ~ok)
  /\ taken' = Append(taken, frame)
  /\ UNCHANGED received

\* The socket's buffer is empty again: write until it is full or the queue is empty.
FlushQueue(count, ok) ==
  /\ socket = "up" /\ draining /\ pipe = <<>>
  /\ count = Len(queue) \/ (count \in 1 .. Len(queue) /\ ~ok)
  /\ pipe' = SubSeq(queue, 1, count)
  /\ queue' = SubSeq(queue, count + 1, Len(queue))
  /\ draining' = ~(ok \/ queue = <<>>)
  /\ UNCHANGED <<connection, callers, taken, received>>

ServerReads ==
  /\ socket = "up" /\ pipe # <<>>
  /\ received' = Append(received, Head(pipe)) /\ pipe' = Tail(pipe)
  /\ answers' = answers \cup {Head(pipe)}
  /\ UNCHANGED <<connection, queue, draining, taken, entries, state>>

(***************************************************************************)
(* Requests                                                                *)
(***************************************************************************)
OfKind(r) == IF r \in Finds THEN Finds ELSE Reqs \ Finds

\* findNode, requestBlock, pushBlock
Request(r, ok) ==
  /\ state[r] = "new"
  /\ IF Sendable /\ Cardinality(entries \cap OfKind(r)) < MaxPending
     THEN /\ Send(r, ok)
          /\ entries' = entries \cup {r}
          /\ state' = [state EXCEPT ![r] = "waiting"]
     ELSE state' = [state EXCEPT ![r] = "settled"] /\ UNCHANGED <<frames, entries>>
  /\ UNCHANGED <<connection, answers>>

Answer(r) ==
  /\ socket = "up" /\ r \in answers
  /\ answers' = answers \ {r}
  /\ entries' = entries \ {r}
  /\ state' = IF r \in entries THEN [state EXCEPT ![r] = "settled"] ELSE state
  /\ UNCHANGED <<connection, frames>>

TimesOut(r) ==
  /\ r \in entries
  /\ entries' = entries \ {r}
  /\ state' = [state EXCEPT ![r] = "settled"]
  /\ UNCHANGED <<connection, frames, answers>>

Settled(woken) == [r \in Reqs |-> IF r \in woken THEN "settled" ELSE state[r]]

(***************************************************************************)
(* The connection                                                          *)
(***************************************************************************)
Connected ==
  /\ socket = "dialling" /\ socket' = "up"
  /\ UNCHANGED <<stopped, complete, remote, nonces, redial, dials, frames, callers>>

\* The greeting that may still complete the handshake, or confirm it.
Acceptable(hs, ack) ==
  /\ hs.good /\ hs.nonce \notin nonces
  /\ complete => (ack /\ hs.node = remote)

HandleHandshake(hs, ack) ==
  /\ socket = "up" /\ Acceptable(hs, ack)
  /\ nonces' = nonces \cup {hs.nonce}
  /\ remote' = hs.node /\ complete' = TRUE
  /\ UNCHANGED <<stopped, socket, redial, dials, frames, callers>>

\* A plausible slip: the frames that waited are sent on the next connection.
CloseKeepingQueue ==
  /\ socket \in {"dialling", "up", "closing"} /\ socket' = "none"
  /\ complete' = FALSE /\ remote' = Nobody /\ redial' = ~stopped
  /\ draining' = FALSE /\ pipe' = <<>> /\ answers' = {}
  /\ taken' = <<>> /\ received' = <<>>
  /\ state' = Settled(entries) /\ entries' = {}
  /\ UNCHANGED <<stopped, nonces, dials, queue>>

\* The socket is closed: by the peer, by an error, by a handshake that was refused or
\* late, by too many frames at once, or by disconnect.
Close ==
  /\ socket \in {"dialling", "up", "closing"} /\ socket' = "none"
  /\ complete' = FALSE /\ remote' = Nobody /\ redial' = ~stopped
  /\ queue' = <<>> /\ draining' = FALSE /\ pipe' = <<>> /\ answers' = {}
  /\ taken' = <<>> /\ received' = <<>>
  /\ state' = Settled(entries) /\ entries' = {}
  /\ UNCHANGED <<stopped, nonces, dials>>

Redial ==
  /\ redial /\ dials < MaxDials
  /\ redial' = FALSE /\ dials' = dials + 1 /\ socket' = "dialling"
  /\ UNCHANGED <<stopped, complete, remote, nonces, frames, callers>>

\* Callers of findNode are not told.
Disconnect ==
  /\ ~stopped /\ stopped' = TRUE
  /\ state' = Settled(entries \ Finds) /\ entries' = {}
  /\ socket' = IF socket = "none" THEN "none" ELSE "closing"
  /\ complete' = FALSE /\ redial' = FALSE
  /\ queue' = <<>> /\ draining' = FALSE /\ pipe' = <<>> /\ answers' = {}
  /\ taken' = <<>> /\ received' = <<>>
  /\ UNCHANGED <<remote, nonces, dials>>

Next ==
  \/ \E r \in Reqs : (\E ok \in BOOLEAN : Request(r, ok)) \/ Answer(r) \/ TimesOut(r)
  \/ \E count \in 0 .. MaxQueue, ok \in BOOLEAN : FlushQueue(count, ok)
  \/ ServerReads \/ Connected \/ Close \/ Redial \/ Disconnect
  \/ \E hs \in Handshakes, ack \in BOOLEAN : HandleHandshake(hs, ack)

Spec == Init /\ [][Next]_vars

(***************************************************************************)
(* Properties                                                              *)
(***************************************************************************)
OnceOnly(list) == SelectSeq([i \in DOMAIN list |-> i],
                            LAMBDA i : \A j \in 1 .. i - 1 : list[j] # list[i])

\* Backpressure changes neither the order of the frames nor loses one: what the server has
\* read of a connection, repetitions aside, is the beginning of what was sent on it, and
\* the rest is still in the buffer or the queue (wire-client.ts: send, flushQueue).
FramesArriveInOrder ==
  LET all == received \o pipe \o queue
      first == OnceOnly(all) IN
  [k \in DOMAIN first |-> all[first[k]]] = taken

\* Whoever waits for a block has a timer that ends the wait, through every end of the
\* connection; a FindNode has one until the client is told to disconnect
\* (wire-client.ts: requestBlock, pushBlock, the close handler, disconnect).
WaitersAreWoken ==
  \A r \in Reqs : state[r] = "waiting" => r \in entries \/ (r \in Finds /\ stopped)
=============================================================================
