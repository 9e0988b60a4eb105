------------------------- MODULE ConnectionInvariant -------------------------
(***************************************************************************)
(* The inductive invariant behind the properties of PeerConnections: what    *)
(* holds of each server's members, and how they go with the streams.         *)
(***************************************************************************)
EXTENDS PeerConnections

(* s has the members of a server; what its buffers hold does not matter. *)
IsServer(s) ==
  /\ s = [peers_by_id_ |-> s.peers_by_id_, socket_to_peer_id_ |-> s.socket_to_peer_id_,
          connections_ |-> s.connections_, connection_buffers_ |-> s.connection_buffers_,
          ends |-> s.ends, connecting |-> s.connecting, timers |-> s.timers]
  /\ s.peers_by_id_ \in [Servers -> [state : {"DISCONNECTED", "CONNECTING", "CONNECTED"},
                                    connection : Streams \cup {Null}]]
  /\ s.socket_to_peer_id_ \in [Fds -> Servers \cup {Null}]
  /\ s.connections_ \in [Fds -> Streams \cup {Null}]
  /\ s.connection_buffers_ = [fd \in Fds |-> s.connection_buffers_[fd]]
  /\ s.ends \in [Streams -> [fd : Fds \cup {NoFd, ClosedFd}, reading : BOOLEAN, failed : BOOLEAN,
                             state_ : {"UNIDENTIFIED", "PEER", "CLIENT"}]]
  /\ s.connecting \in [Servers -> Fds \cup {NoFd}]
  /\ s.timers \in [Servers -> Nat]

(* No two open connections or attempts share a descriptor. *)
OwnDescriptors(s) ==
  /\ \A k, j \in Streams : s.ends[k].fd \in Fds /\ s.ends[j].fd = s.ends[k].fd => j = k
  /\ \A q \in Servers, k \in Streams : s.connecting[q] \in Fds => s.ends[k].fd # s.connecting[q]
  /\ \A q, r \in Servers : s.connecting[q] \in Fds /\ s.connecting[r] = s.connecting[q] => r = q

(* Bytes are buffered for open connections only, and not before their first read. *)
OwnBuffers(s) ==
  /\ \A fd \in Fds : s.connection_buffers_[fd] # Null =>
       \E k \in Streams : s.ends[k].fd = fd /\ s.ends[k].reading
  /\ \A k \in Streams : s.ends[k].fd \in Fds /\ s.ends[k].state_ = "UNIDENTIFIED" =>
       s.connection_buffers_[s.ends[k].fd] = Null

(* The open connection of a peer is known by its descriptor. *)
PeersAreMapped(s) ==
  \A q \in Servers, k \in Streams :
    s.peers_by_id_[q].connection = k /\ s.ends[k].fd \in Fds =>
      s.socket_to_peer_id_[s.ends[k].fd] = q /\ s.ends[k].reading

(* Towards a server with a lower id there is one timer, one attempt or one connection, *)
(* and only a connection has a descriptor that stands for it.                         *)
OneWayToConnect(s, p) ==
  \A q \in Servers :
    IF q < p
    THEN /\ s.peers_by_id_[q].state = "DISCONNECTED" => s.timers[q] = 1 /\ s.connecting[q] = NoFd
         /\ s.peers_by_id_[q].state = "CONNECTING" => s.timers[q] = 0 /\ s.connecting[q] \in Fds
         /\ s.peers_by_id_[q].state = "CONNECTED" => s.timers[q] = 0 /\ s.connecting[q] = NoFd
         /\ \A fd \in Fds : s.socket_to_peer_id_[fd] = q =>
              /\ s.peers_by_id_[q].state = "CONNECTED"
              /\ \A other \in Fds : s.socket_to_peer_id_[other] = q => other = fd
    ELSE s.timers[q] = 0 /\ s.connecting[q] = NoFd

ServerInv(s, p) ==
  OwnDescriptors(s) /\ OwnBuffers(s) /\ PeersAreMapped(s) /\ OneWayToConnect(s, p)

(* p has not opened its end of stream k. *)
Unopened(p, k) == k \notin DOMAIN stream \/ (k \in backlog /\ stream[k].to = p)

StreamsInv ==
  /\ stream \in Seq([from : Servers \cup {Client}, to : Servers])
  /\ DOMAIN stream \subseteq Streams
  /\ \A k \in DOMAIN stream : stream[k].from = Client \/ stream[k].from > stream[k].to
  /\ up \subseteq Servers
  /\ backlog \subseteq DOMAIN stream
  /\ \A k \in backlog : stream[k].to \in up
  /\ wire \in [Streams -> [Servers -> Seq(Piece)]]
  /\ sent \in [Servers -> [Servers -> Seq(Seq(Piece))]]

(* A handshake travels only to the server that accepts, and names the one that connected. *)
HandshakesInv ==
  \A k \in Streams, p \in Servers : \A i \in 1 .. Len(wire[k][p]) :
    wire[k][p][i].part = "handshake" =>
      /\ k \in DOMAIN stream
      /\ stream[k].to = p /\ stream[k].from = wire[k][p][i].number

EndsInv ==
  \A p \in Servers, k \in Streams :
    Unopened(p, k) => server[p].ends[k].fd = NoFd /\ ~ server[p].ends[k].reading

(* A peer's connection is a stream between the two that has been opened. *)
PeersInv ==
  \A p, q \in Servers, k \in Streams :
    server[p].peers_by_id_[q].connection = k =>
      /\ ~ Unopened(p, k)
      /\ \/ stream[k].from = p /\ stream[k].to = q
         \/ stream[k].from = q /\ stream[k].to = p

(* The members of every server and the streams between them stay consistent, through *)
(* refused connects, broken streams, protocol errors, reused descriptors and crashes: *)
(* what ReplicaManager, TcpServer and ProtocolHandler keep by descriptor and by peer   *)
(* is changed together in every callback.                                            *)
ConnectionsInv ==
  /\ server = [p \in Servers |-> server[p]]
  /\ \A p \in Servers : IsServer(server[p])
  /\ \A p \in Servers : IF p \in up THEN ServerInv(server[p], p) ELSE server[p] = InitialServer
  /\ StreamsInv /\ HandshakesInv /\ EndsInv /\ PeersInv
=============================================================================
