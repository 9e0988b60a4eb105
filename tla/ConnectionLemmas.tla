-------------------------- MODULE ConnectionLemmas ---------------------------
(***************************************************************************)
(* What the callbacks of PeerConnections do to the members of one server:     *)
(* each keeps the server's part of the invariant of ConnectionInvariant.      *)
(***************************************************************************)
EXTENDS ConnectionInvariant, NumberLemmas

(* What the constants are. *)
LEMMA ConstantFacts ==
  /\ Servers \subseteq Nat /\ Streams \subseteq Nat /\ Fds \subseteq Nat
  /\ NoFd \notin Fds /\ ClosedFd \notin Fds
  /\ Null \notin Servers /\ Null \notin Streams /\ Client \notin Servers
BY ConnectionsAssumption DEF Servers, Streams, Fds, NoFd, ClosedFd

PeerType == [state : {"DISCONNECTED", "CONNECTING", "CONNECTED"}, connection : Streams \cup {Null}]

EndType == [fd : Fds \cup {NoFd, ClosedFd}, reading : BOOLEAN, failed : BOOLEAN,
            state_ : {"UNIDENTIFIED", "PEER", "CLIENT"}]

(* The servers whose buffers hold elements of B. *)
ServerType(B) ==
  [peers_by_id_ : [Servers -> PeerType], socket_to_peer_id_ : [Fds -> Servers \cup {Null}],
   connections_ : [Fds -> Streams \cup {Null}], connection_buffers_ : [Fds -> B],
   ends : [Streams -> EndType], connecting : [Servers -> Fds \cup {NoFd}],
   timers : [Servers -> Nat]]

LEMMA TypeOfServer ==
  ASSUME NEW s, IsServer(s)
  PROVE  \E B : s \in ServerType(B)
<1>. DEFINE B == {s.connection_buffers_[fd] : fd \in Fds}
<1>1. s.connection_buffers_ \in [Fds -> B]
  BY DEF IsServer
<1>. HIDE DEF B
<1>2. s \in ServerType(B)
  BY <1>1 DEF IsServer, ServerType, PeerType, EndType
<1>. QED BY <1>2

LEMMA ServerOfType ==
  ASSUME NEW B, NEW s \in ServerType(B)
  PROVE  IsServer(s)
BY DEF IsServer, ServerType, PeerType, EndType

(* An end that was not opened stays so, and no peer gets another connection. *)
Follows(s, t) ==
  /\ \A j \in Streams : s.ends[j].fd = NoFd /\ ~ s.ends[j].reading =>
       t.ends[j].fd = NoFd /\ ~ t.ends[j].reading
  /\ \A q \in Servers, j \in Streams :
       t.peers_by_id_[q].connection = j => s.peers_by_id_[q].connection = j

(* Nothing that PeersAreMapped speaks about has changed. *)
LEMMA MappedStays ==
  ASSUME NEW s, NEW t, PeersAreMapped(s), t.ends = s.ends,
         t.socket_to_peer_id_ = s.socket_to_peer_id_,
         \A q \in Servers : t.peers_by_id_[q].connection = s.peers_by_id_[q].connection
  PROVE  PeersAreMapped(t)
<1>. SUFFICES ASSUME NEW q \in Servers, NEW k \in Streams,
                     t.peers_by_id_[q].connection = k, t.ends[k].fd \in Fds
              PROVE  t.socket_to_peer_id_[t.ends[k].fd] = q /\ t.ends[k].reading
  BY DEF PeersAreMapped
<1>1. s.peers_by_id_[q].connection = k /\ s.ends[k].fd \in Fds
  OBVIOUS
<1>2. s.socket_to_peer_id_[s.ends[k].fd] = q /\ s.ends[k].reading
  BY <1>1 DEF PeersAreMapped
<1>. QED BY <1>2

LEMMA BuffersStay ==
  ASSUME NEW s, NEW t, OwnBuffers(s), t.ends = s.ends,
         t.connection_buffers_ = s.connection_buffers_
  PROVE  OwnBuffers(t)
BY Zenon DEF OwnBuffers

-----------------------------------------------------------------------------
(* ReplicaManager: connecting *)

(* A connect that fails leaves a timer in the place of the attempt. *)
LEMMA ConnectFailsInv ==
  ASSUME NEW B, NEW s \in ServerType(B), NEW p \in Servers, NEW q \in Servers,
         ServerInv(s, p), s.connecting[q] # NoFd,
         NEW t, t = schedule_reconnect([s EXCEPT !.peers_by_id_[q].state = "DISCONNECTED",
                                                 !.connecting[q] = NoFd], q)
  PROVE  t \in ServerType(B) /\ ServerInv(t, p) /\ Follows(s, t)
<1>1. t \in ServerType(B)
  <2>1. [s.peers_by_id_ EXCEPT ![q] = [@ EXCEPT !.state = "DISCONNECTED"]] \in [Servers -> PeerType]
    BY DEF ServerType, PeerType
  <2>2. [s.connecting EXCEPT ![q] = NoFd] \in [Servers -> Fds \cup {NoFd}]
    BY DEF ServerType
  <2>3. [s.timers EXCEPT ![q] = @ + 1] \in [Servers -> Nat]
    BY DEF ServerType
  <2>4. t = [s EXCEPT !.peers_by_id_ = [s.peers_by_id_ EXCEPT ![q] = [@ EXCEPT !.state = "DISCONNECTED"]],
                      !.connecting = [s.connecting EXCEPT ![q] = NoFd],
                      !.timers = [s.timers EXCEPT ![q] = @ + 1]]
    BY DEF ServerType, schedule_reconnect
  <2>. QED BY <2>1, <2>2, <2>3, <2>4 DEF ServerType
<1>2. /\ \A r \in Servers : /\ t.peers_by_id_[r].connection = s.peers_by_id_[r].connection
                            /\ t.peers_by_id_[r].state = IF r = q THEN "DISCONNECTED" ELSE s.peers_by_id_[r].state
                            /\ t.connecting[r] = IF r = q THEN NoFd ELSE s.connecting[r]
                            /\ t.timers[r] = IF r = q THEN s.timers[q] + 1 ELSE s.timers[r]
  BY DEF ServerType, PeerType, schedule_reconnect
<1>3. /\ t.ends = s.ends /\ t.socket_to_peer_id_ = s.socket_to_peer_id_
      /\ t.connection_buffers_ = s.connection_buffers_
  BY DEF ServerType, PeerType, schedule_reconnect
<1>4. OwnDescriptors(t)
  BY <1>2, <1>3, ConstantFacts DEF ServerInv, OwnDescriptors, ServerType
<1>5. OwnBuffers(t)
  BY <1>3, Zenon DEF ServerInv, OwnBuffers
<1>6. PeersAreMapped(t)
  BY <1>2, <1>3, MappedStays DEF ServerInv
<1>7. OneWayToConnect(t, p)
  BY <1>2, <1>3, ConstantFacts DEF ServerInv, OneWayToConnect, ServerType, PeerType
<1>8. Follows(s, t)
  BY <1>2, <1>3, Zenon DEF Follows
<1>. QED BY <1>1, <1>4, <1>5, <1>6, <1>7, <1>8 DEF ServerInv

(* The kernel gives out a descriptor that nothing has. *)
LEMMA NewFdIsFree ==
  ASSUME NEW B, NEW s \in ServerType(B), FreeFds(s) # {}
  PROVE  /\ NewFd(s) \in Fds
         /\ \A k \in Streams : s.ends[k].fd # NewFd(s)
         /\ \A q \in Servers : s.connecting[q] # NewFd(s)
<1>1. FreeFds(s) \subseteq Nat
  BY ConstantFacts DEF FreeFds
<1>2. NewFd(s) \in FreeFds(s)
  BY <1>1, MinIn DEF NewFd
<1>. QED BY <1>2 DEF FreeFds, UsedFds

(* The two outcomes of attempt_connection for a peer that is DISCONNECTED. *)
LEMMA AttemptWaits ==
  ASSUME NEW B, NEW u \in ServerType(B), NEW q \in Servers,
         u.peers_by_id_[q].state = "DISCONNECTED", FreeFds(u) = {},
         NEW t, t = attempt_connection(u, q)
  PROVE  /\ t \in ServerType(B)
         /\ t.peers_by_id_ = u.peers_by_id_ /\ t.connecting = u.connecting
         /\ t.ends = u.ends /\ t.socket_to_peer_id_ = u.socket_to_peer_id_
         /\ t.connection_buffers_ = u.connection_buffers_
         /\ \A r \in Servers : t.timers[r] = IF r = q THEN u.timers[r] + 1 ELSE u.timers[r]
<1>1. t = [u EXCEPT !.timers[q] = @ + 1]
  BY DEF attempt_connection, schedule_reconnect
<1>. QED BY <1>1 DEF ServerType

LEMMA AttemptStarts ==
  ASSUME NEW B, NEW u \in ServerType(B), NEW q \in Servers,
         u.peers_by_id_[q].state = "DISCONNECTED", FreeFds(u) # {},
         NEW t, t = attempt_connection(u, q), NEW fd \in Fds, fd = NewFd(u)
  PROVE  /\ t \in ServerType(B)
         /\ t.ends = u.ends /\ t.socket_to_peer_id_ = u.socket_to_peer_id_
         /\ t.connection_buffers_ = u.connection_buffers_
         /\ \A r \in Servers :
              /\ t.peers_by_id_[r].connection = u.peers_by_id_[r].connection
              /\ t.peers_by_id_[r].state = IF r = q THEN "CONNECTING" ELSE u.peers_by_id_[r].state
              /\ t.connecting[r] = IF r = q THEN fd ELSE u.connecting[r]
              /\ t.timers[r] = u.timers[r]
<1>. DEFINE a == [u.peers_by_id_ EXCEPT ![q] = [@ EXCEPT !.state = "CONNECTING"]]
            c == [u.connecting EXCEPT ![q] = fd]
<1>1. t = [u EXCEPT !.peers_by_id_ = a, !.connecting = c]
  BY DEF attempt_connection, ServerType
<1>2. a \in [Servers -> PeerType]
  BY DEF ServerType, PeerType
<1>3. c \in [Servers -> Fds \cup {NoFd}]
  BY DEF ServerType
<1>4. \A r \in Servers : /\ a[r].connection = u.peers_by_id_[r].connection
                         /\ a[r].state = IF r = q THEN "CONNECTING" ELSE u.peers_by_id_[r].state
                         /\ c[r] = IF r = q THEN fd ELSE u.connecting[r]
  BY DEF ServerType, PeerType
<1>. HIDE DEF a, c
<1>5. t \in ServerType(B)
  BY <1>1, <1>2, <1>3 DEF ServerType
<1>. QED BY <1>1, <1>4, <1>5 DEF ServerType

(* A reconnect timer leads to an attempt, or to the next timer. *)
LEMMA ReconnectInv ==
  ASSUME NEW B, NEW s \in ServerType(B), NEW p \in Servers, NEW q \in Servers,
         ServerInv(s, p), s.timers[q] > 0,
         NEW t, t = attempt_connection([s EXCEPT !.timers[q] = @ - 1], q)
  PROVE  t \in ServerType(B) /\ ServerInv(t, p) /\ Follows(s, t)
<1>. DEFINE u == [s EXCEPT !.timers[q] = @ - 1]
<1>1. /\ q < p /\ s.timers[q] = 1 /\ s.connecting[q] = NoFd
      /\ s.peers_by_id_[q].state = "DISCONNECTED"
      /\ \A fd \in Fds : s.socket_to_peer_id_[fd] # q
  BY ConstantFacts DEF ServerInv, OneWayToConnect, ServerType, PeerType
<1>2. u \in ServerType(B)
  BY <1>1 DEF ServerType
<1>3. /\ u.peers_by_id_ = s.peers_by_id_ /\ u.connecting = s.connecting
      /\ u.timers = [s.timers EXCEPT ![q] = 0]
      /\ u.ends = s.ends /\ u.socket_to_peer_id_ = s.socket_to_peer_id_
      /\ u.connection_buffers_ = s.connection_buffers_
  BY <1>1 DEF ServerType
<1>4. t = attempt_connection(u, q) /\ u.peers_by_id_[q].state = "DISCONNECTED"
  BY <1>1, <1>3
<1>. HIDE DEF u
<1>5. CASE FreeFds(u) = {}
  <2>1. t \in ServerType(B)
    BY <1>2, <1>4, <1>5, AttemptWaits
  <2>2. /\ t.peers_by_id_ = s.peers_by_id_ /\ t.connecting = s.connecting
        /\ t.ends = s.ends /\ t.socket_to_peer_id_ = s.socket_to_peer_id_
        /\ t.connection_buffers_ = s.connection_buffers_
    BY <1>2, <1>3, <1>4, <1>5, AttemptWaits
  <2>3. \A r \in Servers : t.timers[r] = s.timers[r]
    <3>1. \A r \in Servers : t.timers[r] = IF r = q THEN u.timers[r] + 1 ELSE u.timers[r]
      BY <1>2, <1>4, <1>5, AttemptWaits
    <3>. QED BY <1>1, <1>3, <3>1 DEF ServerType
  <2>4. OwnDescriptors(t)
    BY <2>2 DEF ServerInv, OwnDescriptors
  <2>5. OwnBuffers(t)
    BY <2>2, Zenon DEF ServerInv, OwnBuffers
  <2>6. PeersAreMapped(t)
    BY <2>2, MappedStays DEF ServerInv
  <2>7. OneWayToConnect(t, p)
    BY <2>2, <2>3 DEF ServerInv, OneWayToConnect
  <2>8. Follows(s, t)
    BY <2>2, Zenon DEF Follows
  <2>. QED BY <2>1, <2>4, <2>5, <2>6, <2>7, <2>8 DEF ServerInv
<1>6. CASE FreeFds(u) # {}
  <2>1. PICK fd \in Fds : /\ fd = NewFd(u)
                          /\ \A k \in Streams : s.ends[k].fd # fd
                          /\ \A r \in Servers : s.connecting[r] # fd
    BY <1>2, <1>3, <1>6, NewFdIsFree
  <2>2. t \in ServerType(B)
    BY <1>2, <1>4, <1>6, <2>1, AttemptStarts
  <2>3. /\ t.ends = s.ends /\ t.socket_to_peer_id_ = s.socket_to_peer_id_
        /\ t.connection_buffers_ = s.connection_buffers_
    BY <1>2, <1>3, <1>4, <1>6, <2>1, AttemptStarts
  <2>4. \A r \in Servers : /\ t.peers_by_id_[r].connection = s.peers_by_id_[r].connection
                           /\ t.peers_by_id_[r].state = IF r = q THEN "CONNECTING" ELSE s.peers_by_id_[r].state
                           /\ t.connecting[r] = IF r = q THEN fd ELSE s.connecting[r]
                           /\ t.timers[r] = IF r = q THEN 0 ELSE s.timers[r]
    <3>1. \A r \in Servers : u.timers[r] = IF r = q THEN 0 ELSE s.timers[r]
      BY <1>3 DEF ServerType
    <3>2. \A r \in Servers :
              /\ t.peers_by_id_[r].connection = u.peers_by_id_[r].connection
              /\ t.peers_by_id_[r].state = IF r = q THEN "CONNECTING" ELSE u.peers_by_id_[r].state
              /\ t.connecting[r] = IF r = q THEN fd ELSE u.connecting[r]
              /\ t.timers[r] = u.timers[r]
      BY <1>2, <1>4, <1>6, <2>1, AttemptStarts
    <3>. QED BY <1>3, <3>1, <3>2
  <2>5. OwnDescriptors(t)
    BY <2>1, <2>3, <2>4, ConstantFacts DEF ServerInv, OwnDescriptors
  <2>6. OwnBuffers(t)
    BY <2>3, Zenon DEF ServerInv, OwnBuffers
  <2>7. PeersAreMapped(t)
    BY <2>3, <2>4, MappedStays DEF ServerInv
  <2>8. OneWayToConnect(t, p)
    BY <1>1, <2>1, <2>3, <2>4, ConstantFacts DEF ServerInv, OneWayToConnect
  <2>9. Follows(s, t)
    BY <2>3, <2>4, Zenon DEF Follows
  <2>. QED BY <2>2, <2>5, <2>6, <2>7, <2>8, <2>9 DEF ServerInv
<1>. QED BY <1>5, <1>6

-----------------------------------------------------------------------------
(* TcpServer: opening a connection *)

LEMMA AddFields ==
  ASSUME NEW B, NEW s \in ServerType(B), NEW k \in Streams, NEW fd \in Fds,
         NEW t, t = AddConnection(s, k, fd)
  PROVE  /\ t \in ServerType(B)
         /\ t.peers_by_id_ = s.peers_by_id_ /\ t.socket_to_peer_id_ = s.socket_to_peer_id_
         /\ t.connection_buffers_ = s.connection_buffers_
         /\ t.connecting = s.connecting /\ t.timers = s.timers
         /\ \A j \in Streams : j # k => t.ends[j] = s.ends[j]
         /\ t.ends[k].fd = fd /\ t.ends[k].reading /\ t.ends[k].state_ = "UNIDENTIFIED"
<1>. DEFINE c == [s.connections_ EXCEPT ![fd] = k]
            n == [fd |-> fd, state_ |-> "UNIDENTIFIED", reading |-> TRUE, failed |-> FALSE]
            e == [s.ends EXCEPT ![k] = n]
<1>1. t = [s EXCEPT !.connections_ = c, !.ends = e]
  <2>1. NewConnection(fd) = n
    BY DEF NewConnection
  <2>. HIDE DEF n
  <2>. QED BY <2>1 DEF AddConnection, ServerType
<1>2. c \in [Fds -> Streams \cup {Null}]
  BY DEF ServerType
<1>3. e \in [Streams -> EndType]
  BY DEF ServerType, EndType
<1>4. /\ \A j \in Streams : j # k => e[j] = s.ends[j]
      /\ e[k].fd = fd /\ e[k].reading /\ e[k].state_ = "UNIDENTIFIED"
  BY DEF ServerType
<1>. HIDE DEF c, e
<1>5. t \in ServerType(B)
  BY <1>1, <1>2, <1>3 DEF ServerType
<1>. QED BY <1>1, <1>4, <1>5 DEF ServerType

(* A new connection gets a descriptor nothing else has, so its buffer is empty. *)
LEMMA AddInv ==
  ASSUME NEW B, NEW s \in ServerType(B), NEW p \in Servers, ServerInv(s, p),
         NEW k \in Streams, s.ends[k].fd = NoFd, NEW fd \in Fds,
         \A j \in Streams : s.ends[j].fd # fd,
         \A q \in Servers : s.connecting[q] # fd,
         \A q \in Servers : s.peers_by_id_[q].connection = k => s.socket_to_peer_id_[fd] = q,
         NEW t, t = AddConnection(s, k, fd)
  PROVE  ServerInv(t, p)
<1>1. /\ t.peers_by_id_ = s.peers_by_id_ /\ t.socket_to_peer_id_ = s.socket_to_peer_id_
      /\ t.connection_buffers_ = s.connection_buffers_
      /\ t.connecting = s.connecting /\ t.timers = s.timers
  BY AddFields
<1>2. \A j \in Streams : j # k => t.ends[j] = s.ends[j]
  BY AddFields
<1>3. t.ends[k].fd = fd /\ t.ends[k].reading /\ t.ends[k].state_ = "UNIDENTIFIED"
  BY AddFields
<1>4. OwnDescriptors(t)
  BY <1>1, <1>2, <1>3 DEF ServerInv, OwnDescriptors
<1>5. OwnBuffers(t)
  <2>1. ASSUME NEW f \in Fds, t.connection_buffers_[f] # Null
        PROVE  \E j \in Streams : t.ends[j].fd = f /\ t.ends[j].reading
    <3>1. PICK j \in Streams : s.ends[j].fd = f /\ s.ends[j].reading
      BY <1>1, <2>1 DEF ServerInv, OwnBuffers
    <3>2. j # k
      BY <3>1, ConstantFacts
    <3>. QED BY <1>2, <3>1, <3>2
  <2>2. ASSUME NEW j \in Streams, t.ends[j].fd \in Fds, t.ends[j].state_ = "UNIDENTIFIED"
        PROVE  t.connection_buffers_[t.ends[j].fd] = Null
    <3>1. CASE j = k
      BY <1>1, <1>3, <3>1 DEF ServerInv, OwnBuffers
    <3>2. CASE j # k
      BY <1>1, <1>2, <2>2, <3>2 DEF ServerInv, OwnBuffers
    <3>. QED BY <3>1, <3>2
  <2>. QED BY <2>1, <2>2 DEF OwnBuffers
<1>6. PeersAreMapped(t)
  <2>. SUFFICES ASSUME NEW q \in Servers, NEW j \in Streams,
                       t.peers_by_id_[q].connection = j, t.ends[j].fd \in Fds
                PROVE  t.socket_to_peer_id_[t.ends[j].fd] = q /\ t.ends[j].reading
    BY DEF PeersAreMapped
  <2>1. CASE j = k
    BY <1>1, <1>3, <2>1
  <2>2. CASE j # k
    <3>1. t.ends[j] = s.ends[j] /\ s.peers_by_id_[q].connection = j
      BY <1>1, <1>2, <2>2
    <3>2. s.socket_to_peer_id_[s.ends[j].fd] = q /\ s.ends[j].reading
      BY <3>1 DEF ServerInv, PeersAreMapped
    <3>. QED BY <1>1, <3>1, <3>2
  <2>. QED BY <2>1, <2>2
<1>7. OneWayToConnect(t, p)
  BY <1>1 DEF ServerInv, OneWayToConnect
<1>. QED BY <1>4, <1>5, <1>6, <1>7 DEF ServerInv

(* What the callback of a connect has stored before it registers the connection. *)
Reached(s, q, k, sock) ==
  [s EXCEPT !.peers_by_id_[q] = [state |-> "CONNECTED", connection |-> k],
            !.socket_to_peer_id_[sock] = q,
            !.connecting[q] = NoFd]

LEMMA ReachedFields ==
  ASSUME NEW B, NEW s \in ServerType(B), NEW q \in Servers, NEW k \in Streams, NEW sock \in Fds,
         NEW t, t = Reached(s, q, k, sock)
  PROVE  /\ t \in ServerType(B)
         /\ t.ends = s.ends /\ t.timers = s.timers
         /\ t.connection_buffers_ = s.connection_buffers_
         /\ \A r \in Servers : r # q => /\ t.peers_by_id_[r] = s.peers_by_id_[r]
                                        /\ t.connecting[r] = s.connecting[r]
         /\ t.peers_by_id_[q].state = "CONNECTED" /\ t.peers_by_id_[q].connection = k
         /\ t.connecting[q] = NoFd
         /\ \A fd \in Fds : t.socket_to_peer_id_[fd] = IF fd = sock THEN q ELSE s.socket_to_peer_id_[fd]
<1>. DEFINE a == [s.peers_by_id_ EXCEPT ![q] = [state |-> "CONNECTED", connection |-> k]]
            b == [s.socket_to_peer_id_ EXCEPT ![sock] = q]
            c == [s.connecting EXCEPT ![q] = NoFd]
<1>1. t = [s EXCEPT !.peers_by_id_ = a, !.socket_to_peer_id_ = b, !.connecting = c]
  BY DEF Reached, ServerType
<1>2. a \in [Servers -> PeerType]
  BY DEF ServerType, PeerType
<1>3. b \in [Fds -> Servers \cup {Null}] /\ c \in [Servers -> Fds \cup {NoFd}]
  BY DEF ServerType
<1>4. /\ \A r \in Servers : r # q => a[r] = s.peers_by_id_[r] /\ c[r] = s.connecting[r]
      /\ a[q].state = "CONNECTED" /\ a[q].connection = k /\ c[q] = NoFd
      /\ \A fd \in Fds : b[fd] = IF fd = sock THEN q ELSE s.socket_to_peer_id_[fd]
  BY DEF ServerType
<1>. HIDE DEF a, b, c
<1>5. t \in ServerType(B)
  BY <1>1, <1>2, <1>3 DEF ServerType
<1>. QED BY <1>1, <1>4, <1>5 DEF ServerType

(* A connect that succeeds turns the attempt into a connection, still without end. *)
LEMMA ReachedInv ==
  ASSUME NEW B, NEW s \in ServerType(B), NEW p \in Servers, ServerInv(s, p),
         NEW q \in Servers, NEW k \in Streams, s.ends[k].fd = NoFd,
         NEW sock \in Fds, s.connecting[q] = sock,
         NEW t, t = Reached(s, q, k, sock)
  PROVE  /\ ServerInv(t, p) /\ q < p
         /\ \A j \in Streams : t.ends[j].fd # sock
         /\ \A r \in Servers : t.connecting[r] # sock
<1>1. q < p /\ s.timers[q] = 0 /\ s.peers_by_id_[q].state = "CONNECTING"
  BY ConstantFacts DEF ServerInv, OneWayToConnect, ServerType, PeerType
<1>2. t.ends = s.ends /\ t.timers = s.timers /\ t.connection_buffers_ = s.connection_buffers_
  BY ReachedFields
<1>3. /\ \A r \in Servers : r # q => /\ t.peers_by_id_[r] = s.peers_by_id_[r]
                                     /\ t.connecting[r] = s.connecting[r]
      /\ t.peers_by_id_[q].state = "CONNECTED" /\ t.peers_by_id_[q].connection = k
      /\ t.connecting[q] = NoFd
  BY ReachedFields
<1>4. \A fd \in Fds : t.socket_to_peer_id_[fd] = IF fd = sock THEN q ELSE s.socket_to_peer_id_[fd]
  BY ReachedFields
<1>5. /\ \A j \in Streams : t.ends[j].fd # sock
      /\ \A r \in Servers : t.connecting[r] # sock
  BY <1>2, <1>3, ConstantFacts DEF ServerInv, OwnDescriptors
<1>6. OwnDescriptors(t)
  BY <1>2, <1>3, ConstantFacts DEF ServerInv, OwnDescriptors
<1>7. OwnBuffers(t)
  BY <1>2, BuffersStay DEF ServerInv
<1>8. PeersAreMapped(t)
  <2>. SUFFICES ASSUME NEW r \in Servers, NEW j \in Streams,
                       t.peers_by_id_[r].connection = j, t.ends[j].fd \in Fds
                PROVE  t.socket_to_peer_id_[t.ends[j].fd] = r /\ t.ends[j].reading
    BY DEF PeersAreMapped
  <2>1. r # q
    BY <1>2, <1>3, ConstantFacts
  <2>2. s.peers_by_id_[r].connection = j /\ s.ends[j].fd \in Fds /\ s.ends[j].fd # sock
    BY <1>2, <1>3, <1>5, <2>1
  <2>3. s.socket_to_peer_id_[s.ends[j].fd] = r /\ s.ends[j].reading
    BY <2>2 DEF ServerInv, PeersAreMapped
  <2>. QED BY <1>2, <1>4, <2>2, <2>3
<1>9. OneWayToConnect(t, p)
  <2>. SUFFICES ASSUME NEW r \in Servers
                PROVE IF r < p
                      THEN /\ t.peers_by_id_[r].state = "DISCONNECTED" => t.timers[r] = 1 /\ t.connecting[r] = NoFd
                           /\ t.peers_by_id_[r].state = "CONNECTING" => t.timers[r] = 0 /\ t.connecting[r] \in Fds
                           /\ t.peers_by_id_[r].state = "CONNECTED" => t.timers[r] = 0 /\ t.connecting[r] = NoFd
                           /\ \A fd \in Fds : t.socket_to_peer_id_[fd] = r =>
                                /\ t.peers_by_id_[r].state = "CONNECTED"
                                /\ \A other \in Fds : t.socket_to_peer_id_[other] = r => other = fd
                      ELSE t.timers[r] = 0 /\ t.connecting[r] = NoFd
    BY DEF OneWayToConnect
  <2>1. CASE r = q
    <3>1. \A fd \in Fds : s.socket_to_peer_id_[fd] # q
      BY <1>1 DEF ServerInv, OneWayToConnect
    <3>. QED BY <1>1, <1>2, <1>3, <1>4, <2>1, <3>1
  <2>2. CASE r # q
    <3>1. t.peers_by_id_[r] = s.peers_by_id_[r] /\ t.connecting[r] = s.connecting[r] /\ t.timers[r] = s.timers[r]
      BY <1>2, <1>3, <2>2
    <3>2. \A fd \in Fds : t.socket_to_peer_id_[fd] = r => s.socket_to_peer_id_[fd] = r
      BY <1>4, <2>2
    <3>. QED BY <3>1, <3>2 DEF ServerInv, OneWayToConnect
  <2>. QED BY <2>1, <2>2
<1>. QED BY <1>1, <1>5, <1>6, <1>7, <1>8, <1>9 DEF ServerInv

-----------------------------------------------------------------------------
(* TcpServer: one end changes *)

(* From s to t nothing changed but the end k and what is buffered. *)
OnlyEnd(s, t, k) ==
  /\ t.peers_by_id_ = s.peers_by_id_ /\ t.socket_to_peer_id_ = s.socket_to_peer_id_
  /\ t.connecting = s.connecting /\ t.timers = s.timers
  /\ \A j \in Streams \ {k} : t.ends[j] = s.ends[j]

SetEnd(s, k, e) == [s EXCEPT !.ends = [s.ends EXCEPT ![k] = e]]

LEMMA EndFields ==
  ASSUME NEW B, NEW s \in ServerType(B), NEW k \in Streams, NEW e \in EndType,
         NEW t, t = SetEnd(s, k, e)
  PROVE  /\ t \in ServerType(B) /\ OnlyEnd(s, t, k) /\ t.ends[k] = e
         /\ t.connection_buffers_ = s.connection_buffers_
<1>. DEFINE f == [s.ends EXCEPT ![k] = e]
<1>1. f \in [Streams -> EndType] /\ f[k] = e /\ \A j \in Streams \ {k} : f[j] = s.ends[j]
  BY DEF ServerType
<1>2. t = [s EXCEPT !.ends = f]
  BY DEF SetEnd
<1>. HIDE DEF f
<1>3. t \in ServerType(B) /\ t.ends = f
  BY <1>1, <1>2 DEF ServerType
<1>4. /\ t.peers_by_id_ = s.peers_by_id_ /\ t.socket_to_peer_id_ = s.socket_to_peer_id_
      /\ t.connecting = s.connecting /\ t.timers = s.timers
      /\ t.connection_buffers_ = s.connection_buffers_
  BY <1>2 DEF ServerType
<1>. QED BY <1>1, <1>3, <1>4 DEF OnlyEnd

(* What may happen to an end: it closes when nothing is buffered for it, and it keeps *)
(* reading while something is, or while it is the open connection of a peer.         *)
LEMMA EndInv ==
  ASSUME NEW s, NEW t, NEW p \in Servers, NEW k \in Streams, ServerInv(s, p), OnlyEnd(s, t, k),
         t.connection_buffers_ = s.connection_buffers_,
         t.ends[k].fd \in Fds => t.ends[k].fd = s.ends[k].fd,
         s.ends[k].fd \in Fds /\ s.connection_buffers_[s.ends[k].fd] # Null =>
           t.ends[k].fd = s.ends[k].fd /\ t.ends[k].reading /\ t.ends[k].state_ # "UNIDENTIFIED",
         t.ends[k].fd \in Fds =>
           t.ends[k].reading \/ \A q \in Servers : s.peers_by_id_[q].connection # k
  PROVE  ServerInv(t, p)
<1>1. \A j \in Streams : t.ends[j].fd \in Fds => t.ends[j].fd = s.ends[j].fd
  BY DEF OnlyEnd
<1>2. OwnDescriptors(t)
  BY <1>1, ConstantFacts DEF ServerInv, OwnDescriptors, OnlyEnd
<1>3. OwnBuffers(t)
  <2>1. ASSUME NEW fd \in Fds, t.connection_buffers_[fd] # Null
        PROVE  \E j \in Streams : t.ends[j].fd = fd /\ t.ends[j].reading
    <3>1. PICK j \in Streams : s.ends[j].fd = fd /\ s.ends[j].reading
      BY <2>1 DEF ServerInv, OwnBuffers
    <3>2. CASE j = k
      BY <2>1, <3>1, <3>2
    <3>3. CASE j # k
      BY <3>1, <3>3 DEF OnlyEnd
    <3>. QED BY <3>2, <3>3
  <2>2. ASSUME NEW j \in Streams, t.ends[j].fd \in Fds, t.ends[j].state_ = "UNIDENTIFIED"
        PROVE  t.connection_buffers_[t.ends[j].fd] = Null
    <3>1. CASE j = k
      BY <2>2, <3>1
    <3>2. CASE j # k
      BY <2>2, <3>2 DEF ServerInv, OwnBuffers, OnlyEnd
    <3>. QED BY <3>1, <3>2
  <2>. QED BY <2>1, <2>2 DEF OwnBuffers
<1>4. PeersAreMapped(t)
  <2>. SUFFICES ASSUME NEW q \in Servers, NEW j \in Streams,
                       t.peers_by_id_[q].connection = j, t.ends[j].fd \in Fds
                PROVE  t.socket_to_peer_id_[t.ends[j].fd] = q /\ t.ends[j].reading
    BY DEF PeersAreMapped
  <2>1. s.peers_by_id_[q].connection = j /\ s.ends[j].fd = t.ends[j].fd
    BY <1>1 DEF OnlyEnd
  <2>2. s.socket_to_peer_id_[s.ends[j].fd] = q /\ s.ends[j].reading
    BY <2>1 DEF ServerInv, PeersAreMapped
  <2>3. t.ends[j].reading
    <3>1. CASE j = k
      BY <2>1, <3>1
    <3>2. CASE j # k
      BY <2>2, <3>2 DEF OnlyEnd
    <3>. QED BY <3>1, <3>2
  <2>. QED BY <2>1, <2>2, <2>3 DEF OnlyEnd
<1>5. OneWayToConnect(t, p)
  BY DEF ServerInv, OneWayToConnect, OnlyEnd
<1>. QED BY <1>2, <1>3, <1>4, <1>5 DEF ServerInv

(* An end that has a buffer reads, and its first bytes have come. *)
LEMMA BufferedReads ==
  ASSUME NEW s, NEW p, ServerInv(s, p), NEW k \in Streams, s.ends[k].fd \in Fds,
         s.connection_buffers_[s.ends[k].fd] # Null
  PROVE  s.ends[k].reading /\ s.ends[k].state_ # "UNIDENTIFIED"
<1>1. PICK j \in Streams : s.ends[j].fd = s.ends[k].fd /\ s.ends[j].reading
  BY DEF ServerInv, OwnBuffers
<1>2. j = k
  BY <1>1 DEF ServerInv, OwnDescriptors
<1>3. s.ends[k].state_ # "UNIDENTIFIED"
  BY DEF ServerInv, OwnBuffers
<1>. QED BY <1>1, <1>2, <1>3

LEMMA EndFollows ==
  ASSUME NEW s, NEW t, NEW k \in Streams, OnlyEnd(s, t, k),
         s.ends[k].fd = NoFd /\ ~ s.ends[k].reading => t.ends[k].fd = NoFd /\ ~ t.ends[k].reading
  PROVE  Follows(s, t)
<1>1. \A j \in Streams : s.ends[j].fd = NoFd /\ ~ s.ends[j].reading =>
        t.ends[j].fd = NoFd /\ ~ t.ends[j].reading
  BY DEF OnlyEnd
<1>. QED BY <1>1 DEF Follows, OnlyEnd

(* The first bytes of a connection make it a peer's or a client's. *)
LEMMA IdentifyInv ==
  ASSUME NEW B, NEW s \in ServerType(B), NEW p \in Servers, ServerInv(s, p),
         NEW k \in Streams, NEW state \in {"PEER", "CLIENT"},
         NEW t, t = Identify(s, k, state)
  PROVE  /\ t \in ServerType(B) /\ ServerInv(t, p) /\ OnlyEnd(s, t, k)
         /\ t.connection_buffers_ = s.connection_buffers_
         /\ t.ends[k].fd = s.ends[k].fd /\ t.ends[k].reading = s.ends[k].reading
         /\ t.ends[k].state_ # "UNIDENTIFIED"
<1>1. CASE s.ends[k].state_ # "UNIDENTIFIED"
  BY <1>1 DEF Identify, OnlyEnd
<1>2. CASE s.ends[k].state_ = "UNIDENTIFIED"
  <2>. DEFINE e == [s.ends[k] EXCEPT !.state_ = state]
  <2>1. t = SetEnd(s, k, e)
    BY <1>2 DEF Identify, ServerType, SetEnd
  <2>2. /\ e \in EndType /\ e.fd = s.ends[k].fd /\ e.reading = s.ends[k].reading
        /\ e.state_ # "UNIDENTIFIED"
    BY DEF ServerType, EndType
  <2>. HIDE DEF e
  <2>3. /\ t \in ServerType(B) /\ OnlyEnd(s, t, k) /\ t.ends[k] = e
        /\ t.connection_buffers_ = s.connection_buffers_
    BY <2>1, <2>2, EndFields
  <2>4. s.ends[k].fd \in Fds /\ s.connection_buffers_[s.ends[k].fd] # Null => s.ends[k].reading
    BY BufferedReads
  <2>5. s.ends[k].fd \in Fds =>
          s.ends[k].reading \/ \A q \in Servers : s.peers_by_id_[q].connection # k
    BY DEF ServerInv, PeersAreMapped
  <2>6. ServerInv(t, p)
    BY <2>2, <2>3, <2>4, <2>5, EndInv
  <2>. QED BY <2>2, <2>3, <2>6
<1>. QED BY <1>1, <1>2

-----------------------------------------------------------------------------
(* ProtocolHandler: the buffers *)

(* From s to t only what is buffered for fd changed. *)
OnlyBuffer(s, t, fd) ==
  /\ t.peers_by_id_ = s.peers_by_id_ /\ t.socket_to_peer_id_ = s.socket_to_peer_id_
  /\ t.connecting = s.connecting /\ t.timers = s.timers /\ t.ends = s.ends
  /\ \A other \in Fds \ {fd} : t.connection_buffers_[other] = s.connection_buffers_[other]

SetBuffer(s, fd, b) == [s EXCEPT !.connection_buffers_ = [s.connection_buffers_ EXCEPT ![fd] = b]]

LEMMA BufferFields ==
  ASSUME NEW B, NEW s \in ServerType(B), NEW fd \in Fds, NEW b,
         NEW t, t = SetBuffer(s, fd, b)
  PROVE  /\ t \in ServerType(B \cup {b}) /\ OnlyBuffer(s, t, fd)
         /\ t.connection_buffers_[fd] = b
<1>. DEFINE f == [s.connection_buffers_ EXCEPT ![fd] = b]
<1>1. /\ f \in [Fds -> B \cup {b}] /\ f[fd] = b
      /\ \A other \in Fds \ {fd} : f[other] = s.connection_buffers_[other]
  BY DEF ServerType
<1>2. t = [s EXCEPT !.connection_buffers_ = f]
  BY DEF SetBuffer
<1>. HIDE DEF f
<1>3. t \in ServerType(B \cup {b}) /\ t.connection_buffers_ = f
  BY <1>1, <1>2 DEF ServerType
<1>4. /\ t.peers_by_id_ = s.peers_by_id_ /\ t.socket_to_peer_id_ = s.socket_to_peer_id_
      /\ t.connecting = s.connecting /\ t.timers = s.timers /\ t.ends = s.ends
  BY <1>2 DEF ServerType
<1>. QED BY <1>1, <1>3, <1>4 DEF OnlyBuffer

(* What is buffered for fd may change when it is erased, or when the open connection *)
(* that has fd reads and is known to be a peer's or a client's.                     *)
LEMMA BufferInv ==
  ASSUME NEW s, NEW t, NEW p, NEW fd \in Fds, ServerInv(s, p), OnlyBuffer(s, t, fd),
         \/ t.connection_buffers_[fd] = Null
         \/ \E k \in Streams : /\ s.ends[k].fd = fd /\ s.ends[k].reading
                               /\ s.ends[k].state_ # "UNIDENTIFIED"
  PROVE  ServerInv(t, p) /\ Follows(s, t)
<1>1. OwnDescriptors(t)
  BY DEF ServerInv, OwnDescriptors, OnlyBuffer
<1>2. PeersAreMapped(t)
  BY MappedStays DEF ServerInv, OnlyBuffer
<1>3. OneWayToConnect(t, p)
  BY DEF ServerInv, OneWayToConnect, OnlyBuffer
<1>4. ASSUME NEW other \in Fds, t.connection_buffers_[other] # Null
      PROVE  \E k \in Streams : t.ends[k].fd = other /\ t.ends[k].reading
  <2>1. CASE other = fd
    BY <1>4, <2>1 DEF OnlyBuffer
  <2>2. CASE other # fd
    <3>1. PICK k \in Streams : s.ends[k].fd = other /\ s.ends[k].reading
      BY <1>4, <2>2 DEF ServerInv, OwnBuffers, OnlyBuffer
    <3>. QED BY <3>1 DEF OnlyBuffer
  <2>. QED BY <2>1, <2>2
<1>5. ASSUME NEW k \in Streams, t.ends[k].fd \in Fds, t.ends[k].state_ = "UNIDENTIFIED"
      PROVE  t.connection_buffers_[t.ends[k].fd] = Null
  <2>1. t.ends[k] = s.ends[k]
    BY DEF OnlyBuffer
  <2>2. CASE t.ends[k].fd = fd
    <3>1. ASSUME NEW j \in Streams, s.ends[j].fd = fd, s.ends[j].state_ # "UNIDENTIFIED"
          PROVE  FALSE
      BY <1>5, <2>1, <2>2, <3>1 DEF ServerInv, OwnDescriptors
    <3>. QED BY <2>2, <3>1
  <2>3. CASE t.ends[k].fd # fd
    BY <1>5, <2>1, <2>3 DEF ServerInv, OwnBuffers, OnlyBuffer
  <2>. QED BY <2>2, <2>3
<1>6. OwnBuffers(t)
  BY <1>4, <1>5 DEF OwnBuffers
<1>7. Follows(s, t)
  BY DEF Follows, OnlyBuffer
<1>. QED BY <1>1, <1>2, <1>3, <1>6, <1>7 DEF ServerInv

Erased(s, t, fd) ==
  /\ Follows(s, t) /\ t.ends = s.ends
  /\ fd \in Fds => t.connection_buffers_[fd] = Null

LEMMA EraseInv ==
  ASSUME NEW B, NEW s \in ServerType(B), NEW p \in Servers, ServerInv(s, p),
         NEW fd \in Fds \cup {NoFd, ClosedFd}, NEW t, t = EraseBuffer(s, fd)
  PROVE  t \in ServerType(B \cup {Null}) /\ ServerInv(t, p) /\ Erased(s, t, fd)
<1>1. CASE fd \in Fds
  <2>1. t = SetBuffer(s, fd, Null)
    BY <1>1 DEF EraseBuffer, SetBuffer
  <2>2. /\ t \in ServerType(B \cup {Null}) /\ OnlyBuffer(s, t, fd)
        /\ t.connection_buffers_[fd] = Null
    BY <1>1, <2>1, BufferFields
  <2>3. ServerInv(t, p) /\ Follows(s, t)
    BY <1>1, <2>2, BufferInv
  <2>. QED BY <2>2, <2>3 DEF OnlyBuffer, Erased
<1>2. CASE fd \notin Fds
  <2>1. t = s
    BY <1>2 DEF EraseBuffer
  <2>2. s \in ServerType(B \cup {Null})
    BY DEF ServerType
  <2>. QED BY <1>2, <2>1, <2>2 DEF Follows, Erased
<1>. QED BY <1>1, <1>2

LEMMA CloseInv ==
  ASSUME NEW B, NEW s \in ServerType(B), NEW p \in Servers, ServerInv(s, p), NEW k \in Streams,
         s.ends[k].fd # NoFd,
         s.ends[k].fd \in Fds => s.connection_buffers_[s.ends[k].fd] = Null,
         NEW t, t = close_socket(s, k)
  PROVE  t \in ServerType(B) /\ ServerInv(t, p) /\ Follows(s, t)
<1>. DEFINE e == [s.ends[k] EXCEPT !.fd = ClosedFd]
<1>1. t = SetEnd(s, k, e)
  BY DEF close_socket, ServerType, SetEnd
<1>2. e \in EndType /\ e.fd = ClosedFd
  BY DEF ServerType, EndType
<1>. HIDE DEF e
<1>3. /\ t \in ServerType(B) /\ OnlyEnd(s, t, k) /\ t.ends[k] = e
      /\ t.connection_buffers_ = s.connection_buffers_
  BY <1>1, <1>2, EndFields
<1>4. ServerInv(t, p)
  BY <1>2, <1>3, EndInv, ConstantFacts
<1>5. Follows(s, t)
  BY <1>3, EndFollows
<1>. QED BY <1>3, <1>4, <1>5

(* handle_raw_data closes the connection, with its buffer, or buffers what is left. *)
LEMMA StoreInv ==
  ASSUME NEW B, NEW s \in ServerType(B), NEW p \in Servers, ServerInv(s, p), NEW k \in Streams,
         s.ends[k].fd \in Fds, s.ends[k].reading, s.ends[k].state_ # "UNIDENTIFIED",
         NEW result, NEW t, t = StoreBuffer(s, k, result)
  PROVE  /\ t \in ServerType(B \cup {Null}) \/ t \in ServerType(B \cup {result.buffer})
         /\ ServerInv(t, p) /\ Follows(s, t)
<1>1. CASE result.closed
  <2>. DEFINE fd == s.ends[k].fd
              u == EraseBuffer(s, fd)
  <2>1. u \in ServerType(B \cup {Null}) /\ ServerInv(u, p) /\ Erased(s, u, fd)
    <3>1. fd \in Fds \cup {NoFd, ClosedFd}
      OBVIOUS
    <3>. HIDE DEF fd
    <3>. QED BY <3>1, EraseInv
  <2>2. t = close_socket(u, k)
    BY <1>1 DEF StoreBuffer
  <2>. HIDE DEF u
  <2>3. u.ends[k].fd # NoFd /\ u.connection_buffers_[u.ends[k].fd] = Null /\ Follows(s, u)
    BY <2>1, ConstantFacts DEF Erased
  <2>4. t \in ServerType(B \cup {Null}) /\ ServerInv(t, p) /\ Follows(u, t)
    BY <2>1, <2>2, <2>3, CloseInv
  <2>5. Follows(s, t)
    BY <2>3, <2>4 DEF Follows
  <2>. QED BY <2>4, <2>5
<1>2. CASE ~ result.closed
  <2>1. t = SetBuffer(s, s.ends[k].fd, result.buffer)
    BY <1>2 DEF StoreBuffer, SetBuffer
  <2>2. t \in ServerType(B \cup {result.buffer}) /\ OnlyBuffer(s, t, s.ends[k].fd)
    BY <2>1, BufferFields
  <2>3. ServerInv(t, p) /\ Follows(s, t)
    BY <2>2, BufferInv
  <2>. QED BY <2>2, <2>3
<1>. QED BY <1>1, <1>2

-----------------------------------------------------------------------------
(* ReplicaManager: a connection ends *)

(* From s to t the peer q that was known by fd has been forgotten. *)
Forgotten(s, t, p, q, fd) ==
  /\ t.connection_buffers_ = s.connection_buffers_ /\ t.ends = s.ends /\ t.connecting = s.connecting
  /\ t.peers_by_id_[q] = NoPeer /\ t.socket_to_peer_id_[fd] = Null
  /\ t.timers[q] = IF q < p THEN s.timers[q] + 1 ELSE s.timers[q]
  /\ \A r \in Servers \ {q} : t.peers_by_id_[r] = s.peers_by_id_[r] /\ t.timers[r] = s.timers[r]
  /\ \A other \in Fds \ {fd} : t.socket_to_peer_id_[other] = s.socket_to_peer_id_[other]

Forget(s, p, q, fd) ==
  LET s1 == [s EXCEPT !.peers_by_id_[q] = NoPeer, !.socket_to_peer_id_[fd] = Null]
  IN  IF p > q THEN schedule_reconnect(s1, q) ELSE s1

LEMMA ForgottenFields ==
  ASSUME NEW B, NEW s \in ServerType(B), NEW p \in Servers, NEW k \in Streams,
         NEW fd \in Fds, s.ends[k].fd = fd, NEW q \in Servers, s.socket_to_peer_id_[fd] = q,
         NEW t, t = on_disconnect(s, p, k)
  PROVE  t \in ServerType(B) /\ Forgotten(s, t, p, q, fd)
<1>. DEFINE a == [s.peers_by_id_ EXCEPT ![q] = NoPeer]
            b == [s.socket_to_peer_id_ EXCEPT ![fd] = Null]
            c == [s.timers EXCEPT ![q] = IF q < p THEN @ + 1 ELSE @]
            u == [s EXCEPT !.peers_by_id_ = a, !.socket_to_peer_id_ = b]
<1>1. NoPeer \in PeerType
  BY DEF NoPeer, PeerType
<1>2. /\ a \in [Servers -> PeerType] /\ a[q] = NoPeer
      /\ \A r \in Servers \ {q} : a[r] = s.peers_by_id_[r]
  BY <1>1 DEF ServerType
<1>3. /\ b \in [Fds -> Servers \cup {Null}] /\ b[fd] = Null
      /\ \A other \in Fds \ {fd} : b[other] = s.socket_to_peer_id_[other]
  BY DEF ServerType
<1>4. /\ c \in [Servers -> Nat] /\ c[q] = IF q < p THEN s.timers[q] + 1 ELSE s.timers[q]
      /\ \A r \in Servers \ {q} : c[r] = s.timers[r]
  BY DEF ServerType
<1>5. t = Forget(s, p, q, fd)
  <2>1. t = Forget(s, p, s.socket_to_peer_id_[s.ends[k].fd], s.ends[k].fd)
    BY ConstantFacts DEF on_disconnect, Forget
  <2>. QED BY <2>1
<1>6. t = IF p > q THEN schedule_reconnect(u, q) ELSE u
  BY <1>5 DEF Forget
<1>. HIDE DEF a, b
<1>7. /\ u \in ServerType(B) /\ u.timers = s.timers /\ u.peers_by_id_ = a /\ u.socket_to_peer_id_ = b
      /\ u.connection_buffers_ = s.connection_buffers_ /\ u.ends = s.ends /\ u.connecting = s.connecting
  BY <1>2, <1>3 DEF ServerType
<1>. HIDE DEF u
<1>8. /\ t \in ServerType(B) /\ t.timers = c /\ t.peers_by_id_ = a /\ t.socket_to_peer_id_ = b
      /\ t.connection_buffers_ = s.connection_buffers_ /\ t.ends = s.ends /\ t.connecting = s.connecting
  <2>1. CASE q < p
    <3>1. t = [u EXCEPT !.timers = [u.timers EXCEPT ![q] = @ + 1]]
      BY <1>6, <2>1, ConstantFacts DEF schedule_reconnect
    <3>2. c = [u.timers EXCEPT ![q] = @ + 1]
      BY <1>7, <2>1 DEF ServerType
    <3>3. t = [u EXCEPT !.timers = c]
      BY <3>1, <3>2
    <3>. HIDE DEF c
    <3>. QED BY <1>4, <1>7, <3>3 DEF ServerType
  <2>2. CASE ~ (q < p)
    <3>1. t = u
      BY <1>6, <2>2, ConstantFacts
    <3>2. c = s.timers
      BY <2>2 DEF ServerType
    <3>. QED BY <1>7, <3>1, <3>2
  <2>. QED BY <2>1, <2>2
<1>. HIDE DEF c
<1>. QED BY <1>2, <1>3, <1>4, <1>8 DEF Forgotten

LEMMA ForgottenInv ==
  ASSUME NEW B, NEW s \in ServerType(B), NEW t, NEW p \in Servers, ServerInv(s, p),
         NEW q \in Servers, NEW fd \in Fds, s.socket_to_peer_id_[fd] = q,
         Forgotten(s, t, p, q, fd)
  PROVE  ServerInv(t, p) /\ Follows(s, t)
<1>1. t.peers_by_id_[q].state = "DISCONNECTED" /\ t.peers_by_id_[q].connection \notin Streams
  BY ConstantFacts DEF Forgotten, NoPeer
<1>2. OwnDescriptors(t)
  BY DEF ServerInv, OwnDescriptors, Forgotten
<1>3. OwnBuffers(t)
  BY BuffersStay DEF ServerInv, Forgotten
<1>4. PeersAreMapped(t)
  <2>. SUFFICES ASSUME NEW r \in Servers, NEW k \in Streams,
                       t.peers_by_id_[r].connection = k, t.ends[k].fd \in Fds
                PROVE  t.socket_to_peer_id_[t.ends[k].fd] = r /\ t.ends[k].reading
    BY DEF PeersAreMapped
  <2>1. r # q
    BY <1>1
  <2>2. s.peers_by_id_[r].connection = k /\ s.ends[k] = t.ends[k]
    BY <2>1 DEF Forgotten
  <2>3. s.socket_to_peer_id_[s.ends[k].fd] = r /\ s.ends[k].reading
    BY <2>2 DEF ServerInv, PeersAreMapped
  <2>4. t.ends[k].fd # fd
    BY <2>1, <2>2, <2>3
  <2>. QED BY <2>2, <2>3, <2>4 DEF Forgotten
<1>5. OneWayToConnect(t, p)
  <2>. SUFFICES ASSUME NEW r \in Servers
                PROVE IF r < p
                      THEN /\ t.peers_by_id_[r].state = "DISCONNECTED" => t.timers[r] = 1 /\ t.connecting[r] = NoFd
                           /\ t.peers_by_id_[r].state = "CONNECTING" => t.timers[r] = 0 /\ t.connecting[r] \in Fds
                           /\ t.peers_by_id_[r].state = "CONNECTED" => t.timers[r] = 0 /\ t.connecting[r] = NoFd
                           /\ \A f \in Fds : t.socket_to_peer_id_[f] = r =>
                                /\ t.peers_by_id_[r].state = "CONNECTED"
                                /\ \A other \in Fds : t.socket_to_peer_id_[other] = r => other = f
                      ELSE t.timers[r] = 0 /\ t.connecting[r] = NoFd
    BY DEF OneWayToConnect
  <2>0. \A f \in Fds : t.socket_to_peer_id_[f] = r => f # fd /\ s.socket_to_peer_id_[f] = r
    BY ConstantFacts DEF Forgotten
  <2>1. CASE r = q /\ q < p
    <3>1. /\ s.timers[q] = 0 /\ s.connecting[q] = NoFd
          /\ \A other \in Fds : s.socket_to_peer_id_[other] = q => other = fd
      BY <2>1 DEF ServerInv, OneWayToConnect
    <3>. QED BY <1>1, <2>0, <2>1, <3>1 DEF Forgotten
  <2>2. CASE r # q
    <3>1. t.peers_by_id_[r] = s.peers_by_id_[r] /\ t.timers[r] = s.timers[r] /\ t.connecting[r] = s.connecting[r]
      BY <2>2 DEF Forgotten
    <3>. QED BY <2>0, <3>1 DEF ServerInv, OneWayToConnect
  <2>3. CASE r = q /\ ~ (q < p)
    BY <2>3 DEF ServerInv, OneWayToConnect, Forgotten
  <2>. QED BY <2>1, <2>2, <2>3
<1>6. Follows(s, t)
  <2>1. \A r \in Servers, j \in Streams :
          t.peers_by_id_[r].connection = j => s.peers_by_id_[r].connection = j
    BY <1>1 DEF Forgotten
  <2>. QED BY <2>1 DEF Follows, Forgotten
<1>. QED BY <1>2, <1>3, <1>4, <1>5, <1>6 DEF ServerInv

LEMMA DisconnectInv ==
  ASSUME NEW B, NEW s \in ServerType(B), NEW p \in Servers, ServerInv(s, p), NEW k \in Streams,
         NEW t, t = on_disconnect(s, p, k)
  PROVE  /\ t \in ServerType(B) /\ ServerInv(t, p) /\ Follows(s, t)
         /\ t.ends = s.ends /\ t.connection_buffers_ = s.connection_buffers_
         /\ s.ends[k].fd \in Fds => \A q \in Servers : t.peers_by_id_[q].connection # k
<1>. DEFINE fd == s.ends[k].fd
<1>1. \A q \in Servers : fd \in Fds /\ s.peers_by_id_[q].connection = k => s.socket_to_peer_id_[fd] = q
  BY DEF ServerInv, PeersAreMapped
<1>2. CASE fd \notin Fds \/ s.socket_to_peer_id_[fd] = Null
  <2>1. t = s
    BY <1>2 DEF on_disconnect
  <2>2. s.ends[k].fd \in Fds => \A q \in Servers : t.peers_by_id_[q].connection # k
    BY <1>1, <1>2, <2>1, ConstantFacts
  <2>. QED BY <2>1, <2>2 DEF Follows
<1>3. CASE fd \in Fds /\ s.socket_to_peer_id_[fd] # Null
  <2>1. PICK q \in Servers : s.socket_to_peer_id_[fd] = q
    BY <1>3 DEF ServerType
  <2>2. t \in ServerType(B) /\ Forgotten(s, t, p, q, fd)
    BY <1>3, <2>1, ForgottenFields
  <2>3. ServerInv(t, p) /\ Follows(s, t)
    BY <1>3, <2>1, <2>2, ForgottenInv
  <2>4. \A r \in Servers : t.peers_by_id_[r].connection # k
    BY <1>1, <1>3, <2>1, <2>2, ConstantFacts DEF Forgotten, NoPeer
  <2>. QED BY <2>2, <2>3, <2>4 DEF Forgotten
<1>. QED BY <1>2, <1>3

(* The invariant does not speak about connections_. *)
OnlyConnections(s, t) ==
  /\ t.peers_by_id_ = s.peers_by_id_ /\ t.socket_to_peer_id_ = s.socket_to_peer_id_
  /\ t.connection_buffers_ = s.connection_buffers_ /\ t.ends = s.ends
  /\ t.connecting = s.connecting /\ t.timers = s.timers

LEMMA ConnectionsFields ==
  ASSUME NEW B, NEW s \in ServerType(B), NEW fd \in Fds,
         NEW t, t = [s EXCEPT !.connections_[fd] = Null]
  PROVE  t \in ServerType(B) /\ OnlyConnections(s, t)
<1>. DEFINE f == [s.connections_ EXCEPT ![fd] = Null]
<1>1. f \in [Fds -> Streams \cup {Null}]
  BY DEF ServerType
<1>2. t = [s EXCEPT !.connections_ = f]
  OBVIOUS
<1>. HIDE DEF f
<1>. QED BY <1>1, <1>2 DEF ServerType, OnlyConnections

LEMMA OnlyConnectionsInv ==
  ASSUME NEW s, NEW t, NEW p, ServerInv(s, p), OnlyConnections(s, t)
  PROVE  ServerInv(t, p) /\ Follows(s, t)
<1>1. OwnDescriptors(t)
  BY DEF ServerInv, OwnDescriptors, OnlyConnections
<1>2. OwnBuffers(t)
  BY BuffersStay DEF ServerInv, OnlyConnections
<1>3. PeersAreMapped(t)
  BY MappedStays DEF ServerInv, OnlyConnections
<1>4. OneWayToConnect(t, p)
  BY DEF ServerInv, OneWayToConnect, OnlyConnections
<1>5. Follows(s, t)
  BY DEF Follows, OnlyConnections
<1>. QED BY <1>1, <1>2, <1>3, <1>4, <1>5 DEF ServerInv

LEMMA RemoveInv ==
  ASSUME NEW B, NEW s \in ServerType(B), NEW p \in Servers, ServerInv(s, p), NEW k \in Streams,
         NEW t, t = remove_connection(s, p, k)
  PROVE  /\ t \in ServerType(B) /\ ServerInv(t, p) /\ Follows(s, t)
         /\ t.ends = s.ends /\ t.connection_buffers_ = s.connection_buffers_
         /\ s.ends[k].fd \in Fds => \A q \in Servers : t.peers_by_id_[q].connection # k
<1>. DEFINE u == on_disconnect(s, p, k)
            fd == s.ends[k].fd
<1>1. /\ u \in ServerType(B) /\ ServerInv(u, p) /\ Follows(s, u)
      /\ u.ends = s.ends /\ u.connection_buffers_ = s.connection_buffers_
      /\ fd \in Fds => \A q \in Servers : u.peers_by_id_[q].connection # k
  BY DisconnectInv
<1>2. t = IF fd \in Fds THEN [u EXCEPT !.connections_[fd] = Null] ELSE u
  BY DEF remove_connection
<1>. HIDE DEF u
<1>3. t \in ServerType(B) /\ OnlyConnections(u, t)
  <2>1. CASE fd \in Fds
    BY <1>1, <1>2, <2>1, ConnectionsFields
  <2>2. CASE fd \notin Fds
    BY <1>1, <1>2, <2>2 DEF OnlyConnections
  <2>. QED BY <2>1, <2>2
<1>4. ServerInv(t, p) /\ Follows(u, t)
  BY <1>1, <1>3, OnlyConnectionsInv
<1>5. Follows(s, t)
  BY <1>1, <1>4 DEF Follows
<1>. QED BY <1>1, <1>3, <1>4, <1>5 DEF OnlyConnections

StopReading(s, k) == [s EXCEPT !.ends[k].reading = FALSE]

(* What ReadEnds does. *)
LEMMA ReadEndsInv ==
  ASSUME NEW B, NEW s \in ServerType(B), NEW p \in Servers, ServerInv(s, p), NEW k \in Streams,
         NEW t, t = StopReading(remove_connection(EraseBuffer(s, s.ends[k].fd), p, k), k)
  PROVE  t \in ServerType(B \cup {Null}) /\ ServerInv(t, p) /\ Follows(s, t)
<1>. DEFINE fd == s.ends[k].fd
            u == EraseBuffer(s, fd)
            v == remove_connection(u, p, k)
            e == [v.ends[k] EXCEPT !.reading = FALSE]
<1>0. fd \in Fds \cup {NoFd, ClosedFd}
  BY DEF ServerType, EndType
<1>. HIDE DEF fd
<1>1. u \in ServerType(B \cup {Null}) /\ ServerInv(u, p) /\ Erased(s, u, fd)
  BY <1>0, EraseInv
<1>. HIDE DEF u
<1>2. /\ v \in ServerType(B \cup {Null}) /\ ServerInv(v, p) /\ Follows(u, v)
      /\ v.ends = u.ends /\ v.connection_buffers_ = u.connection_buffers_
      /\ u.ends[k].fd \in Fds => \A q \in Servers : v.peers_by_id_[q].connection # k
  BY <1>1, RemoveInv
<1>3. t = SetEnd(v, k, e)
  BY DEF SetEnd, StopReading, u, fd
<1>. HIDE DEF v
<1>4. v.ends[k] \in EndType
  BY <1>2 DEF ServerType
<1>t. e \in EndType
  BY <1>4 DEF EndType
<1>f. e.fd = v.ends[k].fd /\ ~ e.reading
  BY <1>4 DEF EndType
<1>. HIDE DEF e
<1>5. /\ t \in ServerType(B \cup {Null}) /\ OnlyEnd(v, t, k) /\ t.ends[k] = e
      /\ t.connection_buffers_ = v.connection_buffers_
  BY <1>2, <1>3, <1>t, EndFields
<1>6. ServerInv(t, p)
  BY <1>1, <1>2, <1>f, <1>5, EndInv, SMTT(30) DEF fd, Erased
<1>7. Follows(v, t)
  BY <1>f, <1>5, EndFollows
<1>8. Follows(s, v)
  BY <1>1, <1>2, SMTT(30) DEF Follows, Erased
<1>9. Follows(s, t)
  BY <1>7, <1>8 DEF Follows
<1>. QED BY <1>5, <1>6, <1>9

SetFailed(s, k, b) == [s EXCEPT !.ends[k].failed = b]

(* A failed write, and the callback of it, only change what says so. *)
LEMMA FailedInv ==
  ASSUME NEW B, NEW s \in ServerType(B), NEW p \in Servers, ServerInv(s, p), NEW k \in Streams,
         NEW b \in BOOLEAN, NEW t, t = SetFailed(s, k, b)
  PROVE  t \in ServerType(B) /\ ServerInv(t, p) /\ Follows(s, t)
<1>. DEFINE e == [s.ends[k] EXCEPT !.failed = b]
<1>1. t = SetEnd(s, k, e)
  BY DEF SetEnd, SetFailed
<1>t. e \in EndType
  BY DEF ServerType, EndType
<1>2. e.fd = s.ends[k].fd /\ e.reading = s.ends[k].reading /\ e.state_ = s.ends[k].state_
  BY DEF ServerType, EndType
<1>. HIDE DEF e
<1>3. /\ t \in ServerType(B) /\ OnlyEnd(s, t, k) /\ t.ends[k] = e
      /\ t.connection_buffers_ = s.connection_buffers_
  BY <1>1, <1>t, EndFields
<1>4. s.ends[k].fd \in Fds /\ s.connection_buffers_[s.ends[k].fd] # Null =>
        s.ends[k].reading /\ s.ends[k].state_ # "UNIDENTIFIED"
  BY BufferedReads
<1>5. s.ends[k].fd \in Fds =>
        s.ends[k].reading \/ \A q \in Servers : s.peers_by_id_[q].connection # k
  BY DEF ServerInv, PeersAreMapped
<1>6. ServerInv(t, p)
  BY <1>2, <1>3, <1>4, <1>5, EndInv
<1>7. Follows(s, t)
  BY <1>2, <1>3, EndFollows
<1>. QED BY <1>3, <1>6, <1>7

(* A connection that nothing refers to has no buffer: its descriptor can be closed. *)
LEMMA DestroyInv ==
  ASSUME NEW B, NEW s \in ServerType(B), NEW p \in Servers, ServerInv(s, p), NEW k \in Streams,
         ~ Referenced(s, k), NEW t, t = SetEnd(s, k, NoConnection)
  PROVE  t \in ServerType(B) /\ ServerInv(t, p) /\ Follows(s, t)
<1>t. NoConnection \in EndType
  BY DEF NoConnection, EndType
<1>2. NoConnection.fd = NoFd /\ ~ NoConnection.reading
  BY DEF NoConnection, EndType
<1>3. /\ t \in ServerType(B) /\ OnlyEnd(s, t, k) /\ t.ends[k] = NoConnection
      /\ t.connection_buffers_ = s.connection_buffers_
  BY <1>t, EndFields
<1>4. ~ s.ends[k].reading
  BY DEF Referenced
<1>5. s.ends[k].fd \in Fds => s.connection_buffers_[s.ends[k].fd] = Null
  BY <1>4, BufferedReads
<1>6. ServerInv(t, p)
  BY <1>2, <1>3, <1>5, EndInv, ConstantFacts
<1>7. Follows(s, t)
  BY <1>2, <1>3, EndFollows
<1>. QED BY <1>3, <1>6, <1>7

-----------------------------------------------------------------------------
(* ReplicaManager: a peer's handshake *)

(* From s to t the open connection k became that of the peer q. *)
Registered(s, t, q, k) ==
  /\ t.connection_buffers_ = s.connection_buffers_ /\ t.ends = s.ends
  /\ t.connecting = s.connecting /\ t.timers = s.timers
  /\ t.peers_by_id_[q].connection = k
  /\ t.socket_to_peer_id_[s.ends[k].fd] = q
  /\ \A r \in Servers \ {q} : t.peers_by_id_[r] = s.peers_by_id_[r]
  /\ \A other \in Fds \ {s.ends[k].fd} : t.socket_to_peer_id_[other] = s.socket_to_peer_id_[other]

LEMMA RegisteredFields ==
  ASSUME NEW B, NEW s \in ServerType(B), NEW k \in Streams, s.ends[k].fd \in Fds,
         NEW q \in Servers, NEW t, t = register_identified_peer(s, q, k)
  PROVE  t \in ServerType(B) /\ Registered(s, t, q, k)
<1>. DEFINE n == [state |-> "CONNECTED", connection |-> k]
            a == [s.peers_by_id_ EXCEPT ![q] = n]
            b == [s.socket_to_peer_id_ EXCEPT ![s.ends[k].fd] = q]
<1>1. n \in PeerType /\ n.connection = k
  BY DEF PeerType
<1>2. t = [s EXCEPT !.peers_by_id_ = a, !.socket_to_peer_id_ = b]
  BY DEF register_identified_peer
<1>. HIDE DEF n
<1>3. /\ a \in [Servers -> PeerType] /\ a[q] = n
      /\ \A r \in Servers \ {q} : a[r] = s.peers_by_id_[r]
  BY <1>1 DEF ServerType
<1>4. /\ b \in [Fds -> Servers \cup {Null}] /\ b[s.ends[k].fd] = q
      /\ \A other \in Fds \ {s.ends[k].fd} : b[other] = s.socket_to_peer_id_[other]
  BY DEF ServerType
<1>. HIDE DEF a, b
<1>5. t \in ServerType(B) /\ t.peers_by_id_ = a /\ t.socket_to_peer_id_ = b
  BY <1>2, <1>3, <1>4 DEF ServerType
<1>6. /\ t.connection_buffers_ = s.connection_buffers_ /\ t.ends = s.ends
      /\ t.connecting = s.connecting /\ t.timers = s.timers
  BY <1>2 DEF ServerType
<1>. QED BY <1>1, <1>3, <1>4, <1>5, <1>6 DEF Registered

(* The peer is one that connects to this server, and nobody else has the connection. *)
LEMMA RegisteredInv ==
  ASSUME NEW s, NEW t, NEW p \in Servers, ServerInv(s, p),
         NEW q \in Servers, ~ (q < p), NEW k \in Streams, s.ends[k].fd \in Fds, s.ends[k].reading,
         \A r \in Servers : s.peers_by_id_[r].connection = k => r = q,
         Registered(s, t, q, k)
  PROVE  ServerInv(t, p)
<1>1. OwnDescriptors(t)
  BY DEF ServerInv, OwnDescriptors, Registered
<1>2. OwnBuffers(t)
  BY BuffersStay DEF ServerInv, Registered
<1>3. PeersAreMapped(t)
  <2>. SUFFICES ASSUME NEW r \in Servers, NEW j \in Streams,
                       t.peers_by_id_[r].connection = j, t.ends[j].fd \in Fds
                PROVE  t.socket_to_peer_id_[t.ends[j].fd] = r /\ t.ends[j].reading
    BY DEF PeersAreMapped
  <2>1. CASE r = q
    BY <2>1 DEF Registered
  <2>2. CASE r # q
    <3>1. s.peers_by_id_[r].connection = j /\ s.ends[j] = t.ends[j]
      BY <2>2 DEF Registered
    <3>2. s.socket_to_peer_id_[s.ends[j].fd] = r /\ s.ends[j].reading
      BY <3>1 DEF ServerInv, PeersAreMapped
    <3>3. j # k
      BY <2>2, <3>1
    <3>4. s.ends[j].fd # s.ends[k].fd
      BY <3>3 DEF ServerInv, OwnDescriptors
    <3>. QED BY <3>1, <3>2, <3>4 DEF Registered
  <2>. QED BY <2>1, <2>2
<1>4. OneWayToConnect(t, p)
  <2>1. \A r \in Servers : r < p => r # q
    OBVIOUS
  <2>2. \A r \in Servers : r < p => \A fd \in Fds :
          t.socket_to_peer_id_[fd] = r => s.socket_to_peer_id_[fd] = r
    BY <2>1 DEF Registered
  <2>. QED BY <2>1, <2>2 DEF ServerInv, OneWayToConnect, Registered
<1>. QED BY <1>1, <1>2, <1>3, <1>4 DEF ServerInv

-----------------------------------------------------------------------------
(* A server that does not run, and one that starts *)

LEMMA InitialServerFacts ==
  /\ InitialServer \in ServerType({Null})
  /\ \A k \in Streams : /\ InitialServer.ends[k].fd = NoFd /\ ~ InitialServer.ends[k].reading
                        /\ ~ InitialServer.ends[k].failed
  /\ \A q \in Servers : /\ InitialServer.connecting[q] = NoFd /\ InitialServer.timers[q] = 0
                        /\ InitialServer.peers_by_id_[q].connection = Null
  /\ \A fd \in Fds : InitialServer.connection_buffers_[fd] = Null
  /\ \A fd \in Fds : InitialServer.socket_to_peer_id_[fd] = Null
<1>1. NoConnection \in EndType
  BY DEF NoConnection, EndType
<1>2. NoConnection.fd = NoFd /\ ~ NoConnection.reading /\ ~ NoConnection.failed
  BY DEF NoConnection
<1>3. NoPeer \in PeerType
  BY DEF NoPeer, PeerType
<1>4. NoPeer.connection = Null
  BY DEF NoPeer
<1>5. InitialServer \in ServerType({Null})
  BY <1>1, <1>3 DEF InitialServer, ServerType
<1>6. /\ InitialServer.ends = [k \in Streams |-> NoConnection]
      /\ InitialServer.connecting = [q \in Servers |-> NoFd]
      /\ InitialServer.timers = [q \in Servers |-> 0]
      /\ InitialServer.peers_by_id_ = [q \in Servers |-> NoPeer]
      /\ InitialServer.connection_buffers_ = [fd \in Fds |-> Null]
      /\ InitialServer.socket_to_peer_id_ = [fd \in Fds |-> Null]
  BY DEF InitialServer
<1>. QED BY <1>2, <1>4, <1>5, <1>6

LEMMA StartInv ==
  ASSUME NEW p \in Servers, NEW t, t = connect_to_peers(InitialServer, p)
  PROVE  /\ t \in ServerType({Null}) /\ ServerInv(t, p)
         /\ \A k \in Streams : t.ends[k].fd = NoFd /\ ~ t.ends[k].reading
         /\ \A q \in Servers : t.peers_by_id_[q].connection = Null
<1>. DEFINE i == InitialServer
            started == {q \in Servers : q < p /\ q + 1 \in Fds}
            waiting == {q \in Servers : q < p /\ q + 1 \notin Fds}
            n == [NoPeer EXCEPT !.state = "CONNECTING"]
            a == [q \in Servers |-> IF q \in started THEN n ELSE NoPeer]
            b == [q \in Servers |-> IF q \in started THEN q + 1 ELSE NoFd]
            c == [q \in Servers |-> IF q \in waiting THEN 1 ELSE 0]
<1>1. t = [i EXCEPT !.peers_by_id_ = a, !.connecting = b, !.timers = c]
  BY DEF connect_to_peers
<1>2. NoPeer \in PeerType
  BY DEF NoPeer, PeerType
<1>3. NoPeer.state = "DISCONNECTED" /\ NoPeer.connection = Null
  BY DEF NoPeer
<1>4. n \in PeerType
  BY <1>2 DEF PeerType
<1>5. n.state = "CONNECTING" /\ n.connection = Null
  BY <1>2, <1>3 DEF PeerType
<1>. HIDE DEF n
<1>6. a \in [Servers -> PeerType] /\ \A q \in Servers : a[q] = IF q \in started THEN n ELSE NoPeer
  BY <1>2, <1>4
<1>7. b \in [Servers -> Fds \cup {NoFd}] /\ \A q \in Servers : b[q] = IF q \in started THEN q + 1 ELSE NoFd
  OBVIOUS
<1>8. c \in [Servers -> Nat] /\ \A q \in Servers : c[q] = IF q \in waiting THEN 1 ELSE 0
  OBVIOUS
<1>. HIDE DEF a, b, c
<1>. USE InitialServerFacts
<1>. HIDE DEF i
<1>9. i \in ServerType({Null})
  BY DEF i
<1>10. t \in ServerType({Null}) /\ t.peers_by_id_ = a /\ t.connecting = b /\ t.timers = c
  BY <1>1, <1>6, <1>7, <1>8, <1>9 DEF ServerType
<1>11. /\ t.ends = i.ends /\ t.connection_buffers_ = i.connection_buffers_
       /\ t.socket_to_peer_id_ = i.socket_to_peer_id_
  BY <1>1, <1>9 DEF ServerType
<1>12. \A k \in Streams : t.ends[k].fd = NoFd /\ ~ t.ends[k].reading
  BY <1>11 DEF i
<1>13. \A q \in Servers : t.peers_by_id_[q].connection = Null
  BY <1>3, <1>5, <1>6, <1>10
<1>14. \A fd \in Fds : t.connection_buffers_[fd] = Null /\ t.socket_to_peer_id_[fd] = Null
  BY <1>11 DEF i
<1>15. OwnDescriptors(t)
  <2>1. \A q, r \in Servers : t.connecting[q] \in Fds /\ t.connecting[r] = t.connecting[q] => r = q
    BY <1>7, <1>10, ConstantFacts
  <2>. QED BY <1>12, <2>1, ConstantFacts DEF OwnDescriptors
<1>16. OwnBuffers(t)
  BY <1>12, <1>14, ConstantFacts DEF OwnBuffers
<1>17. PeersAreMapped(t)
  BY <1>12, ConstantFacts DEF PeersAreMapped
<1>18. OneWayToConnect(t, p)
  BY <1>3, <1>5, <1>6, <1>7, <1>8, <1>10, <1>14, ConstantFacts DEF OneWayToConnect
<1>. QED BY <1>10, <1>12, <1>13, <1>15, <1>16, <1>17, <1>18 DEF ServerInv
=============================================================================
